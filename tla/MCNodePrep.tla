------------------------------ MODULE MCNodePrep ------------------------------
\* An installation of two masters and a worker, or of the first master alone;
\* the worker added to either, and recovery of the second master.
EXTENDS NodePrep

CONSTANTS m1, m2, w

Op(c, t, r) == [config |-> c, targets |-> t, recovery |-> r]

Ops == {Op({m1, m2, w}, {m1, m2, w}, FALSE), Op({m1}, {m1}, FALSE),
        Op({m1, m2, w}, {w}, FALSE), Op({m1, w}, {w}, FALSE), Op({m1, m2, w}, {m2}, TRUE)}
=============================================================================
