----------------------------- MODULE MCConnection -----------------------------
\* Instances of Connection for TLC: two nodes with different sudo passwords;
\* runs on the operator's own host with --iso or without, and with --remote.
EXTENDS Connection

CONSTANTS n1, n2

O(remote, iso, authMap) == [remote |-> remote, iso |-> iso, authMap |-> authMap]

MCUser == [m \in {n1, n2, Local} |-> "operator"]
MCPass == [m \in {n1, n2, Local} |-> IF m = n2 THEN 2 ELSE 1]
MCOptions   == {O(None, TRUE, FALSE), O(None, FALSE, FALSE), O(n1, FALSE, FALSE)}
WithAuthMap == {O(None, FALSE, TRUE)}
=============================================================================
