------------------------------ MODULE MCCluster ------------------------------
\* Instances of Cluster for TLC: three masters and a worker, in the order of
\* the configuration.
EXTENDS Cluster

CONSTANTS m1, m2, m3, w1

MCMasters  == {m1, m2, m3}
MCNode     == MCMasters \cup {w1}
MCPosition == [n \in MCNode |->
                 CASE n = m1 -> 1 [] n = m2 -> 2 [] n = m3 -> 3 [] n = w1 -> 4]
=============================================================================
