------------------------------ MODULE MCSudoers ------------------------------
\* Instances of Sudoers for TLC: two nodes of the configuration; the program
\* runs on the first of them or on a host of its own.
EXTENDS Sudoers

CONSTANTS n1, n2, host

MCNodes == {n1, n2}
MCNode  == MCNodes \cup {host}
=============================================================================
