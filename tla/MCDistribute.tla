---------------------------- MODULE MCDistribute ----------------------------
\* Instances of Distribute for TLC: etcd or helm on three masters.
EXTENDS Distribute

Etcd == [bins |-> <<"etcd", "etcdctl">>, cleanFirst |-> TRUE]
Helm == [bins |-> <<"helm">>, cleanFirst |-> FALSE]

MCTools == {Etcd, Helm}
\* install; recover node of the first master
All     == {Node, {1}}
=============================================================================
