------------------------------ MODULE Membership ------------------------------
(***************************************************************************)
(* What the commands of tkube promise about the nodes of a deployment, in  *)
(* whatever order and however often they are run: a node leaves its        *)
(* cluster to be installed again or because it is lost; a new cluster is   *)
(* founded by one master when no master is in a cluster any more; and a    *)
(* node that is in no cluster joins the cluster of some master.            *)
(***************************************************************************)
EXTENDS Integers

CONSTANTS Node, Masters, Cluster   \* 0 is no cluster

VARIABLES
  member,   \* the cluster of a node, or 0
  founded   \* the clusters that have been founded

Init == member = [n \in Node |-> 0] /\ founded = {}

\* kubeadm reset, or the loss of the node
Leave(n) == member' = [member EXCEPT ![n] = 0] /\ UNCHANGED founded

\* kubeadm init
Found(n) ==
  /\ n \in Masters /\ \A m \in Masters : member[m] = 0
  /\ \E c \in Cluster \ founded :
       member' = [member EXCEPT ![n] = c] /\ founded' = founded \cup {c}

\* kubeadm join
Join(n) ==
  /\ member[n] = 0
  /\ \E m \in Masters : member[m] # 0 /\ member' = [member EXCEPT ![n] = member[m]]
  /\ UNCHANGED founded

Next == \E n \in Node : Leave(n) \/ Found(n) \/ Join(n)
Spec == Init /\ [][Next]_<<member, founded>>
=============================================================================
