---------------------------- MODULE NodePrep_proofs ----------------------------
(***************************************************************************)
(* What holds of NodePrep for every set of nodes, calls, bounds and        *)
(* distribution: members of a cluster stay fit to be members over reboots, *)
(* each master has the etcd its API server was set up for, and members     *)
(* know each other by name.  All three rest on how far the run has come    *)
(* with a node (Done): what a command of an earlier loop has set on a node *)
(* that has not rebooted since is still set when the node joins.           *)
(***************************************************************************)
EXTENDS NodePrep, TLAPS

(* ------------------------- how far the run is -------------------------- *)

\* The loops are numbered as in Loops: 1 hosts, 2 purge, 3 prepare,
\* 4 packages, 5 etcd, 6 startEtcd, 7 join.
LoopNo    == 1 .. 7
Last(l)   == Len(Commands(Loops[l]))
Visits(l) == NodesOf(call, Loops[l])

\* The run has passed the command c of the loop l on the node n.
Done(l, c, n) ==
  /\ loop > 0
  /\ \/ loop > l
     \/ loop = l /\ n \notin todo \cup {at}
     \/ loop = l /\ n = at /\ cmd > c

\* A loop is at one of its nodes and has left the rest for later.
PcInv ==
  loop > 0 => /\ cmd \in 1 .. Last(loop) /\ at \in Visits(loop)
              /\ todo \subseteq Visits(loop) /\ at \notin todo
              /\ runs > 0

(* ------------------------ fit for the next boot ------------------------- *)

\* SELinux is switched off for good or not at all.
SelinuxInv == \A n \in Nodes : live[n].selinux = "disabled" <=> disk[n].selinux = "disabled"

Permissive(s) == installer = "rpm" /\ SetSelinuxPermissive => s.selinux # "enforcing"

\* What the run has written on its nodes, and what it has set where it is
\* still connected, so that the node has not rebooted.
SetInv ==
  \A n \in call.targets :
    /\ Done(3, 3, n) => ~disk[n].swap
    /\ Done(3, 5, n) => Permissive(disk[n])
    /\ Done(4, 1, n) /\ installer = "apt" => disk[n].kubelet
    /\ Done(7, 1, n) => disk[n].forward
    /\ Done(3, 2, n) /\ n \in conn => ~live[n].swap
    /\ Done(3, 4, n) /\ n \in conn => Permissive(live[n])
    /\ Done(7, 2, n) /\ n \in conn => live[n].forward

\* A member has every setting twice.
MemberInv ==
  \A n \in Nodes : cluster[n] # 0 =>
    /\ ~disk[n].swap /\ disk[n].forward /\ Permissive(disk[n])
    /\ ~live[n].swap /\ live[n].forward /\ Permissive(live[n])
    /\ installer = "apt" => disk[n].kubelet /\ live[n].kubelet
    /\ n \notin booted => live[n].kubelet

BootInv == SelinuxInv /\ SetInv /\ MemberInv

(* ---------------------------- etcd services ---------------------------- *)

\* The masters of the run have no API server before they join, and the
\* service is stopped, or enabled and started, by then.
ServiceInv ==
  \A n \in call.targets \cap Masters :
    /\ loop < 7 /\ Done(2, 1, n) => store[n] = "none"
    /\ ~Multi(call) /\ Done(5, 1, n) /\ n \in conn => ~live[n].etcd
    /\ Multi(call) /\ Done(6, 1, n) => disk[n].etcd
    /\ Multi(call) /\ Done(6, 2, n) /\ n \in conn => live[n].etcd

\* The service that an API server needs is there for the next boot, too, and
\* what the next boot starts has been a service before.
StoreInv ==
  \A n \in Nodes :
    /\ store[n] = "service" => disk[n].etcd
    /\ disk[n].etcd => n \in served

EtcdInv == ServiceInv /\ StoreInv /\ EtcdOfCluster

(* -------------------------------- names -------------------------------- *)

\* All nodes of a configuration know each other.
AllNamed(config) == \A k \in config : config \subseteq hosts[k]

\* What the first loop has done so far, and what it has left behind in
\* earlier runs: a member is a node of a configuration whose nodes know each
\* other.
NameInv ==
  /\ \A k \in call.config : Done(1, 1, k) => call.config \subseteq hosts[k]
  /\ \A n \in Nodes : cluster[n] # 0 => \E c \in Calls : n \in c.config /\ AllNamed(c.config)

\* The operator's configuration only grows, or only shrinks, from one call
\* to another.
Nested == \A c, d \in Calls : c.config \subseteq d.config \/ d.config \subseteq c.config

(* ------------------------ the loops of the run ------------------------- *)

\* The commands of each loop, as a loop and a command number.
LEMMA LoopLengths ==
  /\ Len(Loops) = 7
  /\ Last(1) = 1 /\ Last(2) = 1 /\ Last(3) = 5 /\ Last(4) = 1 /\ Last(5) = 1
  /\ Last(6) = 2 /\ Last(7) = 3
BY DEF Last, Commands, Loops

LEMMA LoopNodes ==
  /\ Visits(1) = call.config
  /\ Visits(2) = call.targets /\ Visits(3) = call.targets /\ Visits(4) = call.targets
  /\ Visits(7) = call.targets
  /\ Visits(5) = call.targets \cap Masters
  /\ Visits(6) = IF Multi(call) THEN call.targets \cap Masters ELSE {}
BY DEF Visits, NodesOf, Loops

LEMMA LoopNames ==
  ASSUME loop \in LoopNo
  PROVE  /\ Loops[loop] = "hosts" => loop = 1
         /\ Loops[loop] = "purge" => loop = 2
         /\ Loops[loop] = "prepare" => loop = 3
         /\ Loops[loop] = "packages" => loop = 4
         /\ Loops[loop] = "etcd" => loop = 5
         /\ Loops[loop] = "startEtcd" => loop = 6
         /\ Loops[loop] = "join" => loop = 7
BY DEF LoopNo, Loops

LEMMA CommandNames ==
  ASSUME cmd \in 1 .. 5
  PROVE  /\ cmd <= 5 /\ Commands("prepare")[cmd] = "sysctl" => cmd = 1
         /\ cmd <= 5 /\ Commands("prepare")[cmd] = "swapoff" => cmd = 2
         /\ cmd <= 5 /\ Commands("prepare")[cmd] = "fstab" => cmd = 3
         /\ cmd <= 5 /\ Commands("prepare")[cmd] = "setenforce" => cmd = 4
         /\ cmd <= 5 /\ Commands("prepare")[cmd] = "selinux" => cmd = 5
         /\ cmd <= 2 /\ Commands("startEtcd")[cmd] = "enable" => cmd = 1
         /\ cmd <= 2 /\ Commands("startEtcd")[cmd] = "start" => cmd = 2
         /\ cmd <= 3 /\ Commands("join")[cmd] = "conf" => cmd = 1
         /\ cmd <= 3 /\ Commands("join")[cmd] = "load" => cmd = 2
         /\ cmd <= 3 /\ Commands("join")[cmd] = "kubeadm" => cmd = 3
BY DEF Commands

\* Of the loops that are left the next one is the first.
LEMMA MinLoop ==
  ASSUME NEW S \in SUBSET LoopNo, S # {}
  PROVE  Min(S) \in S /\ \A l \in S : Min(S) <= l
<1>1. \E k \in S : \A l \in S : k <= l
  <2>0. PICK x \in S : x \in LoopNo
    OBVIOUS
  <2>1. CASE 1 \in S
    BY <2>1 DEF LoopNo
  <2>2. CASE 1 \notin S /\ 2 \in S
    BY <2>2 DEF LoopNo
  <2>3. CASE 1 \notin S /\ 2 \notin S /\ 3 \in S
    BY <2>3 DEF LoopNo
  <2>4. CASE 1 \notin S /\ 2 \notin S /\ 3 \notin S /\ 4 \in S
    BY <2>4 DEF LoopNo
  <2>5. CASE 1 \notin S /\ 2 \notin S /\ 3 \notin S /\ 4 \notin S /\ 5 \in S
    BY <2>5 DEF LoopNo
  <2>6. CASE 1 \notin S /\ 2 \notin S /\ 3 \notin S /\ 4 \notin S /\ 5 \notin S /\ 6 \in S
    BY <2>6 DEF LoopNo
  <2>7. CASE 1 \notin S /\ 2 \notin S /\ 3 \notin S /\ 4 \notin S /\ 5 \notin S /\ 6 \notin S /\ 7 \in S
    BY <2>7 DEF LoopNo
  <2>8. x = 1 \/ x = 2 \/ x = 3 \/ x = 4 \/ x = 5 \/ x = 6 \/ x = 7
    BY <2>0 DEF LoopNo
  <2> QED
    BY <2>1, <2>2, <2>3, <2>4, <2>5, <2>6, <2>7, <2>8, <2>0
<1> QED
  BY <1>1 DEF Min

\* A loop begins with one of its nodes.
LEMMA BeginStep ==
  ASSUME NEW l, NEW S, S # {}, Begin(l, S)
  PROVE  loop' = l /\ cmd' = 1 /\ at' \in S /\ todo' = S \ {at'}
<1> DEFINE heads == IF Loops[l] = "join" /\ S \cap Masters # {} THEN S \cap Masters ELSE S
           head  == CHOOSE n \in heads : TRUE
<1>1. heads # {} /\ heads \subseteq S
  OBVIOUS
<1>2. head \in heads
  BY <1>1
<1>3. loop' = l /\ cmd' = 1 /\ at' = head /\ todo' = S \ {head}
  BY Zenon DEF Begin
<1> QED
  BY <1>1, <1>2, <1>3

\* After a command come the next one, the same loop on another node, the end
\* of the run, or the next loop that has a node.
NextCommand == cmd < Last(loop) /\ loop' = loop /\ cmd' = cmd + 1 /\ at' = at /\ todo' = todo
NextNode    == /\ cmd = Last(loop) /\ todo # {} /\ loop' = loop /\ cmd' = 1
               /\ at' \in todo /\ todo' = todo \ {at'}
LastLoop    == loop' = 0 /\ cmd' = 1 /\ at' = None /\ todo' = {}
NextLoop    == /\ cmd = Last(loop) /\ todo = {} /\ loop' \in loop + 1 .. 7 /\ cmd' = 1
               /\ at' \in Visits(loop') /\ todo' = Visits(loop') \ {at'}
               /\ \A l \in loop + 1 .. 7 : l < loop' => Visits(l) = {}

LEMMA GoonStep ==
  ASSUME TypeOK, PcInv, loop > 0, Goon
  PROVE  NextCommand \/ NextNode \/ LastLoop \/ NextLoop
<1>1. loop \in LoopNo /\ cmd <= Last(loop) /\ cmd \in Nat /\ Last(loop) \in Nat
  BY LoopLengths DEF TypeOK, PcInv, LoopNo
<1>2. CASE cmd < Last(loop)
  BY <1>2 DEF Goon, NextCommand, Last
<1>3. CASE cmd = Last(loop) /\ todo # {}
  <2>1. Begin(loop, todo)
    BY <1>1, <1>3 DEF Goon, Last
  <2> QED
    BY <2>1, <1>3, BeginStep DEF NextNode
<1>4. CASE cmd = Last(loop) /\ todo = {}
  <2> DEFINE later == {l \in loop + 1 .. Len(Loops) : NodesOf(call, Loops[l]) # {}}
  <2>1. IF later = {} THEN Over ELSE Begin(Min(later), NodesOf(call, Loops[Min(later)]))
    <3>1. ~(cmd < Len(Commands(Loops[loop])))
      BY <1>1, <1>4 DEF Last
    <3> QED
      BY <3>1, <1>4, Zenon DEF Goon
  <2>2. later = {l \in loop + 1 .. 7 : Visits(l) # {}}
    BY LoopLengths DEF Visits
  <2> HIDE DEF later
  <2>3. CASE later = {}
    BY <2>1, <2>3 DEF Over, LastLoop
  <2>4. CASE later # {}
    <3>1. later \in SUBSET LoopNo
      BY <1>1, <2>2 DEF LoopNo
    <3>2. Min(later) \in later /\ \A l \in later : Min(later) <= l
      BY <2>4, <3>1, MinLoop
    <3>3. Begin(Min(later), Visits(Min(later)))
      BY <2>1, <2>4 DEF Visits
    <3>4. Visits(Min(later)) # {} /\ Min(later) \in loop + 1 .. 7
      BY <3>2, <2>2
    <3>5. loop' = Min(later) /\ cmd' = 1 /\ at' \in Visits(Min(later))
          /\ todo' = Visits(Min(later)) \ {at'}
      BY <3>3, <3>4, BeginStep
    <3>6. \A l \in loop + 1 .. 7 : l < Min(later) => Visits(l) = {}
      <4>1. ASSUME NEW l \in loop + 1 .. 7, l < Min(later) PROVE l \notin later
        BY <3>2, <3>4, <4>1, <1>1 DEF LoopNo
      <4> QED
        BY <4>1, <2>2
    <3>7. Visits(loop') = Visits(Min(later))
      BY <3>5
    <3> QED
      BY <3>4, <3>5, <3>6, <3>7, <1>4 DEF NextLoop
  <2> QED
    BY <2>3, <2>4
<1> QED
  BY <1>1, <1>2, <1>3, <1>4

\* What the run has passed after a command is what it had passed before and
\* that command.
LEMMA DoneStep ==
  ASSUME TypeOK, PcInv, loop > 0, Goon,
         NEW l \in LoopNo, NEW c \in 1 .. Last(l), NEW n \in Visits(l), Done(l, c, n)'
  PROVE  Done(l, c, n) \/ (l = loop /\ c = cmd /\ n = at)
<1>0. loop \in LoopNo /\ cmd \in Nat /\ c \in Nat /\ c >= 1 /\ loop' # 0 /\ c <= Last(l)
      /\ Last(l) \in Nat
  BY LoopLengths DEF TypeOK, Done, LoopNo
<1>1. CASE NextCommand
  BY <1>0, <1>1 DEF NextCommand, Done, LoopNo
<1>2. CASE NextNode
  <2>1. todo' \cup {at'} = todo
    BY <1>2 DEF NextNode
  <2> QED
    BY <1>0, <1>2, <2>1 DEF NextNode, Done, LoopNo
<1>3. CASE NextLoop
  <2>1. CASE l < loop
    BY <1>0, <2>1 DEF Done, LoopNo
  <2>2. CASE l = loop
    BY <1>0, <1>3, <2>2 DEF Done, NextLoop, LoopNo
  <2>3. CASE l > loop
    <3>1. ~(l < loop')
      BY <1>0, <1>3, <2>3 DEF NextLoop, LoopNo
    <3>2. l = loop' /\ n \in todo' \cup {at'} /\ cmd' = 1
      BY <1>0, <1>3, <3>1 DEF NextLoop, Done, LoopNo
    <3> QED
      BY <1>0, <3>2 DEF Done, LoopNo
  <2> QED
    BY <1>0, <2>1, <2>2, <2>3 DEF LoopNo
<1> QED
  BY <1>0, <1>1, <1>2, <1>3, GoonStep DEF LastLoop

(* ------------------------------- types --------------------------------- *)

LEMMA CallNodes ==
  ASSUME call \in Calls
  PROVE  /\ call.config \in SUBSET Nodes /\ call.config # {}
         /\ call.targets \in SUBSET Nodes /\ call.targets \subseteq call.config
         /\ \A l \in LoopNo : Visits(l) \subseteq call.config
<1>1. call.config \in SUBSET Nodes /\ call.targets \in SUBSET Nodes
      /\ call.targets \subseteq call.config /\ call.config # {}
  BY NodePrepAssumption
<1> QED
  BY <1>1, LoopNodes DEF LoopNo

LEMMA NoneNode == None \in Nodes
BY NodePrepAssumption DEF None

\* The place of the run after each command.
LEMMA GoonPc ==
  ASSUME TypeOK, PcInv, loop > 0, Goon, call' = call, runs' = runs
  PROVE  /\ PcInv'
         /\ loop' \in 0 .. Len(Loops) /\ cmd' \in 1 .. 5 /\ at' \in Nodes /\ todo' \in SUBSET Nodes
<1>1. loop \in LoopNo /\ cmd \in Nat /\ cmd >= 1 /\ cmd <= Last(loop) /\ todo \in SUBSET Nodes
      /\ call \in Calls /\ at \in Nodes
  BY LoopLengths DEF TypeOK, PcInv, LoopNo
<1>2. \A l \in LoopNo : Last(l) \in 1 .. 5
  BY LoopLengths DEF LoopNo
<1>3. \A l \in LoopNo : Visits(l) \in SUBSET Nodes
  BY <1>1, CallNodes
<1>4. ASSUME loop' \in LoopNo, cmd' \in 1 .. Last(loop'), at' \in Visits(loop'),
             todo' \subseteq Visits(loop'), at' \notin todo'
      PROVE  PcInv' /\ loop' \in 0 .. Len(Loops) /\ cmd' \in 1 .. 5
             /\ at' \in Nodes /\ todo' \in SUBSET Nodes
  <2>1. NodesOf(call', Loops[loop']) = Visits(loop')
    BY DEF Visits
  <2>2. runs > 0
    BY <1>1 DEF PcInv, LoopNo
  <2>3. PcInv'
    BY <1>4, <2>1, <2>2 DEF PcInv, Visits, Last
  <2> QED
    BY <1>2, <1>3, <1>4, <2>3, LoopLengths DEF LoopNo
<1>5. CASE NextCommand
  <2>1. cmd' \in 1 .. Last(loop')
    BY <1>1, <1>2, <1>5 DEF NextCommand
  <2> QED
    BY <1>1, <1>4, <1>5, <2>1 DEF NextCommand, PcInv, LoopNo
<1>6. CASE NextNode
  <2>1. cmd' \in 1 .. Last(loop')
    BY <1>1, <1>2, <1>6 DEF NextNode
  <2> QED
    BY <1>1, <1>4, <1>6, <2>1 DEF NextNode, PcInv, LoopNo
<1>7. CASE LastLoop
  BY <1>7, NoneNode, LoopLengths DEF LastLoop, PcInv
<1>8. CASE NextLoop
  <2>1. loop' \in LoopNo
    BY <1>1, <1>8 DEF NextLoop, LoopNo
  <2>2. cmd' \in 1 .. Last(loop')
    BY <1>2, <1>8, <2>1 DEF NextLoop
  <2> QED
    BY <1>4, <1>8, <2>1, <2>2 DEF NextLoop
<1> QED
  BY <1>5, <1>6, <1>7, <1>8, GoonStep

\* Every command is one of its loop, on a node of its loop that the run is
\* connected to.
Runs(l, c) == loop = l /\ cmd = c /\ Goon /\ at \in conn /\ at \in Visits(l)
              /\ UNCHANGED <<installer, conn, call, runs, reboots>>

LEMMA CommandRuns ==
  ASSUME TypeOK, PcInv
  PROVE  /\ Command("hosts", "all") => Runs(1, 1)
         /\ Command("purge", "all") => Runs(2, 1)
         /\ Command("prepare", "sysctl") => Runs(3, 1)
         /\ Command("prepare", "swapoff") => Runs(3, 2)
         /\ Command("prepare", "fstab") => Runs(3, 3)
         /\ Command("prepare", "setenforce") => Runs(3, 4)
         /\ Command("prepare", "selinux") => Runs(3, 5)
         /\ Command("packages", "all") => Runs(4, 1)
         /\ Command("etcd", "all") => Runs(5, 1)
         /\ Command("startEtcd", "enable") => Runs(6, 1)
         /\ Command("startEtcd", "start") => Runs(6, 2)
         /\ Command("join", "conf") => Runs(7, 1)
         /\ Command("join", "load") => Runs(7, 2)
         /\ Command("join", "kubeadm") => Runs(7, 3)
<1> USE DEF LoopNo
<1>1. ASSUME NEW l, NEW c, Command(l, c)
      PROVE  /\ loop \in LoopNo /\ Loops[loop] = l /\ Commands(l)[cmd] = c
             /\ cmd \in 1 .. 5 /\ cmd \in 1 .. Last(loop)
             /\ Goon /\ at \in conn /\ at \in Visits(loop)
             /\ UNCHANGED <<installer, conn, call, runs, reboots>>
  BY <1>1, LoopLengths DEF TypeOK, PcInv, Command
<1>2. Command("hosts", "all") => Runs(1, 1)
  BY <1>1, LoopNames, LoopLengths DEF Runs
<1>3. Command("purge", "all") => Runs(2, 1)
  BY <1>1, LoopNames, LoopLengths DEF Runs
<1>4. ASSUME NEW c, Command("prepare", c)
      PROVE  loop = 3 /\ cmd <= 5 /\ cmd \in 1 .. 5 /\ Commands("prepare")[cmd] = c
             /\ Goon /\ at \in conn /\ at \in Visits(3)
             /\ UNCHANGED <<installer, conn, call, runs, reboots>>
  BY <1>1, <1>4, LoopNames, LoopLengths
<1>5. Command("prepare", "sysctl") => Runs(3, 1)
  BY <1>4, CommandNames DEF Runs
<1>6. Command("prepare", "swapoff") => Runs(3, 2)
  BY <1>4, CommandNames DEF Runs
<1>7. Command("prepare", "fstab") => Runs(3, 3)
  BY <1>4, CommandNames DEF Runs
<1>8. Command("prepare", "setenforce") => Runs(3, 4)
  BY <1>4, CommandNames DEF Runs
<1>9. Command("prepare", "selinux") => Runs(3, 5)
  BY <1>4, CommandNames DEF Runs
<1>10. Command("packages", "all") => Runs(4, 1)
  BY <1>1, LoopNames, LoopLengths DEF Runs
<1>11. Command("etcd", "all") => Runs(5, 1)
  BY <1>1, LoopNames, LoopLengths DEF Runs
<1>12. ASSUME NEW c, Command("startEtcd", c)
       PROVE  loop = 6 /\ cmd <= 2 /\ cmd \in 1 .. 5 /\ Commands("startEtcd")[cmd] = c
              /\ Goon /\ at \in conn /\ at \in Visits(6)
              /\ UNCHANGED <<installer, conn, call, runs, reboots>>
  BY <1>1, <1>12, LoopNames, LoopLengths
<1>13. Command("startEtcd", "enable") => Runs(6, 1)
  BY <1>12, CommandNames DEF Runs
<1>14. Command("startEtcd", "start") => Runs(6, 2)
  BY <1>12, CommandNames DEF Runs
<1>15. ASSUME NEW c, Command("join", c)
       PROVE  loop = 7 /\ cmd <= 3 /\ cmd \in 1 .. 5 /\ Commands("join")[cmd] = c
              /\ Goon /\ at \in conn /\ at \in Visits(7)
              /\ UNCHANGED <<installer, conn, call, runs, reboots>>
  BY <1>1, <1>15, LoopNames, LoopLengths
<1>16. Command("join", "conf") => Runs(7, 1)
  BY <1>15, CommandNames DEF Runs
<1>17. Command("join", "load") => Runs(7, 2)
  BY <1>15, CommandNames DEF Runs
<1>18. Command("join", "kubeadm") => Runs(7, 3)
  BY <1>15, CommandNames DEF Runs
<1> QED
  BY <1>2, <1>3, <1>5, <1>6, <1>7, <1>8, <1>9, <1>10, <1>11, <1>13, <1>14, <1>16, <1>17, <1>18

\* One setting of one node keeps the settings' types.
LEMMA SetTyped ==
  ASSUME NEW f \in [Nodes -> Settings], at \in Nodes
  PROVE  /\ [f EXCEPT ![at]["swap"] = FALSE] \in [Nodes -> Settings]
         /\ [f EXCEPT ![at]["watches"] = TRUE] \in [Nodes -> Settings]
         /\ [f EXCEPT ![at]["forward"] = TRUE] \in [Nodes -> Settings]
         /\ [f EXCEPT ![at]["kubelet"] = TRUE] \in [Nodes -> Settings]
         /\ [f EXCEPT ![at]["kubelet"] = FALSE] \in [Nodes -> Settings]
         /\ [f EXCEPT ![at]["etcd"] = TRUE] \in [Nodes -> Settings]
         /\ [f EXCEPT ![at]["etcd"] = FALSE] \in [Nodes -> Settings]
         /\ [f EXCEPT ![at]["selinux"] = "permissive"] \in [Nodes -> Settings]
BY DEF Settings

LEMMA TypeInit == Init => TypeOK /\ PcInv
<1> SUFFICES ASSUME Init PROVE TypeOK /\ PcInv
  OBVIOUS
<1>1. call \in Calls
  BY NodePrepAssumption DEF Init
<1>2. disk \in [Nodes -> Settings]
  BY DEF Init, Settings
<1>3. disk \in [Nodes -> Settings] /\ live \in [Nodes -> Settings]
  BY <1>2 DEF Init
<1>4. hosts \in [Nodes -> SUBSET Nodes] /\ cluster \in [Nodes -> 0 .. MaxRuns]
      /\ store \in [Nodes -> {"none", "service", "pod"}]
  BY NodePrepAssumption DEF Init
<1>5. loop = 0 /\ cmd = 1 /\ at = None /\ todo = {} /\ conn = {} /\ served = {} /\ booted = {}
      /\ runs = 0 /\ reboots = 0 /\ installer \in Installers
  BY DEF Init
<1> QED
  BY <1>1, <1>3, <1>4, <1>5, NoneNode, NodePrepAssumption, LoopLengths DEF TypeOK, PcInv

LEMMA TypeStep == TypeOK /\ PcInv /\ [Next]_vars => TypeOK' /\ PcInv'
<1> SUFFICES ASSUME TypeOK, PcInv, [Next]_vars PROVE TypeOK' /\ PcInv'
  OBVIOUS
<1>0. at \in Nodes /\ disk \in [Nodes -> Settings] /\ live \in [Nodes -> Settings]
      /\ hosts \in [Nodes -> SUBSET Nodes] /\ cluster \in [Nodes -> 0 .. MaxRuns]
      /\ store \in [Nodes -> {"none", "service", "pod"}]
      /\ call.config \in SUBSET Nodes /\ runs \in 0 .. MaxRuns /\ MaxRuns \in Nat
  BY CallNodes, NodePrepAssumption DEF TypeOK
\* A command of the run: its loop goes on, and what it sets has its type.
<1>1. ASSUME NEW l \in LoopNo, NEW c, Runs(l, c),
             disk' \in [Nodes -> Settings], live' \in [Nodes -> Settings],
             hosts' \in [Nodes -> SUBSET Nodes], cluster' \in [Nodes -> 0 .. MaxRuns],
             store' \in [Nodes -> {"none", "service", "pod"}],
             served' \in SUBSET Nodes, booted' \in SUBSET Nodes
      PROVE  TypeOK' /\ PcInv'
  <2>1. loop > 0 /\ Goon /\ UNCHANGED <<installer, conn, call, runs, reboots>>
    BY <1>1 DEF Runs, LoopNo
  <2>2. PcInv' /\ loop' \in 0 .. Len(Loops) /\ cmd' \in 1 .. 5
        /\ at' \in Nodes /\ todo' \in SUBSET Nodes
    BY <2>1, GoonPc
  <2> QED
    BY <1>1, <2>1, <2>2 DEF TypeOK
<1>2. CASE AddToEtcHosts
  <2>1. Runs(1, 1)
    BY <1>2, CommandRuns DEF AddToEtcHosts
  <2>2. /\ disk' \in [Nodes -> Settings] /\ live' \in [Nodes -> Settings]
        /\ hosts' \in [Nodes -> SUBSET Nodes] /\ cluster' \in [Nodes -> 0 .. MaxRuns]
        /\ store' \in [Nodes -> {"none", "service", "pod"}]
        /\ served' \in SUBSET Nodes /\ booted' \in SUBSET Nodes
    BY <1>2, <1>0, SetTyped DEF AddToEtcHosts, Set, TypeOK
  <2> QED
    BY <1>1, <2>1, <2>2 DEF LoopNo
<1>3. CASE Purge
  <2>1. Runs(2, 1)
    BY <1>3, CommandRuns DEF Purge
  <2>2. /\ disk' \in [Nodes -> Settings] /\ live' \in [Nodes -> Settings]
        /\ hosts' \in [Nodes -> SUBSET Nodes] /\ cluster' \in [Nodes -> 0 .. MaxRuns]
        /\ store' \in [Nodes -> {"none", "service", "pod"}]
        /\ served' \in SUBSET Nodes /\ booted' \in SUBSET Nodes
    <3>1. live' \in [Nodes -> Settings] /\ UNCHANGED <<disk, hosts, served, booted>>
      BY <1>3, <1>0, SetTyped DEF Purge, Set
    <3>2. cluster' = [cluster EXCEPT ![at] = 0] /\ store' = [store EXCEPT ![at] = "none"]
      BY <1>3 DEF Purge
    <3>3. cluster' \in [Nodes -> 0 .. MaxRuns] /\ store' \in [Nodes -> {"none", "service", "pod"}]
      BY <1>0, <3>2
    <3> QED
      BY <3>1, <3>3, <1>0 DEF TypeOK
  <2> QED
    BY <1>1, <2>1, <2>2 DEF LoopNo
<1>4. CASE Watches
  <2>1. Runs(3, 1)
    BY <1>4, CommandRuns DEF Watches
  <2>2. /\ disk' \in [Nodes -> Settings] /\ live' \in [Nodes -> Settings]
        /\ hosts' \in [Nodes -> SUBSET Nodes] /\ cluster' \in [Nodes -> 0 .. MaxRuns]
        /\ store' \in [Nodes -> {"none", "service", "pod"}]
        /\ served' \in SUBSET Nodes /\ booted' \in SUBSET Nodes
    BY <1>4, <1>0, SetTyped DEF Watches, Set, TypeOK
  <2> QED
    BY <1>1, <2>1, <2>2 DEF LoopNo
<1>5. CASE SwapOff
  <2>1. Runs(3, 2)
    BY <1>5, CommandRuns DEF SwapOff
  <2>2. /\ disk' \in [Nodes -> Settings] /\ live' \in [Nodes -> Settings]
        /\ hosts' \in [Nodes -> SUBSET Nodes] /\ cluster' \in [Nodes -> 0 .. MaxRuns]
        /\ store' \in [Nodes -> {"none", "service", "pod"}]
        /\ served' \in SUBSET Nodes /\ booted' \in SUBSET Nodes
    BY <1>5, <1>0, SetTyped DEF SwapOff, Set, TypeOK
  <2> QED
    BY <1>1, <2>1, <2>2 DEF LoopNo
<1>6. CASE CommentFstab
  <2>1. Runs(3, 3)
    BY <1>6, CommandRuns DEF CommentFstab
  <2>2. /\ disk' \in [Nodes -> Settings] /\ live' \in [Nodes -> Settings]
        /\ hosts' \in [Nodes -> SUBSET Nodes] /\ cluster' \in [Nodes -> 0 .. MaxRuns]
        /\ store' \in [Nodes -> {"none", "service", "pod"}]
        /\ served' \in SUBSET Nodes /\ booted' \in SUBSET Nodes
    BY <1>6, <1>0, SetTyped DEF CommentFstab, Set, TypeOK
  <2> QED
    BY <1>1, <2>1, <2>2 DEF LoopNo
<1>7. CASE SetEnforce
  <2>1. Runs(3, 4)
    BY <1>7, CommandRuns DEF SetEnforce
  <2>2. /\ disk' \in [Nodes -> Settings] /\ live' \in [Nodes -> Settings]
        /\ hosts' \in [Nodes -> SUBSET Nodes] /\ cluster' \in [Nodes -> 0 .. MaxRuns]
        /\ store' \in [Nodes -> {"none", "service", "pod"}]
        /\ served' \in SUBSET Nodes /\ booted' \in SUBSET Nodes
    <3>1. live' = live \/ live' = [live EXCEPT ![at]["selinux"] = "permissive"]
      BY <1>7 DEF SetEnforce, Set
    <3>2. [live EXCEPT ![at]["selinux"] = "permissive"] \in [Nodes -> Settings]
      BY <1>0, SetTyped, Zenon
    <3>3. live' \in [Nodes -> Settings]
      BY <3>1, <3>2, <1>0
    <3> QED
      BY <3>3, <1>7, <1>0 DEF SetEnforce, TypeOK
  <2> QED
    BY <1>1, <2>1, <2>2 DEF LoopNo
<1>8. CASE SelinuxConfig
  <2>1. Runs(3, 5)
    BY <1>8, CommandRuns DEF SelinuxConfig
  <2>2. /\ disk' \in [Nodes -> Settings] /\ live' \in [Nodes -> Settings]
        /\ hosts' \in [Nodes -> SUBSET Nodes] /\ cluster' \in [Nodes -> 0 .. MaxRuns]
        /\ store' \in [Nodes -> {"none", "service", "pod"}]
        /\ served' \in SUBSET Nodes /\ booted' \in SUBSET Nodes
    <3>1. disk' = disk \/ disk' = [disk EXCEPT ![at]["selinux"] = "permissive"]
      BY <1>8 DEF SelinuxConfig, Set
    <3>2. [disk EXCEPT ![at]["selinux"] = "permissive"] \in [Nodes -> Settings]
      BY <1>0, SetTyped, Zenon
    <3>3. disk' \in [Nodes -> Settings]
      BY <3>1, <3>2, <1>0
    <3> QED
      BY <3>3, <1>8, <1>0 DEF SelinuxConfig, TypeOK
  <2> QED
    BY <1>1, <2>1, <2>2 DEF LoopNo
<1>9. CASE InstallKubePackages
  <2>1. Runs(4, 1)
    BY <1>9, CommandRuns DEF InstallKubePackages
  <2>2. /\ disk' \in [Nodes -> Settings] /\ live' \in [Nodes -> Settings]
        /\ hosts' \in [Nodes -> SUBSET Nodes] /\ cluster' \in [Nodes -> 0 .. MaxRuns]
        /\ store' \in [Nodes -> {"none", "service", "pod"}]
        /\ served' \in SUBSET Nodes /\ booted' \in SUBSET Nodes
    <3>1. disk' = disk \/ disk' = [disk EXCEPT ![at]["kubelet"] = TRUE]
      BY <1>9 DEF InstallKubePackages, Set
    <3>2. [disk EXCEPT ![at]["kubelet"] = TRUE] \in [Nodes -> Settings]
      BY <1>0, SetTyped, Zenon
    <3>3. disk' \in [Nodes -> Settings]
      BY <3>1, <3>2, <1>0
    <3> QED
      BY <3>3, <1>9, <1>0 DEF InstallKubePackages, TypeOK
  <2> QED
    BY <1>1, <2>1, <2>2 DEF LoopNo
<1>10. CASE StopEtcd
  <2>1. Runs(5, 1)
    BY <1>10, CommandRuns DEF StopEtcd
  <2>2. /\ disk' \in [Nodes -> Settings] /\ live' \in [Nodes -> Settings]
        /\ hosts' \in [Nodes -> SUBSET Nodes] /\ cluster' \in [Nodes -> 0 .. MaxRuns]
        /\ store' \in [Nodes -> {"none", "service", "pod"}]
        /\ served' \in SUBSET Nodes /\ booted' \in SUBSET Nodes
    BY <1>10, <1>0, SetTyped DEF StopEtcd, Set, TypeOK
  <2> QED
    BY <1>1, <2>1, <2>2 DEF LoopNo
<1>11. CASE EnableEtcd
  <2>1. Runs(6, 1)
    BY <1>11, CommandRuns DEF EnableEtcd
  <2>2. /\ disk' \in [Nodes -> Settings] /\ live' \in [Nodes -> Settings]
        /\ hosts' \in [Nodes -> SUBSET Nodes] /\ cluster' \in [Nodes -> 0 .. MaxRuns]
        /\ store' \in [Nodes -> {"none", "service", "pod"}]
        /\ served' \in SUBSET Nodes /\ booted' \in SUBSET Nodes
    BY <1>11, <1>0, SetTyped DEF EnableEtcd, Set, TypeOK
  <2> QED
    BY <1>1, <2>1, <2>2 DEF LoopNo
<1>12. CASE StartEtcd
  <2>1. Runs(6, 2)
    BY <1>12, CommandRuns DEF StartEtcd
  <2>2. /\ disk' \in [Nodes -> Settings] /\ live' \in [Nodes -> Settings]
        /\ hosts' \in [Nodes -> SUBSET Nodes] /\ cluster' \in [Nodes -> 0 .. MaxRuns]
        /\ store' \in [Nodes -> {"none", "service", "pod"}]
        /\ served' \in SUBSET Nodes /\ booted' \in SUBSET Nodes
    BY <1>12, <1>0, SetTyped DEF StartEtcd, Set, TypeOK
  <2> QED
    BY <1>1, <2>1, <2>2 DEF LoopNo
<1>13. CASE KubernetesConf
  <2>1. Runs(7, 1)
    BY <1>13, CommandRuns DEF KubernetesConf
  <2>2. /\ disk' \in [Nodes -> Settings] /\ live' \in [Nodes -> Settings]
        /\ hosts' \in [Nodes -> SUBSET Nodes] /\ cluster' \in [Nodes -> 0 .. MaxRuns]
        /\ store' \in [Nodes -> {"none", "service", "pod"}]
        /\ served' \in SUBSET Nodes /\ booted' \in SUBSET Nodes
    BY <1>13, <1>0, SetTyped DEF KubernetesConf, Set, TypeOK
  <2> QED
    BY <1>1, <2>1, <2>2 DEF LoopNo
<1>14. CASE LoadSysctl
  <2>1. Runs(7, 2)
    BY <1>14, CommandRuns DEF LoadSysctl
  <2>2. /\ disk' \in [Nodes -> Settings] /\ live' \in [Nodes -> Settings]
        /\ hosts' \in [Nodes -> SUBSET Nodes] /\ cluster' \in [Nodes -> 0 .. MaxRuns]
        /\ store' \in [Nodes -> {"none", "service", "pod"}]
        /\ served' \in SUBSET Nodes /\ booted' \in SUBSET Nodes
    <3>1. live' = live \/ live' = [live EXCEPT ![at]["forward"] = TRUE]
      BY <1>14 DEF LoadSysctl, Set
    <3>2. [live EXCEPT ![at]["forward"] = TRUE] \in [Nodes -> Settings]
      BY <1>0, SetTyped, Zenon
    <3>3. live' \in [Nodes -> Settings]
      BY <3>1, <3>2, <1>0
    <3> QED
      BY <3>3, <1>14, <1>0 DEF LoadSysctl, TypeOK
  <2> QED
    BY <1>1, <2>1, <2>2 DEF LoopNo
<1>15. CASE Kubeadm
  <2>1. Runs(7, 3)
    BY <1>15, CommandRuns DEF Kubeadm
  <2>2. cluster' \in [Nodes -> 0 .. MaxRuns]
    <3>1. PICK c \in IF Founds THEN {runs} ELSE Joined : cluster' = [cluster EXCEPT ![at] = c]
      BY <1>15 DEF Kubeadm
    <3>2. Joined \subseteq 0 .. MaxRuns
      BY <1>0 DEF Joined
    <3>3. c \in 0 .. MaxRuns
      BY <1>0, <3>1, <3>2
    <3> QED
      BY <1>0, <3>1, <3>3
  <2>3. /\ live' \in [Nodes -> Settings] /\ UNCHANGED <<disk, hosts, served>>
        /\ store' \in [Nodes -> {"none", "service", "pod"}] /\ booted' \in SUBSET Nodes
    <3>1. live' \in [Nodes -> Settings]
      BY <1>15, <1>0, SetTyped DEF Kubeadm, Set
    <3>2. \E s \in {"none", "service", "pod"} : store' = [store EXCEPT ![at] = s]
      BY <1>15 DEF Kubeadm
    <3>3. booted' = booted \ {at} /\ UNCHANGED <<disk, hosts, served>>
      BY <1>15 DEF Kubeadm
    <3> QED
      BY <3>1, <3>2, <3>3, <1>0 DEF TypeOK
  <2>4. /\ disk' \in [Nodes -> Settings] /\ hosts' \in [Nodes -> SUBSET Nodes]
        /\ served' \in SUBSET Nodes
    BY <2>3, <1>0 DEF TypeOK
  <2> QED
    BY <1>1, <2>1, <2>2, <2>3, <2>4 DEF LoopNo
<1>16. CASE Start
  <2>1. call' \in Calls /\ conn' = call'.config /\ Begin(1, NodesOf(call', Loops[1]))
        /\ runs' = runs + 1 /\ runs < MaxRuns
        /\ UNCHANGED <<installer, node, served, booted, reboots>>
    BY <1>16 DEF Start
  <2>2. NodesOf(call', Loops[1]) = call'.config
    BY DEF NodesOf, Loops
  <2>3. call'.config \in SUBSET Nodes /\ call'.config # {}
    BY <2>1, NodePrepAssumption
  <2>4. loop' = 1 /\ cmd' = 1 /\ at' \in call'.config /\ todo' = call'.config \ {at'}
    BY <2>1, <2>2, <2>3, BeginStep
  <2>5. PcInv'
    BY <2>1, <2>2, <2>4, <1>0, LoopLengths DEF PcInv, Visits
  <2>6. TypeOK'
    BY <2>1, <2>3, <2>4, <1>0, LoopLengths DEF TypeOK, node
  <2> QED
    BY <2>5, <2>6
<1>17. CASE Interrupt
  BY <1>17, NoneNode, LoopLengths DEF Interrupt, Over, TypeOK, PcInv, node
<1>18. ASSUME NEW n \in Nodes, Reboot(n) PROVE TypeOK' /\ PcInv'
  <2>1. TypeOK'
    BY <1>18, <1>0, NodePrepAssumption DEF Reboot, TypeOK, pcs
  <2>2. PcInv'
    BY <1>18 DEF Reboot, pcs, PcInv, Visits
  <2> QED
    BY <2>1, <2>2
<1>19. CASE UNCHANGED vars
  BY <1>19 DEF vars, node, pcs, TypeOK, PcInv, Visits
<1> QED
  BY <1>2, <1>3, <1>4, <1>5, <1>6, <1>7, <1>8, <1>9, <1>10, <1>11, <1>12, <1>13, <1>14, <1>15,
     <1>16, <1>17, <1>18, <1>19
     DEF Next, Program, Prepare, Etcd, Join

LEMMA TypeAlways == Spec => [](TypeOK /\ PcInv)
BY TypeInit, TypeStep, PTL DEF Spec

LEMMA DoneAfter ==
  ASSUME TypeOK, PcInv, NEW l \in LoopNo, NEW c, Runs(l, c),
         NEW x \in LoopNo, NEW y \in 1 .. Last(x), NEW n \in Visits(x), Done(x, y, n)'
  PROVE  Done(x, y, n) \/ (x = l /\ y = c /\ n = at)
<1>1. loop > 0 /\ loop = l /\ cmd = c /\ Goon
  BY DEF Runs, LoopNo
<1> QED
  BY <1>1, DoneStep

(* ------------------------ fit for the next boot ------------------------- *)

\* No command takes a setting back, and only kubeadm makes a member.
Better ==
  \A n \in Nodes :
    /\ disk'[n].swap => disk[n].swap
    /\ live'[n].swap => live[n].swap
    /\ disk'[n].selinux = "enforcing" => disk[n].selinux = "enforcing"
    /\ live'[n].selinux = "enforcing" => live[n].selinux = "enforcing"
    /\ disk[n].forward => disk'[n].forward
    /\ live[n].forward => live'[n].forward
    /\ disk[n].kubelet => disk'[n].kubelet
Steady ==
  /\ UNCHANGED booted
  /\ \A n \in Nodes : cluster'[n] # 0 => cluster[n] # 0 /\ (live[n].kubelet => live'[n].kubelet)

\* What each command sets on its node.
Sets(l, c) ==
  /\ <<l, c>> = <<3, 2>> => ~live'[at].swap
  /\ <<l, c>> = <<3, 3>> => ~disk'[at].swap
  /\ <<l, c>> = <<3, 4>> => Permissive(live'[at])
  /\ <<l, c>> = <<3, 5>> => Permissive(disk'[at])
  /\ <<l, c>> = <<4, 1>> /\ installer = "apt" => disk'[at].kubelet
  /\ <<l, c>> = <<7, 1>> => disk'[at].forward
  /\ <<l, c>> = <<7, 2>> => live'[at].forward

LEMMA SetInvStep ==
  ASSUME TypeOK, PcInv, SetInv, NEW l \in LoopNo, NEW c, Runs(l, c), Better, Sets(l, c)
  PROVE  SetInv'
<1> SUFFICES ASSUME NEW n \in call.targets
             PROVE  /\ Done(3, 3, n)' => ~disk'[n].swap
                    /\ Done(3, 5, n)' => Permissive(disk'[n])
                    /\ Done(4, 1, n)' /\ installer = "apt" => disk'[n].kubelet
                    /\ Done(7, 1, n)' => disk'[n].forward
                    /\ Done(3, 2, n)' /\ n \in conn => ~live'[n].swap
                    /\ Done(3, 4, n)' /\ n \in conn => Permissive(live'[n])
                    /\ Done(7, 2, n)' /\ n \in conn => live'[n].forward
  BY DEF SetInv, Runs, Permissive
<1>1. n \in Nodes
  BY CallNodes DEF TypeOK
<1>2. \A x \in {3, 4, 7} : n \in Visits(x)
  BY LoopNodes
<1>3. /\ Done(3, 3, n)' => Done(3, 3, n) \/ (<<l, c>> = <<3, 3>> /\ n = at)
      /\ Done(3, 5, n)' => Done(3, 5, n) \/ (<<l, c>> = <<3, 5>> /\ n = at)
      /\ Done(4, 1, n)' => Done(4, 1, n) \/ (<<l, c>> = <<4, 1>> /\ n = at)
      /\ Done(7, 1, n)' => Done(7, 1, n) \/ (<<l, c>> = <<7, 1>> /\ n = at)
  BY <1>2, DoneAfter, LoopLengths DEF LoopNo
<1>4. /\ Done(3, 2, n)' => Done(3, 2, n) \/ (<<l, c>> = <<3, 2>> /\ n = at)
      /\ Done(3, 4, n)' => Done(3, 4, n) \/ (<<l, c>> = <<3, 4>> /\ n = at)
      /\ Done(7, 2, n)' => Done(7, 2, n) \/ (<<l, c>> = <<7, 2>> /\ n = at)
  BY <1>2, DoneAfter, LoopLengths DEF LoopNo
<1> QED
  BY <1>1, <1>3, <1>4 DEF SetInv, Sets, Better, Permissive

LEMMA MemberInvStep ==
  ASSUME TypeOK, MemberInv, Better, Steady, UNCHANGED installer
  PROVE  MemberInv'
BY DEF MemberInv, Better, Steady, Permissive

LEMMA BootStep == TypeOK /\ PcInv /\ BootInv /\ [Next]_vars => BootInv'
<1> SUFFICES ASSUME TypeOK, PcInv, BootInv, [Next]_vars PROVE BootInv'
  OBVIOUS
<1> USE DEF BootInv, LoopNo
<1>0. at \in Nodes /\ disk \in [Nodes -> Settings] /\ live \in [Nodes -> Settings]
      /\ cluster \in [Nodes -> 0 .. MaxRuns] /\ call.targets \in SUBSET Nodes
  BY CallNodes DEF TypeOK
<1>1. ASSUME NEW l \in LoopNo, NEW c, Runs(l, c), Better, Steady, Sets(l, c), SelinuxInv'
      PROVE  BootInv'
  BY <1>1, SetInvStep, MemberInvStep DEF Runs
<1>2. CASE AddToEtcHosts
  <2>1. Runs(1, 1)
    BY <1>2, CommandRuns DEF AddToEtcHosts
  <2>2. Better /\ Steady
    BY <1>2, <1>0 DEF AddToEtcHosts, Set, Better, Steady, Settings
  <2>3. Sets(1, 1) /\ SelinuxInv'
    BY <1>2, <1>0 DEF AddToEtcHosts, Set, Sets, Settings, SelinuxInv
  <2> QED
    BY <1>1, <2>1, <2>2, <2>3
<1>3. CASE Purge
  <2>1. Runs(2, 1)
    BY <1>3, CommandRuns DEF Purge
  <2>2. Better /\ Steady
    BY <1>3, <1>0 DEF Purge, Set, Better, Steady, Settings
  <2>3. Sets(2, 1) /\ SelinuxInv'
    BY <1>3, <1>0 DEF Purge, Set, Sets, Settings, SelinuxInv
  <2> QED
    BY <1>1, <2>1, <2>2, <2>3
<1>4. CASE Watches
  <2>1. Runs(3, 1)
    BY <1>4, CommandRuns DEF Watches
  <2>2. Better /\ Steady
    BY <1>4, <1>0 DEF Watches, Set, Better, Steady, Settings
  <2>3. Sets(3, 1) /\ SelinuxInv'
    BY <1>4, <1>0 DEF Watches, Set, Sets, Settings, SelinuxInv
  <2> QED
    BY <1>1, <2>1, <2>2, <2>3
<1>5. CASE SwapOff
  <2>1. Runs(3, 2)
    BY <1>5, CommandRuns DEF SwapOff
  <2>2. Better /\ Steady
    BY <1>5, <1>0 DEF SwapOff, Set, Better, Steady, Settings
  <2>3. Sets(3, 2) /\ SelinuxInv'
    BY <1>5, <1>0 DEF SwapOff, Set, Sets, Settings, SelinuxInv
  <2> QED
    BY <1>1, <2>1, <2>2, <2>3
<1>6. CASE CommentFstab
  <2>1. Runs(3, 3)
    BY <1>6, CommandRuns DEF CommentFstab
  <2>2. Better /\ Steady
    BY <1>6, <1>0 DEF CommentFstab, Set, Better, Steady, Settings
  <2>3. Sets(3, 3) /\ SelinuxInv'
    BY <1>6, <1>0 DEF CommentFstab, Set, Sets, Settings, SelinuxInv
  <2> QED
    BY <1>1, <2>1, <2>2, <2>3
<1>7. CASE SetEnforce
  <2>1. Runs(3, 4)
    BY <1>7, CommandRuns DEF SetEnforce
  <2>2. UNCHANGED <<disk, hosts, cluster, store, served, booted>>
    BY <1>7 DEF SetEnforce
  <2>3. CASE ToPermissive(at)
    <3>1. live' = [live EXCEPT ![at]["selinux"] = "permissive"]
      BY <1>7, <2>3 DEF SetEnforce, Set
    <3>2. Better /\ Steady /\ Sets(3, 4) /\ SelinuxInv'
      BY <2>2, <2>3, <3>1, <1>0
         DEF Better, Steady, Sets, Settings, SelinuxInv, ToPermissive, IsSelinuxEnabled,
             Permissive
    <3> QED
      BY <1>1, <2>1, <3>2
  <2>4. CASE ~(ToPermissive(at))
    <3>1. live' = live
      BY <1>7, <2>4 DEF SetEnforce
    <3>2. Better /\ Steady /\ Sets(3, 4) /\ SelinuxInv'
      BY <2>2, <2>4, <3>1, <1>0
         DEF Better, Steady, Sets, Settings, SelinuxInv, ToPermissive, IsSelinuxEnabled,
             Permissive
    <3> QED
      BY <1>1, <2>1, <3>2
  <2> QED
    BY <2>3, <2>4
<1>8. CASE SelinuxConfig
  <2>1. Runs(3, 5)
    BY <1>8, CommandRuns DEF SelinuxConfig
  <2>2. UNCHANGED <<live, hosts, cluster, store, served, booted>>
    BY <1>8 DEF SelinuxConfig
  <2>3. CASE ToPermissive(at) /\ disk[at].selinux = "enforcing"
    <3>1. disk' = [disk EXCEPT ![at]["selinux"] = "permissive"]
      BY <1>8, <2>3 DEF SelinuxConfig, Set
    <3>2. Better /\ Steady /\ Sets(3, 5) /\ SelinuxInv'
      BY <2>2, <2>3, <3>1, <1>0
         DEF Better, Steady, Sets, Settings, SelinuxInv, ToPermissive, IsSelinuxEnabled,
             Permissive
    <3> QED
      BY <1>1, <2>1, <3>2
  <2>4. CASE ~(ToPermissive(at) /\ disk[at].selinux = "enforcing")
    <3>1. disk' = disk
      BY <1>8, <2>4 DEF SelinuxConfig
    <3>2. Better /\ Steady /\ Sets(3, 5) /\ SelinuxInv'
      BY <2>2, <2>4, <3>1, <1>0
         DEF Better, Steady, Sets, Settings, SelinuxInv, ToPermissive, IsSelinuxEnabled,
             Permissive
    <3> QED
      BY <1>1, <2>1, <3>2
  <2> QED
    BY <2>3, <2>4
<1>9. CASE InstallKubePackages
  <2>1. Runs(4, 1)
    BY <1>9, CommandRuns DEF InstallKubePackages
  <2>2. UNCHANGED <<live, hosts, cluster, store, served, booted>>
    BY <1>9 DEF InstallKubePackages
  <2>3. CASE installer = "apt"
    <3>1. disk' = [disk EXCEPT ![at]["kubelet"] = TRUE]
      BY <1>9, <2>3 DEF InstallKubePackages, Set
    <3>2. Better /\ Steady /\ Sets(4, 1) /\ SelinuxInv'
      BY <2>2, <2>3, <3>1, <1>0 DEF Better, Steady, Sets, Settings, SelinuxInv
    <3> QED
      BY <1>1, <2>1, <3>2
  <2>4. CASE ~(installer = "apt")
    <3>1. disk' = disk
      BY <1>9, <2>4 DEF InstallKubePackages
    <3>2. Better /\ Steady /\ Sets(4, 1) /\ SelinuxInv'
      BY <2>2, <2>4, <3>1, <1>0 DEF Better, Steady, Sets, Settings, SelinuxInv
    <3> QED
      BY <1>1, <2>1, <3>2
  <2> QED
    BY <2>3, <2>4
<1>10. CASE StopEtcd
  <2>1. Runs(5, 1)
    BY <1>10, CommandRuns DEF StopEtcd
  <2>2. Better /\ Steady
    BY <1>10, <1>0 DEF StopEtcd, Set, Better, Steady, Settings
  <2>3. Sets(5, 1) /\ SelinuxInv'
    BY <1>10, <1>0 DEF StopEtcd, Set, Sets, Settings, SelinuxInv
  <2> QED
    BY <1>1, <2>1, <2>2, <2>3
<1>11. CASE EnableEtcd
  <2>1. Runs(6, 1)
    BY <1>11, CommandRuns DEF EnableEtcd
  <2>2. Better /\ Steady
    BY <1>11, <1>0 DEF EnableEtcd, Set, Better, Steady, Settings
  <2>3. Sets(6, 1) /\ SelinuxInv'
    BY <1>11, <1>0 DEF EnableEtcd, Set, Sets, Settings, SelinuxInv
  <2> QED
    BY <1>1, <2>1, <2>2, <2>3
<1>12. CASE StartEtcd
  <2>1. Runs(6, 2)
    BY <1>12, CommandRuns DEF StartEtcd
  <2>2. Better /\ Steady
    BY <1>12, <1>0 DEF StartEtcd, Set, Better, Steady, Settings
  <2>3. Sets(6, 2) /\ SelinuxInv'
    BY <1>12, <1>0 DEF StartEtcd, Set, Sets, Settings, SelinuxInv
  <2> QED
    BY <1>1, <2>1, <2>2, <2>3
<1>13. CASE KubernetesConf
  <2>1. Runs(7, 1)
    BY <1>13, CommandRuns DEF KubernetesConf
  <2>2. Better /\ Steady
    BY <1>13, <1>0 DEF KubernetesConf, Set, Better, Steady, Settings
  <2>3. Sets(7, 1) /\ SelinuxInv'
    BY <1>13, <1>0 DEF KubernetesConf, Set, Sets, Settings, SelinuxInv
  <2> QED
    BY <1>1, <2>1, <2>2, <2>3
<1>14. CASE LoadSysctl
  <2>1. Runs(7, 2)
    BY <1>14, CommandRuns DEF LoadSysctl
  <2>2. UNCHANGED <<disk, hosts, cluster, store, served, booted>>
    BY <1>14 DEF LoadSysctl
  <2>3. CASE disk[at].forward
    <3>1. live' = [live EXCEPT ![at]["forward"] = TRUE]
      BY <1>14, <2>3 DEF LoadSysctl, Set
    <3>2. Better /\ Steady /\ Sets(7, 2) /\ SelinuxInv'
      BY <2>2, <2>3, <3>1, <1>0 DEF Better, Steady, Sets, Settings, SelinuxInv
    <3> QED
      BY <1>1, <2>1, <3>2
  <2>4. CASE ~(disk[at].forward)
    <3>1. live' = live
      BY <1>14, <2>4 DEF LoadSysctl
    <3>2. at \in call.targets /\ Done(7, 1, at)
      BY <2>1, LoopNodes DEF Runs, Done
    <3> QED
      BY <2>4, <3>2 DEF SetInv
  <2> QED
    BY <2>3, <2>4
<1>15. CASE Kubeadm
  <2>1. Runs(7, 3)
    BY <1>15, CommandRuns DEF Kubeadm
  <2>2. Better /\ Sets(7, 3) /\ SelinuxInv'
    BY <1>15, <1>0 DEF Kubeadm, Set, Better, Sets, Settings, SelinuxInv
  <2>3. SetInv'
    BY <2>1, <2>2, SetInvStep
  <2>4. at \in call.targets /\ at \in conn /\ loop = 7 /\ cmd = 3
    BY <2>1, LoopNodes DEF Runs
  <2>5. Done(3, 3, at) /\ Done(3, 5, at) /\ Done(4, 1, at) /\ Done(7, 1, at)
        /\ Done(3, 2, at) /\ Done(3, 4, at) /\ Done(7, 2, at)
    BY <2>4 DEF Done
  <2>6. /\ ~disk[at].swap /\ disk[at].forward /\ Permissive(disk[at])
        /\ ~live[at].swap /\ live[at].forward /\ Permissive(live[at])
        /\ installer = "apt" => disk[at].kubelet
    BY <2>4, <2>5 DEF SetInv
  <2>7. /\ live'[at].kubelet /\ UNCHANGED <<disk, installer>>
        /\ live'[at].swap = live[at].swap /\ live'[at].forward = live[at].forward
        /\ live'[at].selinux = live[at].selinux
        /\ \A n \in Nodes : n # at => cluster'[n] = cluster[n] /\ live'[n] = live[n]
        /\ booted' = booted \ {at}
    BY <1>15, <1>0 DEF Kubeadm, Set, Command, Settings
  <2>8. MemberInv'
    <3>1. ASSUME NEW n \in Nodes, cluster'[n] # 0
          PROVE  /\ ~disk'[n].swap /\ disk'[n].forward /\ Permissive(disk'[n])
                 /\ ~live'[n].swap /\ live'[n].forward /\ Permissive(live'[n])
                 /\ installer = "apt" => disk'[n].kubelet /\ live'[n].kubelet
                 /\ n \notin booted' => live'[n].kubelet
      <4>1. CASE n = at
        BY <4>1, <2>6, <2>7 DEF Permissive
      <4>2. CASE n # at
        BY <3>1, <4>2, <2>7 DEF MemberInv
      <4> QED
        BY <4>1, <4>2
    <3> QED
      BY <3>1, <2>7 DEF MemberInv, Permissive
  <2> QED
    BY <2>2, <2>3, <2>8
<1>16. CASE Start
  <2>1. loop' = 1 /\ UNCHANGED <<disk, live, cluster, booted, installer>>
    BY <1>16 DEF Start, Begin, node
  <2>2. SetInv'
    BY <2>1 DEF SetInv, Done
  <2> QED
    BY <2>1, <2>2 DEF SelinuxInv, MemberInv, Permissive
<1>17. CASE Interrupt
  <2>1. loop' = 0 /\ UNCHANGED <<disk, live, cluster, booted, installer>>
    BY <1>17 DEF Interrupt, Over, node
  <2>2. SetInv'
    BY <2>1 DEF SetInv, Done
  <2> QED
    BY <2>1, <2>2 DEF SelinuxInv, MemberInv, Permissive
<1>18. ASSUME NEW n \in Nodes, Reboot(n) PROVE BootInv'
  <2>1. /\ live' = [live EXCEPT ![n] = disk[n]] /\ conn' = conn \ {n} /\ booted' = booted \cup {n}
        /\ UNCHANGED <<disk, cluster, call, loop, cmd, at, todo, installer>>
    BY <1>18 DEF Reboot, pcs
  <2>2. live'[n] = disk[n] /\ \A k \in Nodes : k # n => live'[k] = live[k]
    BY <2>1, <1>0
  <2>3. SelinuxInv'
    BY <2>1, <2>2 DEF SelinuxInv
  <2>4. MemberInv'
    BY <2>1, <2>2 DEF MemberInv, Permissive
  <2>5. SetInv'
    BY <2>1, <2>2, <1>0 DEF SetInv, Done, Permissive
  <2> QED
    BY <2>3, <2>4, <2>5
<1>19. CASE UNCHANGED vars
  BY <1>19 DEF vars, node, pcs, SelinuxInv, SetInv, MemberInv, Done, Permissive
<1> QED
  BY <1>2, <1>3, <1>4, <1>5, <1>6, <1>7, <1>8, <1>9, <1>10, <1>11, <1>12, <1>13, <1>14, <1>15,
     <1>16, <1>17, <1>18, <1>19
     DEF Next, Program, Prepare, Etcd, Join

LEMMA BootInit == Init => BootInv
BY NodePrepAssumption DEF Init, BootInv, SelinuxInv, SetInv, MemberInv, Done

LEMMA BootAlways == Spec => []BootInv
BY BootInit, BootStep, TypeAlways, PTL DEF Spec

\* A member has no swap, forwards packets, does not enforce SELinux and runs
\* kubelet, over any reboots, runs cut short between the two halves of a
\* setting and installers; where packages enable no service (rpm) kubelet is
\* off after a reboot.
THEOREM Boots == Spec => []MembersBoot
<1>1. TypeOK /\ BootInv => MembersBoot
  <2> SUFFICES ASSUME TypeOK, BootInv, NEW n \in Nodes, cluster[n] # 0
               PROVE  /\ ~live[n].swap /\ live[n].forward
                      /\ Permissive(live[n])
                      /\ (installer = "rpm" /\ n \in booted) \/ live[n].kubelet
    BY DEF MembersBoot, Permissive
  <2>1. installer \in {"apt", "rpm"}
    BY NodePrepAssumption DEF TypeOK
  <2> QED
    BY <2>1 DEF BootInv, MemberInv
<1> QED
  BY <1>1, BootAlways, TypeAlways, PTL

(* ---------------------------- etcd services ---------------------------- *)

\* The run does not go back to an earlier loop.
LEMMA LoopOn ==
  ASSUME TypeOK, PcInv, loop > 0, Goon
  PROVE  loop' = 0 \/ (loop' \in Nat /\ loop' >= loop)
<1>1. loop \in Nat
  BY LoopLengths DEF TypeOK
<1> QED
  BY <1>1, GoonStep DEF NextCommand, NextNode, LastLoop, NextLoop

\* What a command does to the services.
Keeps(l, n) ==
  /\ store'[n] \in {store[n], "none"} \/ l = 7
  /\ disk[n].etcd => disk'[n].etcd
  /\ live'[n].etcd => live[n].etcd \/ l = 6
  /\ live[n].etcd => live'[n].etcd \/ l = 5
Serves(l, c) ==
  /\ \A n \in Nodes : Keeps(l, n)
  /\ <<l, c>> = <<2, 1>> => store'[at] = "none"
  /\ <<l, c>> = <<5, 1>> => ~live'[at].etcd
  /\ <<l, c>> = <<6, 1>> => disk'[at].etcd
  /\ <<l, c>> = <<6, 2>> => live'[at].etcd

LEMMA ServiceStep ==
  ASSUME TypeOK, PcInv, ServiceInv, NEW l \in LoopNo, NEW c, Runs(l, c), Serves(l, c)
  PROVE  ServiceInv'
<1> SUFFICES ASSUME NEW n \in call.targets \cap Masters
             PROVE  /\ loop' < 7 /\ Done(2, 1, n)' => store'[n] = "none"
                    /\ ~Multi(call) /\ Done(5, 1, n)' /\ n \in conn => ~live'[n].etcd
                    /\ Multi(call) /\ Done(6, 1, n)' => disk'[n].etcd
                    /\ Multi(call) /\ Done(6, 2, n)' /\ n \in conn => live'[n].etcd
  <2>1. call' = call /\ conn' = conn
    BY DEF Runs
  <2> QED
    BY <2>1 DEF ServiceInv, Multi
<1>1. n \in Nodes /\ loop = l /\ Goon /\ at \in Visits(l) /\ loop \in LoopNo
  BY CallNodes DEF TypeOK, Runs
<1>2. n \in Visits(2) /\ n \in Visits(5) /\ (Multi(call) => n \in Visits(6))
  BY LoopNodes
<1>3. loop' < 7 /\ Done(2, 1, n)' => l < 7 /\ (Done(2, 1, n) \/ (<<l, c>> = <<2, 1>> /\ n = at))
  <2>1. Done(2, 1, n)' => loop' # 0
    BY DEF Done
  <2>2. Done(2, 1, n)' => Done(2, 1, n) \/ (<<l, c>> = <<2, 1>> /\ n = at)
    BY <1>2, DoneAfter, LoopLengths DEF LoopNo
  <2>3. loop' < 7 /\ loop' # 0 => l < 7
    BY <1>1, LoopOn DEF LoopNo
  <2> QED
    BY <2>1, <2>2, <2>3
<1>4. /\ Done(5, 1, n)' => Done(5, 1, n) \/ (<<l, c>> = <<5, 1>> /\ n = at)
      /\ Multi(call) /\ Done(6, 1, n)' => Done(6, 1, n) \/ (<<l, c>> = <<6, 1>> /\ n = at)
      /\ Multi(call) /\ Done(6, 2, n)' => Done(6, 2, n) \/ (<<l, c>> = <<6, 2>> /\ n = at)
  BY <1>2, DoneAfter, LoopLengths DEF LoopNo
<1>5. ~Multi(call) => l # 6
  BY <1>1, LoopNodes
<1>6. l = 5 => ~Done(6, 2, n)
  BY <1>1 DEF Done
\* What held of n before, and what the command does to its services.
<1>7. /\ loop < 7 /\ Done(2, 1, n) => store[n] = "none"
      /\ ~Multi(call) /\ Done(5, 1, n) /\ n \in conn => ~live[n].etcd
      /\ Multi(call) /\ Done(6, 1, n) => disk[n].etcd
      /\ Multi(call) /\ Done(6, 2, n) /\ n \in conn => live[n].etcd
  BY Zenon DEF ServiceInv
<1>8. Keeps(l, n)
  BY <1>1, Zenon DEF Serves
<1>9. /\ <<l, c>> = <<2, 1>> => store'[at] = "none"
      /\ <<l, c>> = <<5, 1>> => ~live'[at].etcd
      /\ <<l, c>> = <<6, 1>> => disk'[at].etcd
      /\ <<l, c>> = <<6, 2>> => live'[at].etcd
  BY Zenon DEF Serves
<1>10. ASSUME loop' < 7, Done(2, 1, n)' PROVE store'[n] = "none"
  BY <1>1, <1>3, <1>7, <1>8, <1>9, <1>10 DEF Keeps
<1>11. ASSUME ~Multi(call), Done(5, 1, n)', n \in conn PROVE ~live'[n].etcd
  BY <1>4, <1>5, <1>7, <1>8, <1>9, <1>11 DEF Keeps
<1>12. ASSUME Multi(call), Done(6, 1, n)' PROVE disk'[n].etcd
  BY <1>4, <1>7, <1>8, <1>9, <1>12 DEF Keeps
<1>13. ASSUME Multi(call), Done(6, 2, n)', n \in conn PROVE live'[n].etcd
  BY <1>4, <1>6, <1>7, <1>8, <1>9, <1>13 DEF Keeps
<1> QED
  BY <1>10, <1>11, <1>12, <1>13

LEMMA EtcdStep == TypeOK /\ PcInv /\ EtcdInv /\ [Next]_vars => EtcdInv'
<1> SUFFICES ASSUME TypeOK, PcInv, EtcdInv, [Next]_vars PROVE EtcdInv'
  OBVIOUS
<1> USE DEF EtcdInv, LoopNo
<1>0. at \in Nodes /\ disk \in [Nodes -> Settings] /\ live \in [Nodes -> Settings]
      /\ store \in [Nodes -> {"none", "service", "pod"}] /\ call.targets \in SUBSET Nodes
  BY CallNodes DEF TypeOK
\* Most commands leave the services alone.
<1>1. ASSUME NEW l \in LoopNo, NEW c, Runs(l, c),
             <<l, c>> \notin {<<2, 1>>, <<5, 1>>, <<6, 1>>, <<6, 2>>},
             \A n \in Nodes : disk'[n].etcd = disk[n].etcd /\ live'[n].etcd = live[n].etcd,
             UNCHANGED <<store, served, booted>>
      PROVE  EtcdInv'
  <2>1. Serves(l, c)
    BY <1>1 DEF Serves, Keeps
  <2> QED
    BY <1>1, <2>1, ServiceStep DEF StoreInv, EtcdOfCluster
<1>2. CASE AddToEtcHosts
  <2>1. Runs(1, 1)
    BY <1>2, CommandRuns DEF AddToEtcHosts
  <2>2. /\ \A n \in Nodes : disk'[n].etcd = disk[n].etcd /\ live'[n].etcd = live[n].etcd
        /\ UNCHANGED <<store, served, booted>>
    BY <1>2, <1>0 DEF AddToEtcHosts, Set, Settings
  <2> QED
    BY <1>1, <2>1, <2>2
<1>3. CASE Purge
  <2>1. Runs(2, 1)
    BY <1>3, CommandRuns DEF Purge
  <2>2. /\ store' = [store EXCEPT ![at] = "none"] /\ UNCHANGED <<disk, served, booted>>
        /\ \A n \in Nodes : live'[n].etcd = live[n].etcd
    BY <1>3, <1>0 DEF Purge, Set, Settings
  <2>3. Serves(2, 1)
    BY <2>2, <1>0 DEF Serves, Keeps
  <2> QED
    BY <2>1, <2>2, <2>3, <1>0, ServiceStep DEF StoreInv, EtcdOfCluster
<1>4. CASE Watches
  <2>1. Runs(3, 1)
    BY <1>4, CommandRuns DEF Watches
  <2>2. /\ \A n \in Nodes : disk'[n].etcd = disk[n].etcd /\ live'[n].etcd = live[n].etcd
        /\ UNCHANGED <<store, served, booted>>
    BY <1>4, <1>0 DEF Watches, Set, Settings
  <2> QED
    BY <1>1, <2>1, <2>2
<1>5. CASE SwapOff
  <2>1. Runs(3, 2)
    BY <1>5, CommandRuns DEF SwapOff
  <2>2. /\ \A n \in Nodes : disk'[n].etcd = disk[n].etcd /\ live'[n].etcd = live[n].etcd
        /\ UNCHANGED <<store, served, booted>>
    BY <1>5, <1>0 DEF SwapOff, Set, Settings
  <2> QED
    BY <1>1, <2>1, <2>2
<1>6. CASE CommentFstab
  <2>1. Runs(3, 3)
    BY <1>6, CommandRuns DEF CommentFstab
  <2>2. /\ \A n \in Nodes : disk'[n].etcd = disk[n].etcd /\ live'[n].etcd = live[n].etcd
        /\ UNCHANGED <<store, served, booted>>
    BY <1>6, <1>0 DEF CommentFstab, Set, Settings
  <2> QED
    BY <1>1, <2>1, <2>2
<1>7. CASE SetEnforce
  <2>1. Runs(3, 4)
    BY <1>7, CommandRuns DEF SetEnforce
  <2>2. /\ \A n \in Nodes : disk'[n].etcd = disk[n].etcd /\ live'[n].etcd = live[n].etcd
        /\ UNCHANGED <<store, served, booted>>
    <3>1. /\ live' = live \/ live' = [live EXCEPT ![at]["selinux"] = "permissive"]
          /\ UNCHANGED <<disk, store, served, booted>>
      BY <1>7 DEF SetEnforce, Set
    <3>2. \A n \in Nodes : [live EXCEPT ![at]["selinux"] = "permissive"][n].etcd = live[n].etcd
      BY <1>0 DEF Settings
    <3> QED
      BY <3>1, <3>2
  <2> QED
    BY <1>1, <2>1, <2>2
<1>8. CASE SelinuxConfig
  <2>1. Runs(3, 5)
    BY <1>8, CommandRuns DEF SelinuxConfig
  <2>2. /\ \A n \in Nodes : disk'[n].etcd = disk[n].etcd /\ live'[n].etcd = live[n].etcd
        /\ UNCHANGED <<store, served, booted>>
    <3>1. /\ disk' = disk \/ disk' = [disk EXCEPT ![at]["selinux"] = "permissive"]
          /\ UNCHANGED <<live, store, served, booted>>
      BY <1>8 DEF SelinuxConfig, Set
    <3>2. \A n \in Nodes : [disk EXCEPT ![at]["selinux"] = "permissive"][n].etcd = disk[n].etcd
      BY <1>0 DEF Settings
    <3> QED
      BY <3>1, <3>2
  <2> QED
    BY <1>1, <2>1, <2>2
<1>9. CASE InstallKubePackages
  <2>1. Runs(4, 1)
    BY <1>9, CommandRuns DEF InstallKubePackages
  <2>2. /\ \A n \in Nodes : disk'[n].etcd = disk[n].etcd /\ live'[n].etcd = live[n].etcd
        /\ UNCHANGED <<store, served, booted>>
    <3>1. /\ disk' = disk \/ disk' = [disk EXCEPT ![at]["kubelet"] = TRUE]
          /\ UNCHANGED <<live, store, served, booted>>
      BY <1>9 DEF InstallKubePackages, Set
    <3>2. \A n \in Nodes : [disk EXCEPT ![at]["kubelet"] = TRUE][n].etcd = disk[n].etcd
      BY <1>0 DEF Settings
    <3> QED
      BY <3>1, <3>2
  <2> QED
    BY <1>1, <2>1, <2>2
<1>10. CASE StopEtcd
  <2>1. Runs(5, 1)
    BY <1>10, CommandRuns DEF StopEtcd
  <2>2. /\ UNCHANGED <<disk, store, served, booted>> /\ ~live'[at].etcd
        /\ \A n \in Nodes : n # at => live'[n] = live[n]
    BY <1>10, <1>0 DEF StopEtcd, Set, Settings
  <2>3. Serves(5, 1)
    BY <2>2 DEF Serves, Keeps
  <2>4. store[at] = "none"
    <3>1. at \in call.targets \cap Masters /\ Done(2, 1, at) /\ loop < 7
      BY <2>1, LoopNodes DEF Runs, Done
    <3> QED
      BY <3>1 DEF ServiceInv
  <2> QED
    BY <2>1, <2>2, <2>3, <2>4, ServiceStep DEF StoreInv, EtcdOfCluster
<1>11. CASE EnableEtcd
  <2>1. Runs(6, 1)
    BY <1>11, CommandRuns DEF EnableEtcd
  <2>2. /\ UNCHANGED <<live, store, booted>> /\ served' = served \cup {at}
        /\ disk'[at].etcd /\ \A n \in Nodes : n # at => disk'[n] = disk[n]
    BY <1>11, <1>0 DEF EnableEtcd, Set, Settings
  <2>3. Serves(6, 1)
    BY <2>2 DEF Serves, Keeps
  <2> QED
    BY <2>1, <2>2, <2>3, ServiceStep DEF StoreInv, EtcdOfCluster
<1>12. CASE StartEtcd
  <2>1. Runs(6, 2)
    BY <1>12, CommandRuns DEF StartEtcd
  <2>2. /\ UNCHANGED <<disk, store, served, booted>> /\ live'[at].etcd
        /\ \A n \in Nodes : n # at => live'[n] = live[n]
    BY <1>12, <1>0 DEF StartEtcd, Set, Settings
  <2>3. Serves(6, 2)
    BY <2>2 DEF Serves, Keeps
  <2>4. store[at] = "none"
    <3>1. at \in call.targets \cap Masters /\ Done(2, 1, at) /\ loop < 7
      BY <2>1, LoopNodes DEF Runs, Done
    <3> QED
      BY <3>1 DEF ServiceInv
  <2> QED
    BY <2>1, <2>2, <2>3, <2>4, ServiceStep DEF StoreInv, EtcdOfCluster
<1>13. CASE KubernetesConf
  <2>1. Runs(7, 1)
    BY <1>13, CommandRuns DEF KubernetesConf
  <2>2. /\ \A n \in Nodes : disk'[n].etcd = disk[n].etcd /\ live'[n].etcd = live[n].etcd
        /\ UNCHANGED <<store, served, booted>>
    BY <1>13, <1>0 DEF KubernetesConf, Set, Settings
  <2> QED
    BY <1>1, <2>1, <2>2
<1>14. CASE LoadSysctl
  <2>1. Runs(7, 2)
    BY <1>14, CommandRuns DEF LoadSysctl
  <2>2. /\ \A n \in Nodes : disk'[n].etcd = disk[n].etcd /\ live'[n].etcd = live[n].etcd
        /\ UNCHANGED <<store, served, booted>>
    <3>1. /\ live' = live \/ live' = [live EXCEPT ![at]["forward"] = TRUE]
          /\ UNCHANGED <<disk, store, served, booted>>
      BY <1>14 DEF LoadSysctl, Set
    <3>2. \A n \in Nodes : [live EXCEPT ![at]["forward"] = TRUE][n].etcd = live[n].etcd
      BY <1>0 DEF Settings
    <3> QED
      BY <3>1, <3>2
  <2> QED
    BY <1>1, <2>1, <2>2
<1>15. CASE Kubeadm
  <2>1. Runs(7, 3)
    BY <1>15, CommandRuns DEF Kubeadm
  <2>2. /\ UNCHANGED <<disk, served>> /\ \A n \in Nodes : live'[n].etcd = live[n].etcd
        /\ booted' = booted \ {at}
        /\ store' = [store EXCEPT ![at] = IF at \notin Masters THEN "none"
                                         ELSE IF Multi(call) THEN "service" ELSE "pod"]
    BY <1>15, <1>0 DEF Kubeadm, Set, Settings
  <2>3. Serves(7, 3) /\ ServiceInv'
    <3>1. Serves(7, 3)
      BY <2>2 DEF Serves, Keeps
    <3> QED
      BY <2>1, <3>1, ServiceStep
  <2>4. at \in call.targets /\ at \in conn /\ Done(5, 1, at) /\ Done(6, 1, at) /\ Done(6, 2, at)
    BY <2>1, LoopNodes DEF Runs, Done
  <2>5. /\ store'[at] = "service" => disk[at].etcd /\ live[at].etcd
        /\ store'[at] = "pod" => ~live[at].etcd
        /\ \A n \in Nodes : n # at => store'[n] = store[n]
    BY <2>2, <2>4, <1>0 DEF ServiceInv
  <2> QED
    BY <2>2, <2>3, <2>5 DEF StoreInv, EtcdOfCluster
<1>16. CASE Start
  <2>1. loop' = 1 /\ UNCHANGED <<disk, live, store, served, booted>>
    BY <1>16 DEF Start, Begin, node
  <2>2. ServiceInv'
    BY <2>1 DEF ServiceInv, Done
  <2> QED
    BY <2>1, <2>2 DEF StoreInv, EtcdOfCluster
<1>17. CASE Interrupt
  <2>1. loop' = 0 /\ UNCHANGED <<disk, live, store, served, booted>>
    BY <1>17 DEF Interrupt, Over, node
  <2>2. ServiceInv'
    BY <2>1 DEF ServiceInv, Done
  <2> QED
    BY <2>1, <2>2 DEF StoreInv, EtcdOfCluster
<1>18. ASSUME NEW n \in Nodes, Reboot(n) PROVE EtcdInv'
  <2>1. /\ live' = [live EXCEPT ![n] = disk[n]] /\ conn' = conn \ {n} /\ booted' = booted \cup {n}
        /\ UNCHANGED <<disk, store, served, call, loop, cmd, at, todo>>
    BY <1>18 DEF Reboot, pcs
  <2>2. live'[n] = disk[n] /\ \A k \in Nodes : k # n => live'[k] = live[k]
    BY <2>1, <1>0
  <2>3. StoreInv'
    BY <2>1 DEF StoreInv
  <2>4. EtcdOfCluster'
    BY <2>1, <2>2 DEF StoreInv, EtcdOfCluster
  <2>5. ServiceInv'
    BY <2>1, <2>2, <1>0 DEF ServiceInv, Done, Multi
  <2> QED
    BY <2>3, <2>4, <2>5
<1>19. CASE UNCHANGED vars
  BY <1>19 DEF vars, node, pcs, ServiceInv, StoreInv, EtcdOfCluster, Done, Multi
<1> QED
  BY <1>2, <1>3, <1>4, <1>5, <1>6, <1>7, <1>8, <1>9, <1>10, <1>11, <1>12, <1>13, <1>14, <1>15,
     <1>16, <1>17, <1>18, <1>19
     DEF Next, Program, Prepare, Etcd, Join

\* The service that the API servers of a deployment with several masters use
\* runs, also after a reboot, and none runs beside the etcd pod of a single
\* master that has not rebooted since it joined.
THEOREM OwnEtcd == Spec => []EtcdOfCluster
<1>1. Init => EtcdInv
  BY NodePrepAssumption DEF Init, EtcdInv, ServiceInv, StoreInv, EtcdOfCluster, Done
<1>2. EtcdInv => EtcdOfCluster
  BY DEF EtcdInv
<1> QED
  BY <1>1, <1>2, EtcdStep, TypeAlways, PTL DEF Spec

(* -------------------------------- names -------------------------------- *)

LEMMA NameStep == TypeOK /\ PcInv /\ NameInv /\ [Next]_vars => NameInv'
<1> SUFFICES ASSUME TypeOK, PcInv, NameInv, [Next]_vars PROVE NameInv'
  OBVIOUS
<1> USE DEF LoopNo
<1>0. at \in Nodes /\ hosts \in [Nodes -> SUBSET Nodes] /\ call \in Calls
      /\ cluster \in [Nodes -> 0 .. MaxRuns] /\ call.config \in SUBSET Nodes
  BY CallNodes DEF TypeOK
<1>1. \A c \in Calls : c.config \in SUBSET Nodes
  BY NodePrepAssumption
\* Names are only added, so that those of the members stay.
<1>2. ASSUME \A n \in Nodes : hosts[n] \subseteq hosts'[n],
             \A n \in Nodes : cluster'[n] # 0 => cluster[n] # 0
      PROVE  \A n \in Nodes : cluster'[n] # 0 =>
               \E c \in Calls : n \in c.config /\ AllNamed(c.config)'
  BY <1>1, <1>2 DEF NameInv, AllNamed
<1>3. ASSUME NEW l \in LoopNo, NEW c, Runs(l, c), \A n \in Nodes : hosts[n] \subseteq hosts'[n],
             <<l, c>> = <<1, 1>> => call.config \subseteq hosts'[at]
      PROVE  \A k \in call'.config : Done(1, 1, k)' => call'.config \subseteq hosts'[k]
  <2>1. call' = call
    BY <1>3 DEF Runs
  <2>2. ASSUME NEW k \in call.config, Done(1, 1, k)' PROVE call.config \subseteq hosts'[k]
    <3>1. Done(1, 1, k) \/ (<<l, c>> = <<1, 1>> /\ k = at)
      BY <1>3, <2>2, DoneAfter, LoopNodes, LoopLengths
    <3> QED
      BY <1>0, <1>3, <2>2, <3>1 DEF NameInv
  <2> QED
    BY <2>1, <2>2
<1>4. CASE AddToEtcHosts
  <2>1. Runs(1, 1)
    BY <1>4, CommandRuns DEF AddToEtcHosts
  <2>2. hosts' = [hosts EXCEPT ![at] = @ \cup call.config] /\ UNCHANGED cluster
    BY <1>4 DEF AddToEtcHosts
  <2>3. \A n \in Nodes : hosts[n] \subseteq hosts'[n]
    BY <2>2, <1>0
  <2>4. call.config \subseteq hosts'[at]
    BY <2>2, <1>0
  <2> QED
    BY <1>2, <1>3, <2>1, <2>2, <2>3, <2>4 DEF NameInv
<1>5. CASE Purge
  <2>1. Runs(2, 1)
    BY <1>5, CommandRuns DEF Purge
  <2>2. UNCHANGED hosts /\ \A n \in Nodes : cluster'[n] # 0 => cluster[n] # 0
    BY <1>5, <1>0 DEF Purge
  <2> QED
    BY <1>2, <1>3, <2>1, <2>2 DEF NameInv
<1>6. CASE Watches
  <2>1. Runs(3, 1)
    BY <1>6, CommandRuns DEF Watches
  <2> QED
    BY <1>2, <1>3, <1>6, <2>1 DEF Watches, NameInv
<1>7. CASE SwapOff
  <2>1. Runs(3, 2)
    BY <1>7, CommandRuns DEF SwapOff
  <2> QED
    BY <1>2, <1>3, <1>7, <2>1 DEF SwapOff, NameInv
<1>8. CASE CommentFstab
  <2>1. Runs(3, 3)
    BY <1>8, CommandRuns DEF CommentFstab
  <2> QED
    BY <1>2, <1>3, <1>8, <2>1 DEF CommentFstab, NameInv
<1>9. CASE SetEnforce
  <2>1. Runs(3, 4)
    BY <1>9, CommandRuns DEF SetEnforce
  <2> QED
    BY <1>2, <1>3, <1>9, <2>1 DEF SetEnforce, NameInv
<1>10. CASE SelinuxConfig
  <2>1. Runs(3, 5)
    BY <1>10, CommandRuns DEF SelinuxConfig
  <2> QED
    BY <1>2, <1>3, <1>10, <2>1 DEF SelinuxConfig, NameInv
<1>11. CASE InstallKubePackages
  <2>1. Runs(4, 1)
    BY <1>11, CommandRuns DEF InstallKubePackages
  <2> QED
    BY <1>2, <1>3, <1>11, <2>1 DEF InstallKubePackages, NameInv
<1>12. CASE StopEtcd
  <2>1. Runs(5, 1)
    BY <1>12, CommandRuns DEF StopEtcd
  <2> QED
    BY <1>2, <1>3, <1>12, <2>1 DEF StopEtcd, NameInv
<1>13. CASE EnableEtcd
  <2>1. Runs(6, 1)
    BY <1>13, CommandRuns DEF EnableEtcd
  <2> QED
    BY <1>2, <1>3, <1>13, <2>1 DEF EnableEtcd, NameInv
<1>14. CASE StartEtcd
  <2>1. Runs(6, 2)
    BY <1>14, CommandRuns DEF StartEtcd
  <2> QED
    BY <1>2, <1>3, <1>14, <2>1 DEF StartEtcd, NameInv
<1>15. CASE KubernetesConf
  <2>1. Runs(7, 1)
    BY <1>15, CommandRuns DEF KubernetesConf
  <2> QED
    BY <1>2, <1>3, <1>15, <2>1 DEF KubernetesConf, NameInv
<1>16. CASE LoadSysctl
  <2>1. Runs(7, 2)
    BY <1>16, CommandRuns DEF LoadSysctl
  <2> QED
    BY <1>2, <1>3, <1>16, <2>1 DEF LoadSysctl, NameInv
<1>17. CASE Kubeadm
  <2>1. Runs(7, 3)
    BY <1>17, CommandRuns DEF Kubeadm
  <2>2. UNCHANGED <<hosts, call>> /\ \A n \in Nodes : n # at => cluster'[n] = cluster[n]
    BY <1>17, <1>0 DEF Kubeadm, Command
  <2>3. at \in call.config /\ AllNamed(call.config)
    <3>1. \A k \in call.config : Done(1, 1, k)
      BY <2>1 DEF Runs, Done
    <3>2. at \in call.config
      BY <2>1, <1>0, CallNodes, LoopNodes DEF Runs
    <3> QED
      BY <3>1, <3>2 DEF NameInv, AllNamed
  <2>4. ASSUME NEW n \in Nodes, cluster'[n] # 0
        PROVE  \E c \in Calls : n \in c.config /\ AllNamed(c.config)'
    BY <1>0, <2>2, <2>3, <2>4 DEF NameInv, AllNamed
  <2> QED
    BY <1>3, <2>1, <2>2, <2>4 DEF NameInv
<1>18. CASE Start
  <2>1. UNCHANGED <<hosts, cluster>> /\ loop' = 1 /\ cmd' = 1 /\ todo' = call'.config \ {at'}
    <3>1. Begin(1, NodesOf(call', Loops[1])) /\ UNCHANGED <<hosts, cluster>> /\ call' \in Calls
      BY <1>18 DEF Start, node
    <3>2. NodesOf(call', Loops[1]) = call'.config /\ call'.config # {}
      BY <3>1, NodePrepAssumption DEF NodesOf, Loops
    <3> QED
      BY <3>1, <3>2, BeginStep
  <2>2. \A k \in call'.config : ~Done(1, 1, k)'
    BY <2>1 DEF Done
  <2> QED
    BY <1>2, <2>1, <2>2 DEF NameInv
<1>19. CASE Interrupt
  <2>1. UNCHANGED <<hosts, cluster>> /\ loop' = 0
    BY <1>19 DEF Interrupt, Over, node
  <2>2. \A k \in call'.config : ~Done(1, 1, k)'
    BY <2>1 DEF Done
  <2> QED
    BY <1>2, <2>1, <2>2 DEF NameInv
<1>20. ASSUME NEW n \in Nodes, Reboot(n) PROVE NameInv'
  BY <1>20 DEF Reboot, pcs, NameInv, AllNamed, Done
<1>21. CASE UNCHANGED vars
  BY <1>21 DEF vars, node, pcs, NameInv, AllNamed, Done
<1> QED
  BY <1>4, <1>5, <1>6, <1>7, <1>8, <1>9, <1>10, <1>11, <1>12, <1>13, <1>14, <1>15, <1>16,
     <1>17, <1>18, <1>19, <1>20, <1>21
     DEF Next, Program, Prepare, Etcd, Join

\* Members of one cluster know each other by name, those that were there
\* before a node was added, too.  Nested: a worker that was exchanged for
\* another in the configuration is a member whose names nobody updates.
THEOREM Known == ASSUME Nested PROVE Spec => []NamesKnown
<1>1. Init => NameInv
  BY NodePrepAssumption DEF Init, NameInv, Done
<1>2. NameInv => NamesKnown
  <2> SUFFICES ASSUME NameInv, NEW n \in Nodes, NEW m \in Nodes,
                      cluster[n] = cluster[m], cluster[n] # 0
               PROVE  m \in hosts[n]
    BY DEF NamesKnown
  <2>1. PICK c \in Calls : n \in c.config /\ AllNamed(c.config)
    BY DEF NameInv
  <2>2. PICK d \in Calls : m \in d.config /\ AllNamed(d.config)
    BY DEF NameInv
  <2>3. c.config \subseteq d.config \/ d.config \subseteq c.config
    BY Nested DEF Nested
  <2> QED
    BY <2>1, <2>2, <2>3 DEF AllNamed
<1> QED
  BY <1>1, <1>2, NameStep, TypeAlways, PTL DEF Spec

=============================================================================
