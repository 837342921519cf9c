---------------------------- MODULE Sudoers_proofs ----------------------------
(***************************************************************************)
(* Theorems about Sudoers for any nodes, any order of the nodes, any       *)
(* passwords and any number of runs, failures and signals.                 *)
(***************************************************************************)
EXTENDS Sudoers, TLAPS

(* -------------------------- type correctness --------------------------- *)

LEMMA KeyMachine == ASSUME NEW k \in Key PROVE Machine(k) \in Node
BY SudoersAssumption DEF Key, Machine

LEMMA TypeInit == Init => TypeOK
BY SudoersAssumption DEF Init, TypeOK, Key, Over

LEMMA TypeNext == TypeOK /\ [Next]_vars => TypeOK'
<1> SUFFICES ASSUME TypeOK, [Next]_vars PROVE TypeOK'
  OBVIOUS
<1> USE DEF TypeOK, Over, Exiting
<1>0. Local \in Key /\ KubeNodes \subseteq Key /\ KubeNodes \subseteq Node
  BY SudoersAssumption DEF Key
<1>1. CASE Start
  <2>1. wrong' \subseteq Node
    BY <1>1, SudoersAssumption DEF Start
  <2> QED
    BY <1>0, <1>1, <2>1, SudoersAssumption DEF Start
<1>2. ASSUME NEW k \in Key, AddToSudoers(k) PROVE TypeOK'
  BY <1>2, KeyMachine DEF AddToSudoers, CallExit, Known
<1>3. CASE Prepared
  BY <1>0, <1>3 DEF Prepared
<1>4. ASSUME NEW n \in KubeNodes, ForbidStart(n) PROVE TypeOK'
  BY <1>0, <1>4 DEF ForbidStart
<1>5. CASE AllowStart
  BY <1>5 DEF AllowStart
<1>6. CASE Finish \/ Fail
  BY <1>6 DEF Finish, Fail, CallExit, Known
<1>7. ASSUME NEW k \in Key, ExitNode(k) PROVE TypeOK'
  BY <1>7 DEF ExitNode
<1>8. CASE RemoveFromSudoers
  BY <1>8, KeyMachine DEF RemoveFromSudoers, CallExit, Known
<1>9. CASE RemovePolicy
  <2>1. CanSudo(Machine(at)) \in BOOLEAN
    BY KeyMachine DEF CanSudo
  <2> QED
    BY <1>9, <2>1, KeyMachine DEF RemovePolicy
<1>10. CASE RemoveTmp \/ EndProcess
  BY <1>10 DEF RemoveTmp, EndProcess
<1>11. CASE Glitch
  BY <1>11, SudoersAssumption DEF Glitch, CallExit, Known
<1>12. CASE Signal
  <2>1. {Machine(k) : k \in {j \in Key : prev[j] = "absent"}} \subseteq Node
    BY KeyMachine
  <2> QED
    BY <1>12, <2>1 DEF Signal
<1>13. CASE UNCHANGED vars
  BY <1>13 DEF vars
<1> QED
  BY <1>1, <1>2, <1>3, <1>4, <1>5, <1>6, <1>7, <1>8, <1>9, <1>10, <1>11, <1>12, <1>13
     DEF Next, Cleanup

\* Every state is well-typed.
THEOREM TypeCorrect == Spec => []TypeOK
BY TypeInit, TypeNext, PTL DEF Spec

(* ------------------------ the lines of /etc/sudoers -------------------- *)

\* The map says "absent" only where the administrator has no line, and Exit
\* removes a line only where the map says so.
MapInv ==
  /\ \A k \in Key : prev[k] = "absent" => ~orig[Machine(k)]
  /\ pc = "remove" => prev[at] = "absent"
  /\ pc \in {"iso", "add"} => \A k \in todo : prev[k] = "unknown"
  /\ pc = "iso" => todo \subseteq {Local} /\ \A k \in KubeNodes : prev[k] = "unknown"

\* While the nodes are prepared those that are done let the run use sudo.
PreparedInv == pc = "add" => \A n \in KubeNodes \ todo : CanSudo(n)

\* A line that a run has added and Exit has yet to remove.
Dirty(n) == entry[n] /\ ~orig[n] /\ n \notin leaked

\* The map knows of every such line, and Exit has the key before it.
DirtyInv ==
  /\ pc \in Over => \A n \in Node : ~Dirty(n)
  /\ pc \notin Over =>
       \A n \in Node : Dirty(n) => \E k \in Key : Machine(k) = n /\ prev[k] = "absent"
  /\ pc \in Exiting =>
       \A n \in Node : Dirty(n) => \E k \in todo : Machine(k) = n /\ prev[k] = "absent"
  /\ pc \in {"policy", "tmp"} /\ prev[at] = "absent" => ~Dirty(Machine(at))

SudoersInv == TypeOK /\ AdminLineKept /\ MapInv /\ DirtyInv

\* The run goes on without changing a line or what the map says of it.
LEMMA WorkFrame ==
  ASSUME SudoersInv, UNCHANGED <<entry, prev, orig, leaked>>,
         pc \notin Exiting \cup Over,
         pc' \in {"add", "work", "install"},
         pc' = "add" => \A k \in todo' : prev[k] = "unknown"
  PROVE  AdminLineKept' /\ MapInv' /\ DirtyInv'
BY DEF SudoersInv, AdminLineKept, MapInv, DirtyInv, Dirty, Exiting, Over

\* Exit is called, from the run or from Exit, and goes over all keys.
LEMMA ExitCalled ==
  ASSUME SudoersInv, UNCHANGED <<entry, prev, orig, leaked>>, pc \notin Over,
         CallExit(Known)
  PROVE  AdminLineKept' /\ MapInv' /\ DirtyInv'
<1>1. pc' = "exit" /\ todo' = Known
  BY DEF CallExit
<1>2. \A k \in Key : prev[k] = "absent" => k \in Known
  BY DEF Known
<1> QED
  BY <1>1, <1>2 DEF SudoersInv, AdminLineKept, MapInv, DirtyInv, Dirty, Exiting, Over

LEMMA Added ==
  ASSUME SudoersInv, NEW k \in Key, AddToSudoers(k)
  PROVE  AdminLineKept' /\ MapInv' /\ DirtyInv'
<1>0. KubeNodes \subseteq Key /\ Local \notin KubeNodes
  BY SudoersAssumption DEF Key
<1>1. /\ pc \in {"iso", "add"} /\ k \in todo /\ prev[k] = "unknown"
      /\ Machine(k) \in Node /\ UNCHANGED <<orig, leaked>>
  BY KeyMachine DEF AddToSudoers, SudoersInv, MapInv
<1>2. CASE entry[Machine(k)]
  <2>1. /\ prev' = [prev EXCEPT ![k] = "present"] /\ UNCHANGED <<entry, pc>>
        /\ todo' = todo \ {k}
    BY <1>2 DEF AddToSudoers
  <2>2. \A j \in Key : prev[j] = "absent" <=> prev'[j] = "absent"
    BY <1>1, <2>1 DEF SudoersInv, TypeOK
  <2>3. MapInv'
    BY <1>0, <1>1, <2>1, <2>2 DEF SudoersInv, MapInv, TypeOK
  <2> QED
    BY <1>1, <2>1, <2>2, <2>3 DEF SudoersInv, AdminLineKept, DirtyInv, Dirty, Exiting, Over
<1>3. CASE ~entry[Machine(k)]
  <2>1. prev' = [prev EXCEPT ![k] = "absent"] /\ ~orig[Machine(k)]
    BY <1>1, <1>3 DEF AddToSudoers, SudoersInv, AdminLineKept
  <2>2. \A j \in Key : prev'[j] = "absent" <=> j = k \/ prev[j] = "absent"
    BY <2>1 DEF SudoersInv, TypeOK
  <2>3. \A j \in Key : prev'[j] = "absent" => ~orig[Machine(j)]
    BY <2>1, <2>2 DEF SudoersInv, MapInv
  <2>4. CASE UNCHANGED entry /\ CallExit(Known \cup {k})
    <3>1. pc' = "exit" /\ todo' = Known \cup {k} /\ entry' = entry
      BY <2>4 DEF CallExit
    <3>2. \A j \in Key : prev'[j] = "absent" => j \in todo'
      BY <2>2, <3>1 DEF Known
    <3> QED
      BY <1>1, <2>2, <2>3, <3>1, <3>2
         DEF SudoersInv, AdminLineKept, MapInv, DirtyInv, Dirty, Exiting, Over
  <2>5. CASE /\ entry' = [entry EXCEPT ![Machine(k)] = TRUE]
             /\ UNCHANGED pc /\ todo' = todo \ {k}
    <3>1. \A n \in Node : entry'[n] <=> entry[n] \/ n = Machine(k)
      BY <1>1, <2>5 DEF SudoersInv, TypeOK
    <3>2. AdminLineKept'
      BY <1>1, <3>1 DEF SudoersInv, AdminLineKept
    <3>3. MapInv'
      BY <1>0, <1>1, <2>1, <2>3, <2>5 DEF SudoersInv, MapInv, TypeOK
    <3>4. \A n \in Node : Dirty(n)' => \E j \in Key : Machine(j) = n /\ prev'[j] = "absent"
      BY <1>1, <2>2, <3>1 DEF SudoersInv, DirtyInv, Dirty, Over
    <3>5. DirtyInv'
      BY <1>1, <2>5, <3>4 DEF DirtyInv, Exiting, Over
    <3> QED
      BY <3>2, <3>3, <3>5
  <2> QED
    BY <1>3, <2>4, <2>5 DEF AddToSudoers
<1> QED
  BY <1>2, <1>3

LEMMA Removed ==
  ASSUME SudoersInv, RemoveFromSudoers PROVE AdminLineKept' /\ MapInv' /\ DirtyInv'
<1>1. /\ pc = "remove" /\ prev[at] = "absent" /\ at \in Key /\ Machine(at) \in Node
      /\ ~orig[Machine(at)] /\ UNCHANGED <<prev, at, orig, leaked>>
  BY KeyMachine DEF RemoveFromSudoers, SudoersInv, MapInv, TypeOK
<1>2. CASE CanSudo(Machine(at))
  <2>1. /\ entry' = [entry EXCEPT ![Machine(at)] = FALSE]
        /\ pc' = "policy" /\ UNCHANGED todo
    BY <1>2 DEF RemoveFromSudoers
  <2>2. \A n \in Node : entry'[n] <=> entry[n] /\ n # Machine(at)
    BY <1>1, <2>1 DEF SudoersInv, TypeOK
  <2>3. \A n \in Node : Dirty(n)' <=> Dirty(n) /\ n # Machine(at)
    BY <1>1, <2>2 DEF Dirty
  <2>4. AdminLineKept'
    BY <1>1, <2>2 DEF SudoersInv, AdminLineKept
  <2>5. MapInv'
    BY <1>1, <2>1 DEF SudoersInv, MapInv
  <2>6. DirtyInv'
    BY <1>1, <2>1, <2>3 DEF SudoersInv, DirtyInv, Exiting, Over
  <2> QED
    BY <2>4, <2>5, <2>6
<1>3. CASE ~CanSudo(Machine(at))
  BY <1>1, <1>3, ExitCalled DEF RemoveFromSudoers, Over
<1> QED
  BY <1>2, <1>3

LEMMA Killed ==
  ASSUME SudoersInv, Signal PROVE AdminLineKept' /\ MapInv' /\ DirtyInv'
<1>1. /\ pc \notin Over /\ pc' = "killed" /\ UNCHANGED <<entry, prev, at, orig>>
      /\ leaked' = leaked \cup {Machine(k) : k \in {j \in Key : prev[j] = "absent"}}
  BY DEF Signal
<1>2. \A n \in Node : ~Dirty(n)'
  BY <1>1 DEF SudoersInv, DirtyInv, Dirty
<1> QED
  BY <1>1, <1>2 DEF SudoersInv, AdminLineKept, MapInv, DirtyInv, Exiting, Over

LEMMA SudoersStep == SudoersInv /\ [Next]_vars => SudoersInv'
<1> SUFFICES ASSUME SudoersInv, [Next]_vars
             PROVE  AdminLineKept' /\ MapInv' /\ DirtyInv'
  BY TypeNext DEF SudoersInv
<1>0. KubeNodes \subseteq Key
  BY DEF Key
<1>1. CASE Start
  <2>1. /\ pc \in Over /\ pc' \in {"iso", "add"} /\ todo' \subseteq Key
        /\ pc' = "iso" => todo' = {Local}
        /\ \A k \in Key : prev'[k] = "unknown"
        /\ UNCHANGED <<entry, orig, leaked>>
    BY <1>0, <1>1 DEF Start, Key
  <2>2. \A n \in Node : ~Dirty(n)'
    BY <2>1 DEF SudoersInv, DirtyInv, Dirty
  <2> QED
    BY <1>0, <2>1, <2>2 DEF SudoersInv, AdminLineKept, MapInv, DirtyInv, Exiting, Over
<1>2. ASSUME NEW k \in Key, AddToSudoers(k) PROVE AdminLineKept' /\ MapInv' /\ DirtyInv'
  BY <1>2, Added
<1>3. CASE Prepared
  BY <1>3, WorkFrame DEF Prepared, SudoersInv, MapInv, Exiting, Over
<1>4. ASSUME NEW n \in KubeNodes, ForbidStart(n)
      PROVE  AdminLineKept' /\ MapInv' /\ DirtyInv'
  BY <1>4, WorkFrame DEF ForbidStart, Exiting, Over
<1>5. CASE AllowStart
  BY <1>5, WorkFrame DEF AllowStart, Exiting, Over
<1>6. CASE Finish \/ Fail \/ Glitch
  BY <1>6, ExitCalled DEF Finish, Fail, Glitch, Over
<1>7. ASSUME NEW k \in Key, ExitNode(k) PROVE AdminLineKept' /\ MapInv' /\ DirtyInv'
  BY <1>7 DEF ExitNode, SudoersInv, AdminLineKept, MapInv, DirtyInv, Dirty, Exiting, Over
<1>8. CASE RemoveFromSudoers
  BY <1>8, Removed
<1>9. CASE RemovePolicy \/ RemoveTmp \/ EndProcess
  BY <1>9 DEF RemovePolicy, RemoveTmp, EndProcess, SudoersInv, AdminLineKept, MapInv,
     DirtyInv, Dirty, Exiting, Over
<1>10. CASE Signal
  BY <1>10, Killed
<1>11. CASE UNCHANGED vars
  BY <1>11 DEF vars, SudoersInv, AdminLineKept, MapInv, DirtyInv, Dirty
<1> QED
  BY <1>1, <1>2, <1>3, <1>4, <1>5, <1>6, <1>7, <1>8, <1>9, <1>10, <1>11 DEF Next, Cleanup

LEMMA SudoersAlways == Spec => []SudoersInv
<1>1. Init => SudoersInv
  BY TypeInit DEF Init, SudoersInv, AdminLineKept, MapInv, DirtyInv, Dirty, Exiting, Over
<1> QED
  BY <1>1, SudoersStep, PTL DEF Spec

\* No sequence of runs, failures and signals removes a line the administrator
\* had put into /etc/sudoers.
THEOREM LineKept == Spec => []AdminLineKept
<1>1. SudoersInv => AdminLineKept
  BY DEF SudoersInv
<1> QED
  BY <1>1, SudoersAlways, PTL

\* When Exit ends the process, the lines the runs have added are gone, except
\* on nodes where a run was killed.
THEOREM LinesRemoved == Spec => []LineRemoved
<1>1. SudoersInv => LineRemoved
  BY DEF SudoersInv, TypeOK, DirtyInv, Dirty, Over, AdminLineKept, LineRemoved
<1> QED
  BY <1>1, SudoersAlways, PTL

(* ------------------------ sudo while the run works --------------------- *)

SudoInv == SudoWorks /\ PreparedInv

LEMMA SudoStep == TypeOK /\ SudoInv /\ [Next]_vars => SudoInv'
<1> SUFFICES ASSUME TypeOK, SudoInv, [Next]_vars PROVE SudoInv'
  OBVIOUS
<1> USE DEF SudoInv, SudoWorks, PreparedInv
<1>1. CASE Start
  BY <1>1 DEF Start
<1>2. ASSUME NEW k \in Key, AddToSudoers(k) PROVE SudoInv'
  <2>1. /\ pc \in {"iso", "add"} /\ pc' \in {pc, "exit"} /\ Machine(k) \in Node
    BY <1>2, KeyMachine DEF AddToSudoers, CallExit
  <2>2. ASSUME pc' = "add" PROVE \A n \in KubeNodes \ todo' : CanSudo(n)'
    <3>1. /\ pc = "add" /\ todo' = todo \ {k}
          /\ entry'[Machine(k)] /\ \A n \in Node : entry[n] => entry'[n]
      BY <1>2, <2>1, <2>2 DEF AddToSudoers, CallExit, TypeOK
    <3>2. k \in KubeNodes => Machine(k) = k
      BY SudoersAssumption DEF Machine
    <3> QED
      BY <3>1, <3>2, SudoersAssumption DEF CanSudo
  <2> QED
    BY <2>1, <2>2
<1>3. CASE Prepared
  BY <1>3 DEF Prepared, CanSudo
<1>4. ASSUME NEW n \in KubeNodes, ForbidStart(n) PROVE SudoInv'
  BY <1>4 DEF ForbidStart, CanSudo
<1>5. CASE AllowStart
  BY <1>5 DEF AllowStart, CanSudo
<1>6. CASE \/ Finish \/ Fail \/ Glitch \/ RemoveFromSudoers \/ RemovePolicy \/ RemoveTmp
           \/ EndProcess \/ Signal \/ \E k \in Key : ExitNode(k)
  BY <1>6 DEF Finish, Fail, Glitch, RemoveFromSudoers, RemovePolicy, RemoveTmp, EndProcess,
     Signal, ExitNode, CallExit
<1>7. CASE UNCHANGED vars
  BY <1>7 DEF vars, CanSudo
<1> QED
  BY <1>1, <1>2, <1>3, <1>4, <1>5, <1>6, <1>7 DEF Next, Cleanup

\* As long as the run works every node of the configuration lets it use sudo
\* without a password.
THEOREM SudoAlwaysWorks == Spec => []SudoWorks
<1>1. Init => SudoInv
  BY DEF Init, SudoInv, SudoWorks, PreparedInv
<1>2. SudoInv => SudoWorks
  BY DEF SudoInv
<1> QED
  BY <1>1, <1>2, SudoStep, TypeCorrect, PTL DEF Spec

(* -------------------- policy-rc.d when Exit is over -------------------- *)

\* sudo works on the machine whether or not the program has its line there.
Served(k) == orig[Machine(k)] \/ Machine(k) \in NoPass

\* Exit goes on to the next key only when the last one's machine is clean, and
\* nothing it does afterwards makes it unclean.
PolicyInv ==
  /\ pc \in Exiting => \A k \in Known \ todo : Served(k) => ~policy[Machine(k)]
  /\ pc = "tmp" /\ Served(at) => ~policy[Machine(at)]
  /\ PolicyCleared

\* A call of Exit starts over with all keys, and has cleaned none of them yet.
LEMMA ExitStartsOver ==
  ASSUME pc' = "exit", Known' \subseteq todo' PROVE PolicyInv'
BY DEF PolicyInv, PolicyCleared

LEMMA PolicyStep == SudoersInv /\ PolicyInv /\ [Next]_vars => PolicyInv'
<1> SUFFICES ASSUME SudoersInv, PolicyInv, [Next]_vars PROVE PolicyInv'
  OBVIOUS
<1>1. CASE Start
  BY <1>1 DEF Start, PolicyInv, PolicyCleared, Exiting
<1>2. ASSUME NEW k \in Key, AddToSudoers(k) PROVE PolicyInv'
  <2>1. CASE CallExit(Known \cup {k})
    <3>1. Known' \subseteq Known \cup {k}
      BY <1>2 DEF AddToSudoers, Known, SudoersInv, TypeOK
    <3> QED
      BY <2>1, <3>1, ExitStartsOver DEF CallExit
  <2>2. CASE ~CallExit(Known \cup {k})
    BY <1>2, <2>2 DEF AddToSudoers, PolicyInv, PolicyCleared, Exiting
  <2> QED
    BY <2>1, <2>2
<1>3. CASE Prepared \/ AllowStart \/ Signal \/ \E n \in KubeNodes : ForbidStart(n)
  BY <1>3 DEF Prepared, AllowStart, Signal, ForbidStart, PolicyInv, PolicyCleared, Exiting
<1>4. CASE Finish \/ Fail \/ Glitch
  BY <1>4, ExitStartsOver DEF Finish, Fail, Glitch, CallExit, Known
<1>5. ASSUME NEW k \in Key, ExitNode(k) PROVE PolicyInv'
  BY <1>5 DEF ExitNode, PolicyInv, PolicyCleared, Known, Served, Exiting
<1>6. CASE RemoveFromSudoers
  <2>1. CASE CanSudo(Machine(at))
    BY <1>6, <2>1 DEF RemoveFromSudoers, PolicyInv, PolicyCleared, Known, Served, Exiting
  <2>2. CASE ~CanSudo(Machine(at))
    BY <1>6, <2>2, ExitStartsOver DEF RemoveFromSudoers, CallExit, Known
  <2> QED
    BY <2>1, <2>2
<1>7. CASE RemovePolicy
  <2>1. /\ pc = "policy" /\ pc' = "tmp" /\ UNCHANGED <<entry, prev, todo, at, orig>>
        /\ policy' = [policy EXCEPT ![Machine(at)] = @ /\ ~CanSudo(Machine(at))]
    BY <1>7 DEF RemovePolicy
  <2>2. \A n \in Node : policy'[n] => policy[n]
    BY <2>1 DEF SudoersInv, TypeOK
  <2>3. Machine(at) \in Node /\ \A k \in Key : Machine(k) \in Node
    BY KeyMachine DEF SudoersInv, TypeOK
  <2>4. Served(at) => CanSudo(Machine(at))
    BY <2>3 DEF Served, CanSudo, SudoersInv, AdminLineKept
  <2>5. Served(at) => ~policy'[Machine(at)]
    BY <2>1, <2>3, <2>4 DEF SudoersInv, TypeOK
  <2> QED
    BY <2>1, <2>2, <2>3, <2>5 DEF PolicyInv, PolicyCleared, Known, Served, Exiting
<1>8. CASE RemoveTmp
  BY <1>8 DEF RemoveTmp, PolicyInv, PolicyCleared, Known, Served, Exiting
<1>9. CASE EndProcess
  BY <1>9 DEF EndProcess, PolicyInv, PolicyCleared, Known, Served, Exiting
<1>10. CASE UNCHANGED vars
  BY <1>10 DEF vars, PolicyInv, PolicyCleared, Known, Served
<1> QED
  BY <1>1, <1>2, <1>3, <1>4, <1>5, <1>6, <1>7, <1>8, <1>9, <1>10 DEF Next, Cleanup

\* When Exit ends the process no machine it went over is left unable to start
\* services, where sudo does not depend on the program's own line.
THEOREM PolicyAlwaysCleared == Spec => []PolicyCleared
<1>1. Init => PolicyInv
  BY DEF Init, PolicyInv, PolicyCleared, Exiting, Known
<1>2. PolicyInv => PolicyCleared
  BY DEF PolicyInv
<1> QED
  BY <1>1, <1>2, PolicyStep, SudoersAlways, PTL DEF Spec
=============================================================================
