---------------------------- MODULE Cluster_proofs ----------------------------
(***************************************************************************)
(* What holds of Cluster for every configuration, in this order:           *)
(*   - the types, the nodes a run can always reset, and etcd on the data   *)
(*     of one incarnation;                                                 *)
(*   - the refinement of Membership, and with it a single cluster that     *)
(*     lives on etcd data of its own;                                      *)
(*   - what a run leaves alone: the other nodes and their clusters;        *)
(*   - what a run that ends well has made of its nodes;                    *)
(*   - install, which no state of the nodes can make fail;                 *)
(*   - recover node, which an intact cluster never makes fail.             *)
(* Each part states the invariants it needs, shows that every step keeps   *)
(* them and ends in its theorems.                                          *)
(***************************************************************************)
EXTENDS Cluster, TLAPS, FiniteSetTheorems


(* ------------------------------ the order ------------------------------ *)

\* A loop over a set of nodes that is not empty has a first node.
LEMMA FirstIn ==
  ASSUME NEW S \in SUBSET Node, S # {}
  PROVE  First(S) \in S /\ IsFirst(First(S), S)
BY OrderAssumption DEF First, IsFirst

\* ... and only one.
LEMMA FirstUnique ==
  ASSUME NEW S \in SUBSET Node, NEW m, NEW n, IsFirst(m, S), IsFirst(n, S)
  PROVE  m = n
<1>1. m \in Node /\ n \in Node /\ Position[m] <= Position[n] /\ Position[n] <= Position[m]
  BY DEF IsFirst
<1>2. Position[m] \in Nat /\ Position[n] \in Nat
  BY <1>1, OrderAssumption
<1>3. Position[m] = Position[n]
  BY <1>1, <1>2
<1> QED
  BY <1>1, <1>3, OrderAssumption

\* The stage after a stage is a stage.
LEMMA SuccStage == ASSUME NEW s \in DOMAIN Succ PROVE Succ[s] \in Stage
BY DEF Succ, Stage, Idle

(* -------------------------- type correctness --------------------------- *)

\* A recovery has one master to recover, and some other node exists.
RecoverOne == cmd = "recover" => RecoverTargets # {} /\ targets # {}

TypeInv == TypeOK /\ RecoverOne

LEMMA FirstMasterIn == ASSUME TypeOK PROVE FirstMaster \in Node
<1>1. TargetMasters \in SUBSET Node /\ Masters \in SUBSET Node /\ Masters # {}
  BY NodeAssumption DEF TypeOK, TargetMasters
<1>2. CASE Founding
  BY <1>1, <1>2, FirstIn DEF FirstMaster, Founding
<1>3. CASE ~Founding
  BY <1>1, <1>3, FirstIn DEF FirstMaster
<1> QED
  BY <1>2, <1>3

LEMMA MainMasterIn == ASSUME TypeInv, Recovery PROVE MainMaster \in Node
<1>1. PICK n \in Node, k \in Node : n # k
  BY NodeAssumption DEF TypeInv, RecoverOne, Recovery
<1>2. First(Node) \in Node
  BY <1>1, FirstIn
<1>3. Node \ {First(Node)} # {} /\ Node \ {First(Node)} \in SUBSET Node
  BY <1>1
<1>4. First(Node \ {First(Node)}) \in Node
  BY <1>3, FirstIn
<1> QED
  BY <1>2, <1>4 DEF MainMaster

\* The loops of the pipeline visit nodes of the configuration.
LEMMA WorkInNode == ASSUME TypeInv, NEW s PROVE Work(s) \in SUBSET Node
<1>1. /\ need \in SUBSET Node /\ TargetMasters \in SUBSET Node
      /\ TargetWorkers \in SUBSET Node /\ remote \in Node /\ targets \in SUBSET Node
  BY NodeAssumption DEF TypeInv, TypeOK, TargetMasters, TargetWorkers
<1>2. FirstMaster \in Node
  BY FirstMasterIn DEF TypeInv
<1>3. Recovery => MainMaster \in Node
  BY MainMasterIn
<1>4. TargetMasters # {} => First(targets) \in Node
  BY <1>1, FirstIn DEF TargetMasters
<1> QED
  BY <1>1, <1>2, <1>3, <1>4 DEF Work

LEMMA TypeInit == Init => TypeInv
BY BoundAssumption, NodeAssumption
   DEF Init, TypeInv, TypeOK, RecoverOne, Ids, Stage, Idle

LEMMA TypeStart ==
  ASSUME TypeInv, NEW k \in {"install", "add", "recover"}, NEW T \in SUBSET Node,
         NEW r \in Remotes, Start(k, T, r),
         k = "recover" => RecoverTargets # {} /\ T # {}
  PROVE  TypeInv'
<1>2. run' \in Ids /\ run + 1 \in Ids
  BY BoundAssumption DEF TypeInv, TypeOK, Start, Ids
<1>1. rootCa' \in Ids
  <2>1. ASSUME NEW m \in Masters PROVE ca[m] \in Ids
    BY <2>1, NodeAssumption DEF TypeInv, TypeOK
  <2> QED
    BY <1>2, <2>1 DEF Start
<1>3. pkg' \in [Node -> {"none", "other", "wanted"}]
  BY DEF TypeInv, TypeOK, Start
<1>4. RecoverOne'
  BY DEF Start, RecoverOne
<1>5. stage' \in Stage
  BY DEF Start, Stage, Succ
<1> QED
  BY <1>1, <1>2, <1>3, <1>4, <1>5
     DEF TypeInv, TypeOK, Start, clusterVars

LEMMA TypeNode ==
  ASSUME TypeInv, NEW n \in Node, OnNode(n)
  PROVE  TypeInv'
<1> USE DEF TypeInv, TypeOK
<1>0. RecoverOne'
  BY DEF OnNode, RecoverOne, Visit, callVars, ResetNode, RemoveKubePackages,
     InstallKubePackages, DistributeCerts, StopEtcd, WipeEtcd, StartEtcd, CheckEtcd,
     UploadCerts, InitFirstMaster, AdminConf, TransferKubeconfig, SetEnv, WaitPods,
     CreateToken, JoinMaster, SettleMaster, JoinWorker, FinalWait
<1>s. {"reset", "unpack", "stopEtcd", "wipeEtcd", "joinMaster", "settle"} \subseteq Stage
  BY DEF Stage, Succ
<1>z. 0 \in Ids
  BY BoundAssumption DEF Ids
<1>f. FirstMaster \in Node
  BY FirstMasterIn
<1> USE <1>0, <1>s, <1>z DEF Visit, Leave, callVars, nodeVars, clusterVars
<1>1. CASE ResetNode(n)           BY <1>1 DEF ResetNode
<1>2. CASE RemoveKubePackages(n)  BY <1>2 DEF RemoveKubePackages
<1>3. CASE InstallKubePackages(n) BY <1>3 DEF InstallKubePackages
<1>4. CASE DistributeCerts(n)     BY <1>4 DEF DistributeCerts
<1>5. CASE StopEtcd(n)            BY <1>5 DEF StopEtcd
<1>6. CASE WipeEtcd(n)            BY <1>6 DEF WipeEtcd
<1>7. CASE StartEtcd(n)
  <2>1. data' \in [Node -> Ids] /\ etcd' \in [Node -> Ids]
    BY <1>7, NodeAssumption DEF StartEtcd, Bootstrap
  <2> QED BY <1>7, <2>1 DEF StartEtcd
<1>8. CASE CheckEtcd(n)           BY <1>8 DEF CheckEtcd
<1>9. CASE UploadCerts(n)         BY <1>9 DEF UploadCerts
<1>10. CASE InitFirstMaster(n)
  <2>1. store' \in [Ids -> Ids]
    BY <1>10 DEF InitFirstMaster
  <2> QED BY <1>10, <2>1 DEF InitFirstMaster
<1>11. CASE AdminConf(n)          BY <1>11 DEF AdminConf
<1>12. CASE TransferKubeconfig(n) BY <1>12, <1>f DEF TransferKubeconfig
<1>13. CASE SetEnv(n)             BY <1>13 DEF SetEnv
<1>14. CASE WaitPods(n)           BY <1>14 DEF WaitPods
<1>15. CASE CreateToken(n)        BY <1>15 DEF CreateToken
<1>16. CASE JoinMaster(n)         BY <1>16 DEF JoinMaster, Join
<1>17. CASE SettleMaster(n)       BY <1>17 DEF SettleMaster
<1>18. CASE JoinWorker(n)         BY <1>18, <1>f DEF JoinWorker, Join
<1>19. CASE FinalWait(n)          BY <1>19 DEF FinalWait
<1> QED
  BY <1>1, <1>2, <1>3, <1>4, <1>5, <1>6, <1>7, <1>8, <1>9, <1>10, <1>11, <1>12,
     <1>13, <1>14, <1>15, <1>16, <1>17, <1>18, <1>19 DEF OnNode

LEMMA TypeEnd == ASSUME TypeInv, NEW who \in {"command", "outside"}, End(who)
                 PROVE TypeInv'
<1>1. 0 \in Ids /\ "failed" \in Stage
  BY BoundAssumption DEF Ids, Stage, Idle
<1> QED
  BY <1>1 DEF TypeInv, TypeOK, RecoverOne, End, nodeVars, clusterVars, callVars

LEMMA TypeNext == TypeInv /\ [Next]_vars => TypeInv'
<1> SUFFICES ASSUME TypeInv, [Next]_vars PROVE TypeInv'
  OBVIOUS
<1>1. CASE StartInstall
  BY <1>1, NodeAssumption, TypeStart DEF StartInstall
<1>2. CASE StartAdd
  BY <1>2, NodeAssumption, TypeStart DEF StartAdd
<1>3. CASE StartRecover
  BY <1>3, NodeAssumption, TypeStart DEF StartRecover
<1>4. ASSUME NEW n \in Node, OnNode(n) PROVE TypeInv'
  BY <1>4, TypeNode
<1>5. CASE NextStage
  <2>1. stage' \in Stage /\ todo' \in SUBSET Node
    BY <1>5, SuccStage, WorkInNode DEF NextStage
  <2>2. 0 \in Ids
    BY BoundAssumption DEF Ids
  <2> QED
    BY <1>5, <2>1, <2>2
       DEF NextStage, TypeInv, TypeOK, RecoverOne, nodeVars, clusterVars, callVars
<1>6. CASE CommandFails
  BY <1>6, TypeEnd DEF CommandFails
<1>7. CASE Interrupt
  BY <1>7, TypeEnd DEF Interrupt
<1>8. ASSUME NEW n \in Node, Lose(n) PROVE TypeInv'
  <2>1. 0 \in Ids /\ losses' \in 0 .. MaxLosses
    BY <1>8, BoundAssumption DEF Lose, Ids, TypeInv, TypeOK
  <2> QED
    BY <1>8, <2>1 DEF Lose, TypeInv, TypeOK, RecoverOne, clusterVars, callVars
<1>9. CASE UNCHANGED vars
  BY <1>9 DEF vars, nodeVars, clusterVars, callVars, TypeInv, TypeOK, RecoverOne
<1> QED
  BY <1>1, <1>2, <1>3, <1>4, <1>5, <1>6, <1>7, <1>8, <1>9 DEF Next, Program, Operator

\* Every state of every run is well-typed: in particular every loop visits
\* nodes of the configuration, and no command reads a node that does not exist.
THEOREM TypeCorrect == Spec => []TypeOK
<1>1. Spec => []TypeInv
  BY TypeInit, TypeNext, PTL DEF Spec
<1>2. TypeInv => TypeOK
  BY DEF TypeInv
<1> QED
  BY <1>1, <1>2, PTL

(* ------------------------- what a reset leaves ------------------------- *)

\* Between the reset of a node and the removal of its packages nothing of a
\* cluster runs on it.
ResetInv ==
  /\ ResettableLeftovers
  /\ stage = "unpack" => \A n \in Node : IsFirst(n, todo) => procs[n] = 0

\* Actions that leave the processes of the nodes and their packages alone.
LEMMA ResetFrame ==
  ASSUME ResetInv, UNCHANGED <<pkg, procs>>, stage' # "unpack"
  PROVE  ResetInv'
BY DEF ResetInv, ResettableLeftovers

LEMMA ResetStep == TypeOK /\ ResetInv /\ Next => ResetInv'
<1> SUFFICES ASSUME TypeOK, ResetInv, Next PROVE ResetInv'
  OBVIOUS
<1>1. ASSUME NEW k, NEW T, NEW r, Start(k, T, r) PROVE ResetInv'
  BY <1>1 DEF Start, ResetInv, ResettableLeftovers, TypeOK
<1>2. CASE NextStage
  BY <1>2, ResetFrame DEF NextStage, Succ, nodeVars
<1>3. ASSUME NEW who, End(who) PROVE ResetInv'
  BY <1>3, ResetFrame DEF End, nodeVars
<1>4. ASSUME NEW n \in Node, Lose(n) PROVE ResetInv'
  BY <1>4 DEF Lose, ResetInv, ResettableLeftovers, TypeOK, Idle
<1>5. ASSUME NEW n \in Node, ResetNode(n) PROVE ResetInv'
  <2>1. procs'[n] = 0
    BY <1>5 DEF ResetNode, ResetInv, ResettableLeftovers, TypeOK
  <2>2. \A k \in Node : IsFirst(k, todo') => k = n
    BY <1>5, FirstUnique DEF ResetNode, Visit, TypeOK
  <2> QED
    BY <1>5, <2>1, <2>2 DEF ResetNode, ResetInv, ResettableLeftovers, TypeOK
<1>6. ASSUME NEW n \in Node, RemoveKubePackages(n) PROVE ResetInv'
  BY <1>6 DEF RemoveKubePackages, Visit, ResetInv, ResettableLeftovers, TypeOK
<1>7. ASSUME NEW n \in Node, InstallKubePackages(n) PROVE ResetInv'
  BY <1>7 DEF InstallKubePackages, Visit, Leave, ResetInv, ResettableLeftovers, TypeOK
<1>8. ASSUME NEW n \in Node,
             InitFirstMaster(n) \/ JoinMaster(n) \/ JoinWorker(n)
      PROVE  ResetInv'
  <2>1. pkg' = pkg /\ pkg[n] = "wanted" /\ stage' # "unpack"
    BY <1>8 DEF InitFirstMaster, JoinMaster, JoinWorker, Visit, Ready, Clean, Leave
  <2>2. \A k \in Node \ {n} : procs'[k] = procs[k]
    BY <1>8 DEF InitFirstMaster, JoinMaster, JoinWorker, Join, TypeOK
  <2> QED
    BY <2>1, <2>2 DEF ResetInv, ResettableLeftovers
<1>9. ASSUME NEW n \in Node,
             \/ DistributeCerts(n) \/ StopEtcd(n) \/ WipeEtcd(n) \/ StartEtcd(n)
             \/ CheckEtcd(n) \/ UploadCerts(n) \/ AdminConf(n) \/ TransferKubeconfig(n)
             \/ SetEnv(n) \/ WaitPods(n) \/ CreateToken(n) \/ SettleMaster(n)
             \/ FinalWait(n)
      PROVE  ResetInv'
  BY <1>9, ResetFrame
     DEF DistributeCerts, StopEtcd, WipeEtcd, StartEtcd, CheckEtcd, UploadCerts,
         AdminConf, TransferKubeconfig, SetEnv, WaitPods, CreateToken, SettleMaster,
         FinalWait, Visit, Leave, nodeVars
<1> QED
  BY <1>1, <1>2, <1>3, <1>4, <1>5, <1>6, <1>7, <1>8, <1>9
     DEF Next, Program, Operator, OnNode, StartInstall, StartAdd, StartRecover,
         CommandFails, Interrupt

\* No node is ever left with the containers of a cluster but without kubeadm,
\* the only program that can stop them.
THEOREM Resettable == Spec => []ResettableLeftovers
<1>1. Init => ResetInv
  BY DEF Init, ResetInv, ResettableLeftovers
<1>2. ResetInv /\ UNCHANGED vars => ResetInv'
  BY DEF vars, nodeVars, ResetInv, ResettableLeftovers
<1>3. Spec => []ResetInv
  BY <1>1, <1>2, TypeCorrect, ResetStep, PTL DEF Spec
<1>4. ResetInv => ResettableLeftovers
  BY DEF ResetInv
<1> QED
  BY <1>3, <1>4, PTL

(* ------------------------- one incarnation of etcd --------------------- *)

\* Every master of the run is stopped and wiped before the first one is
\* started, and what is started once stays in the incarnation that runs.
StoppedAndWiped(m) == data[m] = 0 /\ etcd[m] = 0

EtcdInv ==
  /\ EtcdOneIncarnation
  /\ \A m \in Masters : etcd[m] # 0 => data[m] # 0
  /\ stage \notin Idle => run # 0
  /\ stage \in {"stopEtcd", "wipeEtcd"} =>
       \A m \in TargetMasters \ todo : StoppedAndWiped(m)
  /\ stage = "wipeEtcd" => \A m \in Node : IsFirst(m, todo) => etcd[m] = 0
  /\ stage = "startEtcd" => \A m \in todo : m \in Masters /\ StoppedAndWiped(m)

\* Actions of other stages that leave etcd alone.
LEMMA EtcdFrame ==
  ASSUME EtcdInv, UNCHANGED <<data, etcd, run>>,
         stage' \in Idle \/ stage \notin Idle,
         stage' \notin {"stopEtcd", "wipeEtcd", "startEtcd"}
  PROVE  EtcdInv'
BY DEF EtcdInv, EtcdOneIncarnation, StoppedAndWiped

LEMMA EtcdNextStage == ASSUME TypeOK, EtcdInv, NextStage PROVE EtcdInv'
<1>1. /\ stage \in DOMAIN Succ /\ stage' = Succ[stage] /\ todo = {}
      /\ todo' = Work(Succ[stage]) /\ stage \notin Idle
      /\ UNCHANGED <<data, etcd, run, targets>>
  BY DEF NextStage, nodeVars, callVars, Succ, Idle
<1>2. CASE stage = "certs"
  <2>1. stage' = "stopEtcd" /\ todo' = TargetMasters
    BY <1>1, <1>2 DEF Succ, Work
  <2> QED
    BY <1>1, <2>1 DEF EtcdInv, EtcdOneIncarnation, TargetMasters, Idle
<1>3. CASE stage = "stopEtcd"
  <2>1. stage' = "startEtcd" /\ todo' \subseteq TargetMasters
    BY <1>1, <1>3 DEF Succ, Work
  <2>2. \A m \in TargetMasters : StoppedAndWiped(m)
    BY <1>1, <1>3 DEF EtcdInv
  <2> QED
    BY <1>1, <2>1, <2>2
       DEF EtcdInv, EtcdOneIncarnation, TargetMasters, StoppedAndWiped, Idle
<1>4. CASE stage \notin {"certs", "stopEtcd"}
  <2>1. stage' \notin {"stopEtcd", "wipeEtcd", "startEtcd"}
    BY <1>1, <1>4 DEF Succ
  <2> QED
    BY <1>1, <2>1, EtcdFrame
<1> QED
  BY <1>2, <1>3, <1>4

LEMMA EtcdStop ==
  ASSUME TypeOK, EtcdInv, NEW n \in Node, StopEtcd(n) PROVE EtcdInv'
<1>1. /\ stage = "stopEtcd" /\ IsFirst(n, todo) /\ n \in todo
      /\ stage' = "wipeEtcd" /\ UNCHANGED <<data, run, targets, todo>>
      /\ etcd' = [etcd EXCEPT ![n] = 0]
  BY DEF StopEtcd, Visit, IsFirst, callVars
<1>2. \A k \in Node : IsFirst(k, todo') => k = n
  BY <1>1, FirstUnique DEF TypeOK
<1>3. \A m \in Masters : etcd'[m] # 0 => etcd[m] # 0
  BY <1>1, NodeAssumption DEF TypeOK
<1>4. TargetMasters' = TargetMasters /\ TargetMasters \subseteq Node
  BY <1>1 DEF TargetMasters, TypeOK
<1>5. \A m \in TargetMasters' \ todo' : StoppedAndWiped(m)'
  BY <1>1, <1>4 DEF EtcdInv, StoppedAndWiped, TypeOK
<1>6. etcd'[n] = 0
  BY <1>1 DEF TypeOK
<1>7. EtcdOneIncarnation'
  BY <1>1, <1>3, NodeAssumption DEF EtcdInv, EtcdOneIncarnation, TypeOK
<1> QED
  BY <1>1, <1>2, <1>3, <1>5, <1>6, <1>7 DEF EtcdInv, Idle

LEMMA EtcdWipe ==
  ASSUME TypeOK, EtcdInv, NEW n \in Node, WipeEtcd(n) PROVE EtcdInv'
<1>1. /\ stage = "wipeEtcd" /\ IsFirst(n, todo)
      /\ stage' = "stopEtcd" /\ UNCHANGED <<etcd, run, targets>>
      /\ todo' = todo \ {n} /\ data' = [data EXCEPT ![n] = 0]
  BY DEF WipeEtcd, Visit, callVars
<1>2. etcd[n] = 0 /\ data'[n] = 0
  BY <1>1 DEF EtcdInv, TypeOK
<1>3. \A m \in Masters : etcd[m] # 0 => data'[m] = data[m]
  BY <1>1, <1>2, NodeAssumption DEF TypeOK
<1>4. TargetMasters' = TargetMasters /\ TargetMasters \subseteq Node
  BY <1>1 DEF TargetMasters, TypeOK
<1>5. \A m \in TargetMasters' \ todo' : StoppedAndWiped(m)'
  BY <1>1, <1>2, <1>4 DEF EtcdInv, StoppedAndWiped, TypeOK
<1>6. EtcdOneIncarnation'
  BY <1>1, <1>3 DEF EtcdInv, EtcdOneIncarnation
<1> QED
  BY <1>1, <1>3, <1>5, <1>6 DEF EtcdInv, Idle

\* A member of etcd that is started takes data that is not 0 and that every
\* member that runs has.
LEMMA BootstrapAgrees ==
  ASSUME TypeOK, EtcdInv, stage \notin Idle, NEW n \in Masters,
         StoppedAndWiped(n), Bootstrap(n)
  PROVE  /\ \A m \in Masters \ {n} : data'[m] = data[m] /\ etcd'[m] = etcd[m]
         /\ etcd'[n] # 0 =>
              /\ data'[n] # 0
              /\ \A m \in Masters \ {n} : etcd[m] # 0 => data[m] = data'[n]
<1>1. data[n] = 0 /\ etcd[n] = 0 /\ run # 0 /\ n \in Node /\ Masters \subseteq Node
  BY NodeAssumption DEF StoppedAndWiped, EtcdInv
<1>2. CASE PeerData(n) = {}
  <2>1. data' = [data EXCEPT ![n] = run] /\ etcd' = [etcd EXCEPT ![n] = ca[n]]
    BY <1>1, <1>2 DEF Bootstrap
  <2>2. \A m \in Masters \ {n} : etcd[m] # 0 => data[m] = run
    BY <1>2 DEF PeerData, EtcdInv
  <2> QED
    BY <1>1, <2>1, <2>2 DEF TypeOK
<1>3. CASE PeerData(n) # {} /\ ~UNCHANGED <<data, etcd>>
  <2>1. PICK m \in Masters \ {n} :
          /\ data[m] \in PeerData(n)
          /\ data' = [data EXCEPT ![n] = data[m]]
          /\ etcd' = [etcd EXCEPT ![n] = ca[n]]
    BY <1>1, <1>3 DEF Bootstrap
  <2>2. PICK k \in Masters \ {n} : etcd[k] # 0 /\ data[k] = data[m] /\ data[m] # 0
    BY <2>1 DEF PeerData
  <2>3. \A j \in Masters \ {n} : etcd[j] # 0 => data[j] = data[m]
    BY <2>2 DEF EtcdInv, EtcdOneIncarnation
  <2> QED
    BY <1>1, <2>1, <2>2, <2>3 DEF TypeOK
<1>4. CASE UNCHANGED <<data, etcd>>
  BY <1>1, <1>4
<1> QED
  BY <1>2, <1>3, <1>4

LEMMA EtcdStart ==
  ASSUME TypeOK, EtcdInv, NEW n \in Node, StartEtcd(n) PROVE EtcdInv'
<1>1. /\ stage = "startEtcd" /\ n \in todo /\ stage' = "startEtcd"
      /\ run' = run /\ todo' = todo \ {n} /\ Bootstrap(n) /\ stage \notin Idle
  BY DEF StartEtcd, Visit, Leave, IsFirst, callVars, Idle
<1>2. n \in Masters /\ StoppedAndWiped(n)
  BY <1>1 DEF EtcdInv
<1>3. /\ \A m \in Masters \ {n} : data'[m] = data[m] /\ etcd'[m] = etcd[m]
      /\ etcd'[n] # 0 =>
           /\ data'[n] # 0
           /\ \A m \in Masters \ {n} : etcd[m] # 0 => data[m] = data'[n]
  BY <1>1, <1>2, BootstrapAgrees
<1>4. EtcdOneIncarnation'
  BY <1>3 DEF EtcdInv, EtcdOneIncarnation
<1>5. \A m \in Masters : etcd'[m] # 0 => data'[m] # 0
  BY <1>3 DEF EtcdInv
<1>6. \A m \in todo' : m \in Masters /\ StoppedAndWiped(m)'
  BY <1>1, <1>3 DEF EtcdInv, StoppedAndWiped
<1> QED
  BY <1>1, <1>4, <1>5, <1>6 DEF EtcdInv

LEMMA EtcdStep == TypeOK /\ EtcdInv /\ Next => EtcdInv'
<1> SUFFICES ASSUME TypeOK, EtcdInv, Next PROVE EtcdInv'
  OBVIOUS
<1>1. ASSUME NEW k, NEW T, NEW r, Start(k, T, r) PROVE EtcdInv'
  <2>1. run' # 0
    BY <1>1 DEF Start, TypeOK, Ids
  <2> QED
    BY <1>1, <2>1 DEF Start, EtcdInv, EtcdOneIncarnation
<1>2. CASE NextStage
  BY <1>2, EtcdNextStage
<1>3. ASSUME NEW who, End(who) PROVE EtcdInv'
  BY <1>3, EtcdFrame DEF End, nodeVars, callVars, Idle
<1>4. ASSUME NEW n \in Node, Lose(n) PROVE EtcdInv'
  <2>1. /\ stage' \in Idle /\ data' = [data EXCEPT ![n] = 0]
        /\ etcd' = [etcd EXCEPT ![n] = 0]
    BY <1>4 DEF Lose
  <2>2. \A m \in Masters : etcd'[m] # 0 => m # n /\ etcd[m] # 0 /\ data'[m] = data[m]
    BY <2>1, NodeAssumption DEF TypeOK
  <2> QED
    BY <2>1, <2>2 DEF EtcdInv, EtcdOneIncarnation, Idle
<1>5. ASSUME NEW n \in Node, StopEtcd(n) PROVE EtcdInv'
  BY <1>5, EtcdStop
<1>6. ASSUME NEW n \in Node, WipeEtcd(n) PROVE EtcdInv'
  BY <1>6, EtcdWipe
<1>7. ASSUME NEW n \in Node, StartEtcd(n) PROVE EtcdInv'
  BY <1>7, EtcdStart
<1>8. ASSUME NEW n \in Node,
             \/ ResetNode(n) \/ RemoveKubePackages(n) \/ InstallKubePackages(n)
             \/ DistributeCerts(n) \/ CheckEtcd(n) \/ UploadCerts(n)
             \/ InitFirstMaster(n) \/ AdminConf(n) \/ TransferKubeconfig(n)
             \/ SetEnv(n) \/ WaitPods(n) \/ CreateToken(n) \/ JoinMaster(n)
             \/ SettleMaster(n) \/ JoinWorker(n) \/ FinalWait(n)
      PROVE  EtcdInv'
  BY <1>8, EtcdFrame
     DEF ResetNode, RemoveKubePackages, InstallKubePackages, DistributeCerts, CheckEtcd,
         UploadCerts, InitFirstMaster, AdminConf, TransferKubeconfig, SetEnv, WaitPods,
         CreateToken, JoinMaster, SettleMaster, JoinWorker, FinalWait, Visit, Leave,
         Idle, nodeVars, callVars
<1> QED
  BY <1>1, <1>2, <1>3, <1>4, <1>5, <1>6, <1>7, <1>8
     DEF Next, Program, Operator, OnNode, StartInstall, StartAdd, StartRecover,
         CommandFails, Interrupt

LEMMA EtcdAlways == Spec => []EtcdInv
<1>1. Init => EtcdInv
  BY NodeAssumption DEF Init, EtcdInv, EtcdOneIncarnation, Idle
<1>2. EtcdInv /\ UNCHANGED vars => EtcdInv'
  BY DEF vars, nodeVars, callVars, EtcdInv, EtcdOneIncarnation, StoppedAndWiped, TargetMasters
<1> QED
  BY <1>1, <1>2, TypeCorrect, EtcdStep, PTL DEF Spec

\* Whatever runs were cut short before, the etcd services of a configuration
\* never run on the data of two incarnations.
THEOREM OneIncarnation == Spec => []EtcdOneIncarnation
<1>1. EtcdInv => EtcdOneIncarnation
  BY DEF EtcdInv
<1> QED
  BY <1>1, EtcdAlways, PTL

(* ----------------------- the inductive invariant ----------------------- *)

\* The stages between the reset of the nodes and kubeadm init.
PreInit == {"package", "certs", "stopEtcd", "wipeEtcd", "startEtcd", "checkEtcd", "upload"}

\* What a run is about.
CallInv ==
  /\ stage \notin Idle /\ cmd = "install" => Masters \subseteq targets
  /\ stage \notin Idle /\ cmd = "add" => targets \cap Masters = {}

\* Nodes the run has reset are in no cluster until kubeadm init or join.
LeftInv ==
  /\ stage \in {"reset", "unpack"} => \A n \in targets \ todo : member[n] = 0
  /\ stage = "unpack" => \A n \in Node : IsFirst(n, todo) => member[n] = 0
  /\ stage \in PreInit => \A n \in targets : member[n] = 0
  /\ stage = "init" /\ todo # {} => \A m \in Masters : member[m] = 0

\* The token leads to the cluster of the first master.
Tokened == {"token", "joinMaster", "settle", "joinWorker", "finish"}
TokenInv ==
  /\ stage \notin Tokened => token = 0
  /\ stage \in {"token", "joinMaster", "settle"} => token \in {0, member[FirstMaster]}
  /\ stage = "joinWorker" => todo \cap Masters = {}

\* kubeadm init and the creation of the token concern the first master.
FirstInv == stage \in {"init", "token"} => todo \subseteq {FirstMaster}

OneMembership ==
  \A m, k \in Masters : member[m] # 0 /\ member[k] # 0 => member[m] = member[k]

\* Clusters carry the number of the run that founded them.
FoundedInv ==
  /\ \A n \in Node : member[n] # 0 => n \in registered[member[n]]
  /\ \A c \in Ids : registered[c] # {} => c # 0 /\ c <= run
  /\ stage \in {"reset", "unpack"} \cup PreInit => registered[run] = {}
  /\ stage = "init" /\ todo # {} => registered[run] = {}
  /\ stage \notin Idle => run # 0

MemberInv ==
  /\ procs = member /\ OneMembership
  /\ CallInv /\ LeftInv /\ TokenInv /\ FirstInv /\ FoundedInv

MembersIn == TypeOK /\ ResetInv /\ MemberInv

\* What a step of the pipeline is to Membership.
Founded == {c \in Ids : registered[c] # {}}
PromiseStep == Promise!Next \/ UNCHANGED <<member, Founded>>

(* ------------------------- steps that keep both ------------------------ *)

LEMMA FirstMasterSame ==
  ASSUME UNCHANGED <<targets, cmd>> PROVE FirstMaster' = FirstMaster
BY DEF FirstMaster, Founding, TargetMasters, Recovery

LEMMA FirstMasterMaster == ASSUME TypeOK PROVE FirstMaster \in Masters
<1>1. TargetMasters \in SUBSET Node /\ Masters \in SUBSET Node /\ Masters # {}
  BY NodeAssumption DEF TypeOK, TargetMasters
<1>2. First(Masters) \in Masters
  BY <1>1, FirstIn
<1>3. TargetMasters # {} => First(TargetMasters) \in Masters
  BY <1>1, FirstIn DEF TargetMasters
<1> QED
  BY <1>2, <1>3 DEF FirstMaster, Founding

\* Commands that do not touch the membership of a node.
LEMMA MemberFrame ==
  ASSUME MemberInv, UNCHANGED <<member, procs, registered, run, cmd, targets, token>>,
         todo' \in SUBSET todo,
         \/ stage' = stage /\ stage \notin {"reset", "unpack"}
         \/ stage \in PreInit /\ stage' \in PreInit
         \/ stage = "settle" /\ stage' = "joinMaster"
  PROVE  MemberInv' /\ PromiseStep
<1>1. FirstMaster' = FirstMaster
  BY FirstMasterSame
<1>2. OneMembership' /\ CallInv' /\ FoundedInv' /\ LeftInv' /\ procs' = member'
  BY DEF MemberInv, OneMembership, CallInv, FoundedInv, LeftInv, PreInit, Idle
<1>3. TokenInv'
  BY <1>1 DEF MemberInv, TokenInv, Tokened, PreInit
<1>4. FirstInv'
  BY <1>1 DEF MemberInv, FirstInv, PreInit
<1> QED
  BY <1>2, <1>3, <1>4 DEF MemberInv, PromiseStep, Founded

LEMMA MemberNextStage ==
  ASSUME MembersIn, NextStage PROVE MemberInv' /\ PromiseStep
<1>1. /\ stage \in DOMAIN Succ /\ stage' = Succ[stage] /\ todo = {}
      /\ todo' = Work(Succ[stage]) /\ stage \notin Idle
      /\ UNCHANGED <<member, procs, registered, run, cmd, targets>>
      /\ IF stage' = "done" THEN token' = 0 ELSE token' = token
  BY DEF NextStage, nodeVars, clusterVars, callVars, Succ, Idle
<1>2. stage' \notin {"reset", "unpack", "settle"} /\ FirstMaster' = FirstMaster
  BY <1>1, FirstMasterSame DEF Succ
<1>3. stage' \in PreInit => stage = "reset" \/ stage \in PreInit
  BY <1>1 DEF Succ, PreInit
<1>4. stage' = "init" => stage = "upload"
  <2>1. \A s \in DOMAIN Succ : s # "upload" => Succ[s] # "init"
    BY DEF Succ
  <2> QED
    BY <1>1, <2>1
<1>5. CallInv' /\ OneMembership' /\ procs' = member'
  BY <1>1 DEF MembersIn, MemberInv, CallInv, OneMembership
<1>6. LeftInv'
  <2>1. ASSUME stage' \in PreInit PROVE \A n \in targets' : member'[n] = 0
    BY <1>1, <1>3, <2>1 DEF MembersIn, MemberInv, LeftInv
  <2>2. ASSUME stage' = "init", todo' # {} PROVE \A m \in Masters : member'[m] = 0
    <3>1. Founding
      BY <1>1, <2>2 DEF Work
    <3>2. Masters \subseteq targets
      BY <1>1, <3>1
         DEF MembersIn, MemberInv, CallInv, Founding, Recovery, TargetMasters, TypeOK
    <3> QED
      BY <1>1, <1>4, <2>2, <3>2 DEF MembersIn, MemberInv, LeftInv, PreInit
  <2> QED
    BY <1>2, <2>1, <2>2 DEF LeftInv
<1>7. TokenInv'
  <2>1. stage' \notin Tokened => token' = 0
    BY <1>1 DEF MembersIn, MemberInv, TokenInv, Tokened, Succ
  <2>2. stage' \in {"token", "joinMaster", "settle"} => token' \in {0, member'[FirstMaster']}
    BY <1>1, <1>2 DEF MembersIn, MemberInv, TokenInv, Tokened, Succ
  <2>3. stage' = "joinWorker" => todo' \cap Masters = {}
    BY <1>1 DEF Work, TargetWorkers
  <2> QED
    BY <2>1, <2>2, <2>3 DEF TokenInv
<1>8. FoundedInv'
  BY <1>1, <1>2, <1>3, <1>4 DEF MembersIn, MemberInv, FoundedInv, PreInit
<1>9. FirstInv'
  BY <1>1, <1>2 DEF Work, FirstInv
<1> QED
  BY <1>1, <1>5, <1>6, <1>7, <1>8, <1>9 DEF MemberInv, PromiseStep, Founded

LEMMA MemberStart ==
  ASSUME MembersIn, AddTargets \cap Masters = {}, StartInstall \/ StartAdd \/ StartRecover
  PROVE  MemberInv' /\ PromiseStep
<1>1. PICK k, T, r :
        /\ Start(k, T, r)
        /\ k = "install" => Masters \subseteq T
        /\ k = "add" => T \cap Masters = {}
  <2>1. CASE StartInstall
    BY <2>1, NodeAssumption DEF StartInstall
  <2>2. CASE StartAdd
    BY <2>2 DEF StartAdd
  <2>3. CASE StartRecover
    BY <2>3 DEF StartRecover
  <2> QED
    BY <2>1, <2>2, <2>3
<1>2. /\ stage \in Idle /\ stage' = "reset" /\ run' = run + 1 /\ run < MaxRuns
      /\ cmd' = k /\ targets' = T /\ todo' = T
      /\ UNCHANGED <<member, procs, registered, token>>
  BY <1>1 DEF Start, clusterVars
<1>3. run' \in Ids /\ run \in Nat
  BY <1>2, BoundAssumption DEF Ids, MembersIn, TypeOK
<1>4. registered[run'] = {}
  BY <1>2, <1>3 DEF MembersIn, MemberInv, FoundedInv
<1>5. \A c \in Ids : c <= run => c <= run'
  BY <1>2, <1>3 DEF Ids
<1> QED
  BY <1>1, <1>2, <1>3, <1>4, <1>5
     DEF MembersIn, MemberInv, OneMembership, CallInv, LeftInv, TokenInv, FirstInv, FoundedInv,
         PreInit, Tokened, Idle, PromiseStep, Founded

LEMMA MemberEnd ==
  ASSUME MembersIn, NEW who, End(who) PROVE MemberInv' /\ PromiseStep
BY DEF End, nodeVars, clusterVars, callVars, MembersIn, MemberInv, OneMembership, CallInv,
       LeftInv, TokenInv, FirstInv, FoundedInv, PreInit, Tokened, Idle, PromiseStep, Founded

(* ------------------------------ nodes leave ---------------------------- *)

\* One node leaves, none of the others is touched.
LEMMA MemberLeaves ==
  ASSUME MembersIn, NEW n \in Node, UNCHANGED <<registered, run, cmd, targets, token>>,
         member' = [member EXCEPT ![n] = 0]
  PROVE  /\ Promise!Next
         /\ OneMembership' /\ \A k \in Node : member'[k] # 0 => k \in registered'[member'[k]]
<1>1. Promise!Leave(n)
  BY DEF Promise!Leave
<1>2. \A k \in Node : member'[k] # 0 => member'[k] = member[k]
  BY DEF MembersIn, TypeOK
<1> QED
  BY <1>1, <1>2, NodeAssumption
     DEF Promise!Next, MembersIn, MemberInv, OneMembership, FoundedInv

LEMMA MemberReset ==
  ASSUME MembersIn, NEW n \in Node, ResetNode(n) PROVE MemberInv' /\ PromiseStep
<1>1. /\ stage = "reset" /\ stage' = "unpack" /\ IsFirst(n, todo) /\ stage \notin Idle
      /\ member' = [member EXCEPT ![n] = 0]
      /\ UNCHANGED <<registered, run, cmd, targets, todo, token>>
  BY DEF ResetNode, Visit, callVars, clusterVars, Idle
<1>2. /\ Promise!Next /\ OneMembership'
      /\ \A k \in Node : member'[k] # 0 => k \in registered'[member'[k]]
  BY <1>1, MemberLeaves
<1>3. procs' = member'
  <2>1. pkg[n] = "none" => procs[n] = 0
    BY DEF MembersIn, ResetInv, ResettableLeftovers
  <2> QED
    BY <1>1, <2>1 DEF ResetNode, MembersIn, MemberInv, TypeOK
<1>4. \A k \in Node : IsFirst(k, todo') => k = n
  BY <1>1, FirstUnique DEF MembersIn, TypeOK
<1>5. LeftInv'
  BY <1>1, <1>4 DEF MembersIn, MemberInv, LeftInv, PreInit, TypeOK
<1> QED
  BY <1>1, <1>2, <1>3, <1>5
     DEF MembersIn, MemberInv, CallInv, TokenInv, FirstInv, Tokened, FoundedInv, PreInit, Idle,
         PromiseStep

LEMMA MemberUnpack ==
  ASSUME MembersIn, NEW n \in Node, RemoveKubePackages(n) PROVE MemberInv' /\ PromiseStep
<1>1. /\ stage = "unpack" /\ stage' = "reset" /\ IsFirst(n, todo) /\ stage \notin Idle
      /\ todo' = todo \ {n}
      /\ UNCHANGED <<member, procs, registered, run, cmd, targets, token>>
  BY DEF RemoveKubePackages, Visit, callVars, clusterVars, Idle
<1>2. LeftInv'
  BY <1>1 DEF MembersIn, MemberInv, LeftInv, PreInit
<1> QED
  BY <1>1, <1>2
     DEF MembersIn, MemberInv, OneMembership, CallInv, TokenInv, FirstInv, Tokened, FoundedInv,
         PreInit, Idle, PromiseStep, Founded

LEMMA MemberLose ==
  ASSUME MembersIn, NEW n \in Node, Lose(n) PROVE MemberInv' /\ PromiseStep
<1>1. /\ stage \in Idle /\ stage' = stage
      /\ member' = [member EXCEPT ![n] = 0] /\ procs' = [procs EXCEPT ![n] = 0]
      /\ UNCHANGED <<registered, run, cmd, targets, todo, token>>
  BY DEF Lose, callVars, clusterVars
<1>2. /\ Promise!Next /\ OneMembership'
      /\ \A k \in Node : member'[k] # 0 => k \in registered'[member'[k]]
  BY <1>1, MemberLeaves
<1> QED
  BY <1>1, <1>2
     DEF MembersIn, MemberInv, CallInv, LeftInv, TokenInv, FirstInv, Tokened, FoundedInv,
         PreInit, Idle, PromiseStep

(* -------------------------- nodes found and join ----------------------- *)

LEMMA MemberFounds ==
  ASSUME MembersIn, NEW n \in Node, InitFirstMaster(n) PROVE MemberInv' /\ PromiseStep
<1>1. /\ stage = "init" /\ stage' = "init" /\ IsFirst(n, todo) /\ stage \notin Idle
      /\ todo' = todo \ {n} /\ n \in todo
      /\ member' = [member EXCEPT ![n] = run] /\ procs' = [procs EXCEPT ![n] = run]
      /\ registered' = [registered EXCEPT ![run] = {n}]
      /\ UNCHANGED <<run, cmd, targets, token>>
  BY DEF InitFirstMaster, Visit, Leave, callVars, IsFirst, Idle
<1>2. /\ \A m \in Masters : member[m] = 0
      /\ registered[run] = {} /\ run \in Ids /\ Masters \subseteq Node
  BY <1>1, NodeAssumption DEF MembersIn, MemberInv, LeftInv, FoundedInv, TypeOK
<1>3. Promise!Next
  <2>1. n \in Masters
    BY <1>1, FirstMasterMaster DEF MembersIn, MemberInv, FirstInv
  <2>2. run \in (Ids \ {0}) \ Founded /\ Founded' = Founded \cup {run}
    <3>1. run # 0
      BY <1>1 DEF MembersIn, MemberInv, FoundedInv
    <3>2. \A c \in Ids : registered'[c] # {} <=> c = run \/ registered[c] # {}
      BY <1>1, <1>2 DEF MembersIn, TypeOK
    <3> QED
      BY <1>2, <3>1, <3>2 DEF Founded
  <2>3. Promise!Found(n)
    BY <1>1, <1>2, <2>1, <2>2 DEF Promise!Found, Founded
  <2> QED
    BY <2>3 DEF Promise!Next
<1>4. FirstMaster' = FirstMaster
  BY <1>1, FirstMasterSame
<1>5. procs' = member' /\ OneMembership' /\ CallInv'
  BY <1>1, <1>2 DEF MembersIn, MemberInv, OneMembership, CallInv, TypeOK
<1>6. LeftInv' /\ FirstInv' /\ TokenInv'
  <2>1. todo' = {}
    BY <1>1 DEF MembersIn, MemberInv, FirstInv
  <2> QED
    BY <1>1, <1>4, <2>1
       DEF MembersIn, MemberInv, LeftInv, PreInit, FirstInv, TokenInv, Tokened
<1>7. FoundedInv'
  <2>1. todo' = {}
    BY <1>1 DEF MembersIn, MemberInv, FirstInv
  <2>2. \A k \in Node : member'[k] # 0 => k \in registered'[member'[k]]
    <3>1. \A k \in Node \ {n} : member[k] # run \/ run = 0
      BY <1>2 DEF MembersIn, MemberInv, FoundedInv
    <3> QED
      BY <1>1, <1>2, <3>1 DEF MembersIn, MemberInv, FoundedInv, TypeOK
  <2>3. \A c \in Ids : registered'[c] # {} => c # 0 /\ c <= run
    BY <1>1, <1>2 DEF MembersIn, MemberInv, FoundedInv, TypeOK, Ids
  <2> QED
    BY <1>1, <2>1, <2>2, <2>3 DEF MembersIn, MemberInv, FoundedInv, PreInit
<1> QED
  BY <1>3, <1>5, <1>6, <1>7 DEF MemberInv, PromiseStep

\* Node n joins the cluster of the first master, if that is in one.
LEMMA MemberJoins ==
  ASSUME MembersIn, NEW n \in Node, member[n] = 0, member[FirstMaster] # 0,
         Join(n, member[FirstMaster])
  PROVE  /\ Promise!Next /\ OneMembership' /\ procs' = member' /\ Founded' = Founded
         /\ member'[FirstMaster] = member[FirstMaster]
         /\ \A k \in Node : member'[k] # 0 => k \in registered'[member'[k]]
         /\ \A c \in Ids : registered'[c] # {} => c # 0 /\ c <= run
<1> DEFINE c == member[FirstMaster]
<1>1. /\ FirstMaster \in Masters /\ FirstMaster \in Node /\ c \in Ids /\ Masters \subseteq Node
      /\ FirstMaster # n
  BY FirstMasterMaster, NodeAssumption DEF MembersIn, TypeOK
<1>2. /\ member' = [member EXCEPT ![n] = c] /\ procs' = [procs EXCEPT ![n] = c]
      /\ registered' = [registered EXCEPT ![c] = @ \cup {n}]
  BY DEF Join
<1>3. FirstMaster \in registered[c]
  BY <1>1 DEF MembersIn, MemberInv, FoundedInv
<1>4. Founded' = Founded
  BY <1>1, <1>2, <1>3 DEF Founded, MembersIn, TypeOK
<1>5. Promise!Join(n)
  BY <1>1, <1>2, <1>4 DEF Promise!Join, Founded
<1>6. OneMembership'
  <2>1. \A m \in Masters : member[m] # 0 => member[m] = c
    BY <1>1 DEF MembersIn, MemberInv, OneMembership
  <2>2. \A m \in Masters : member'[m] # 0 => member'[m] = c
    BY <1>1, <1>2, <2>1 DEF MembersIn, TypeOK
  <2> QED
    BY <2>2 DEF OneMembership
<1>7. \A k \in Node : member'[k] # 0 => k \in registered'[member'[k]]
  BY <1>1, <1>2 DEF MembersIn, MemberInv, FoundedInv, TypeOK
<1>8. \A d \in Ids : registered'[d] # {} => registered[d] # {}
  BY <1>1, <1>2, <1>3 DEF MembersIn, TypeOK
<1>9. \A d \in Ids : registered'[d] # {} => d # 0 /\ d <= run
  BY <1>8 DEF MembersIn, MemberInv, FoundedInv
<1>10. procs' = member' /\ member'[FirstMaster] = c
  BY <1>1, <1>2 DEF MembersIn, MemberInv, TypeOK
<1> QED
  BY <1>4, <1>5, <1>6, <1>7, <1>9, <1>10 DEF Promise!Next

LEMMA MemberMaster ==
  ASSUME MembersIn, NEW n \in Node, JoinMaster(n) PROVE MemberInv' /\ PromiseStep
<1>1. /\ stage = "joinMaster" /\ stage' = "settle" /\ stage \notin Idle
      /\ member[n] = 0 /\ token # 0 /\ Join(n, token)
      /\ UNCHANGED <<run, cmd, targets, todo, token>>
  BY DEF JoinMaster, Visit, Ready, Clean, Alive, AliveOn, callVars, Idle
<1>2. token = member[FirstMaster]
  BY <1>1 DEF MembersIn, MemberInv, TokenInv
<1>3. FirstMaster' = FirstMaster
  BY <1>1, FirstMasterSame
<1> QED
  BY <1>1, <1>2, <1>3, MemberJoins
     DEF MembersIn, MemberInv, CallInv, LeftInv, TokenInv, FirstInv, Tokened, FoundedInv,
         PreInit, Idle, PromiseStep

LEMMA MemberWorker ==
  ASSUME MembersIn, NEW n \in Node, JoinWorker(n) PROVE MemberInv' /\ PromiseStep
<1>1. /\ stage = "joinWorker" /\ stage' = "joinWorker" /\ stage \notin Idle
      /\ member[n] = 0 /\ member[FirstMaster] # 0 /\ Join(n, member[FirstMaster])
      /\ todo' = todo \ {n} /\ UNCHANGED <<run, cmd, targets, token>>
  BY DEF JoinWorker, Visit, Leave, Ready, Clean, Alive, AliveOn, callVars, Idle
<1>2. FirstMaster' = FirstMaster
  BY <1>1, FirstMasterSame
<1> QED
  BY <1>1, <1>2, MemberJoins
     DEF MembersIn, MemberInv, CallInv, LeftInv, TokenInv, FirstInv, Tokened, FoundedInv,
         PreInit, Idle, PromiseStep

LEMMA MemberToken ==
  ASSUME MembersIn, NEW n \in Node, CreateToken(n) PROVE MemberInv' /\ PromiseStep
<1>1. /\ stage = "token" /\ stage' = "token" /\ stage \notin Idle
      /\ todo' = todo \ {n} /\ token' = member[n] /\ n \in todo
      /\ UNCHANGED <<member, procs, registered, run, cmd, targets>>
  BY DEF CreateToken, Visit, Leave, callVars, nodeVars, clusterVars, IsFirst, Idle
<1>2. FirstMaster' = FirstMaster
  BY <1>1, FirstMasterSame
<1>3. n = FirstMaster
  BY <1>1 DEF MembersIn, MemberInv, FirstInv
<1>4. TokenInv' /\ FirstInv'
  BY <1>1, <1>2, <1>3 DEF MembersIn, MemberInv, TokenInv, FirstInv, Tokened
<1> QED
  BY <1>1, <1>4
     DEF MembersIn, MemberInv, OneMembership, CallInv, LeftInv, FoundedInv, PreInit, Idle,
         PromiseStep, Founded

(* ------------------------------- theorems ------------------------------ *)

LEMMA MemberStep ==
  ASSUME MembersIn, AddTargets \cap Masters = {}, Next
  PROVE  MemberInv' /\ PromiseStep
<1>1. CASE NextStage
  BY <1>1, MemberNextStage
<1>2. CASE Operator
  BY <1>2, MemberStart DEF Operator
<1>3. CASE CommandFails \/ Interrupt
  BY <1>3, MemberEnd DEF CommandFails, Interrupt
<1>4. ASSUME NEW n \in Node, Lose(n) PROVE MemberInv' /\ PromiseStep
  BY <1>4, MemberLose
<1>5. ASSUME NEW n \in Node, OnNode(n) PROVE MemberInv' /\ PromiseStep
  <2>1. CASE ResetNode(n)          BY <2>1, MemberReset
  <2>2. CASE RemoveKubePackages(n) BY <2>2, MemberUnpack
  <2>3. CASE InitFirstMaster(n)    BY <2>3, MemberFounds
  <2>4. CASE JoinMaster(n)         BY <2>4, MemberMaster
  <2>5. CASE JoinWorker(n)         BY <2>5, MemberWorker
  <2>6. CASE CreateToken(n)        BY <2>6, MemberToken
  <2>7. CASE \/ InstallKubePackages(n) \/ DistributeCerts(n) \/ StopEtcd(n)
             \/ WipeEtcd(n) \/ StartEtcd(n) \/ CheckEtcd(n)
    BY <2>7, MemberFrame DEF MembersIn, InstallKubePackages, DistributeCerts, StopEtcd,
       WipeEtcd, StartEtcd, CheckEtcd, Visit, Leave, PreInit, nodeVars, clusterVars, callVars
  <2>8. CASE \/ AdminConf(n) \/ TransferKubeconfig(n) \/ SetEnv(n) \/ WaitPods(n)
             \/ SettleMaster(n) \/ FinalWait(n) \/ UploadCerts(n)
    BY <2>8, MemberFrame DEF MembersIn, AdminConf, TransferKubeconfig, SetEnv, WaitPods,
       SettleMaster, FinalWait, UploadCerts, Visit, Leave, nodeVars, clusterVars, callVars
  <2> QED
    BY <1>5, <2>1, <2>2, <2>3, <2>4, <2>5, <2>6, <2>7, <2>8 DEF OnNode
<1> QED
  BY <1>1, <1>2, <1>3, <1>4, <1>5 DEF Next, Program

LEMMA MemberInit == Init => MemberInv /\ Promise!Init
BY BoundAssumption, NodeAssumption
   DEF Init, MemberInv, OneMembership, CallInv, LeftInv, TokenInv, FirstInv, FoundedInv,
       PreInit, Tokened, Idle, Promise!Init, Ids

LEMMA MemberStutter ==
  ASSUME MemberInv, UNCHANGED vars PROVE MemberInv' /\ PromiseStep
<1>1. FirstMaster' = FirstMaster
  BY FirstMasterSame DEF vars, callVars
<1> QED
  BY <1>1 DEF vars, nodeVars, clusterVars, callVars, MemberInv, OneMembership, CallInv,
     LeftInv, TokenInv, FirstInv, FoundedInv, PromiseStep, Founded

LEMMA MembersAlways == ASSUME AddTargets \cap Masters = {} PROVE Spec => []MembersIn
<1>1. MembersIn /\ [Next]_vars => MemberInv'
  BY MemberStep, MemberStutter DEF MembersIn
<1>2. ResetInv /\ UNCHANGED vars => ResetInv'
  BY DEF vars, nodeVars, ResetInv, ResettableLeftovers
<1>3. Init => ResetInv
  BY DEF Init, ResetInv, ResettableLeftovers
<1> QED
  BY <1>1, <1>2, <1>3, MemberInit, TypeCorrect, ResetStep, PTL DEF Spec, MembersIn

\* Every run keeps the promises of Membership: whatever it is asked to do and
\* wherever it is cut short, a new cluster is founded only when no master is
\* in one, and a node joins only the cluster of the masters.  `add node` is
\* given workers: run cluster_add_master shows how a master that is added
\* founds a second cluster.
THEOREM KeepsMembership ==
  ASSUME AddTargets \cap Masters = {}
  PROVE  Spec => MembershipKept
<1>1. MembersIn /\ [Next]_vars => [Promise!Next]_<<member, Founded>>
  <2>1. MembersIn /\ [Next]_vars => PromiseStep
    BY MemberStep, MemberStutter DEF MembersIn
  <2> QED
    BY <2>1 DEF PromiseStep
<1>2. Spec => Promise!Init /\ [][Promise!Next]_<<member, Founded>>
  BY <1>1, MembersAlways, MemberInit, PTL DEF Spec
<1> QED
  BY <1>2, PTL DEF MembershipKept, Promise!Spec, Founded

\* Two clusters of one configuration never answer at the same time, however
\* many runs were cut short and nodes lost.
THEOREM SingleCluster ==
  ASSUME AddTargets \cap Masters = {}
  PROVE  Spec => []OneCluster
<1>1. ASSUME MembersIn, NEW c \in Ids, NEW d \in Ids, Alive(c), Alive(d)
      PROVE  c = d
  <2>1. PICK m \in Masters : member[m] = c /\ c # 0
    BY <1>1 DEF MembersIn, MemberInv, Alive, AliveOn
  <2>2. PICK k \in Masters : member[k] = d /\ d # 0
    BY <1>1 DEF MembersIn, MemberInv, Alive, AliveOn
  <2> QED
    BY <2>1, <2>2, <1>1 DEF MembersIn, MemberInv, OneMembership
<1>2. MembersIn => OneCluster
  <2> SUFFICES ASSUME MembersIn PROVE OneCluster
    OBVIOUS
  <2> QED
    BY <1>1 DEF OneCluster
<1> QED
  BY <1>2, MembersAlways, PTL

(* --------------------------- a store of its own ------------------------ *)

\* From the start of etcd to kubeadm init the masters hold no data but the
\* run's own.
StoreInv ==
  /\ \A c \in Ids : store[c] \in {0, c}
  /\ stage = "init" /\ todo # {} => cmd = "install"
  /\ cmd = "install" /\ (\/ stage \in {"startEtcd", "checkEtcd", "upload"}
                         \/ stage = "init" /\ todo # {}) =>
       \A m \in Masters : data[m] \in {0, run}

\* A quorum is not empty.
LEMMA QuorumData ==
  ASSUME TypeOK, NEW d, NEW k, EtcdQuorum(d, k) PROVE \E m \in Masters : data[m] = d
<1> DEFINE Q == {m \in Masters : data[m] = d /\ etcd[m] = k}
<1>1. IsFiniteSet(Masters) /\ Cardinality(Masters) \in Nat
  BY NodeAssumption, FS_Subset, FS_CardinalityType
<1>2. CASE Q = {}
  <2>1. Cardinality(Q) = 0
    BY <1>2, FS_EmptySet
  <2> QED
    BY <1>1, <2>1 DEF EtcdQuorum
<1> QED
  BY <1>2

LEMMA StoreFrame ==
  ASSUME StoreInv, UNCHANGED <<data, store, run, cmd>>, todo' \in SUBSET todo,
         \/ stage' = stage
         \/ stage' \notin {"startEtcd", "checkEtcd", "upload", "init"}
  PROVE  StoreInv'
BY DEF StoreInv

LEMMA StoreNextStage ==
  ASSUME MembersIn, EtcdInv, StoreInv, NextStage PROVE StoreInv'
<1>1. /\ stage \in DOMAIN Succ /\ stage' = Succ[stage] /\ todo = {}
      /\ todo' = Work(Succ[stage]) /\ stage \notin Idle
      /\ UNCHANGED <<data, store, run, cmd, targets>>
  BY DEF NextStage, nodeVars, clusterVars, callVars, Succ, Idle
<1>2. \A s \in DOMAIN Succ :
        /\ Succ[s] = "startEtcd" => s = "stopEtcd"
        /\ Succ[s] = "checkEtcd" => s = "startEtcd"
        /\ Succ[s] = "upload" => s = "checkEtcd"
        /\ Succ[s] = "init" => s = "upload"
  BY DEF Succ
<1>3. ASSUME stage' = "init", todo' # {} PROVE cmd = "install"
  <2>1. Founding
    BY <1>1, <1>3 DEF Work
  <2> QED
    BY <1>1, <2>1
       DEF MembersIn, MemberInv, CallInv, Founding, Recovery, TargetMasters, TypeOK
<1>4. ASSUME stage' = "startEtcd", cmd = "install" PROVE \A m \in Masters : data[m] = 0
  <2>1. Masters \subseteq targets /\ stage = "stopEtcd"
    BY <1>1, <1>2, <1>4 DEF MembersIn, MemberInv, CallInv
  <2> QED
    BY <1>1, <2>1 DEF EtcdInv, StoppedAndWiped, TargetMasters
<1> QED
  BY <1>1, <1>2, <1>3, <1>4 DEF StoreInv

LEMMA StoreEtcd ==
  ASSUME MembersIn, StoreInv, NEW n \in Node, StartEtcd(n) PROVE StoreInv'
<1>1. /\ stage = "startEtcd" /\ stage' = "startEtcd" /\ Bootstrap(n)
      /\ UNCHANGED <<store, run, cmd>>
  BY DEF StartEtcd, Visit, Leave, clusterVars, callVars
<1>2. ASSUME cmd = "install", NEW m \in Masters PROVE data'[m] \in {0, run}
  <2>1. \A k \in Masters : data[k] \in {0, run} /\ m \in Node
    BY <1>1, <1>2, NodeAssumption DEF StoreInv
  <2> QED
    BY <1>1, <2>1 DEF Bootstrap, MembersIn, TypeOK
<1> QED
  BY <1>1, <1>2 DEF StoreInv

LEMMA StoreFounds ==
  ASSUME MembersIn, StoreInv, NEW n \in Node, InitFirstMaster(n) PROVE StoreInv'
<1>1. /\ stage = "init" /\ stage' = "init" /\ todo # {} /\ todo' \subseteq todo
      /\ UNCHANGED <<data, run, cmd>>
  BY DEF InitFirstMaster, Visit, Leave, IsFirst, callVars
<1>2. \A d \in Ids : EtcdQuorum(d, ca[n]) => d \in {0, run}
  BY <1>1, QuorumData DEF MembersIn, StoreInv
<1>3. \A c \in Ids : store'[c] \in {0, c}
  BY <1>2 DEF InitFirstMaster, StoreInv, MembersIn, TypeOK
<1> QED
  BY <1>1, <1>3 DEF StoreInv

LEMMA StoreStep ==
  ASSUME MembersIn, EtcdInv, StoreInv, Next PROVE StoreInv'
<1>1. ASSUME NEW k, NEW T, NEW r, Start(k, T, r) PROVE StoreInv'
  BY <1>1 DEF Start, StoreInv, clusterVars
<1>2. CASE NextStage
  BY <1>2, StoreNextStage
<1>3. ASSUME NEW who, End(who) PROVE StoreInv'
  BY <1>3, StoreFrame DEF End, nodeVars, clusterVars, callVars
<1>4. ASSUME NEW n \in Node, Lose(n) PROVE StoreInv'
  BY <1>4 DEF Lose, StoreInv, Idle, clusterVars, callVars
<1>5. ASSUME NEW n \in Node, StartEtcd(n) PROVE StoreInv'
  BY <1>5, StoreEtcd
<1>6. ASSUME NEW n \in Node, InitFirstMaster(n) PROVE StoreInv'
  BY <1>6, StoreFounds
<1>7. ASSUME NEW n \in Node, WipeEtcd(n) PROVE StoreInv'
  BY <1>7 DEF WipeEtcd, Visit, StoreInv, clusterVars, callVars
<1>8. ASSUME NEW n \in Node,
             \/ ResetNode(n) \/ RemoveKubePackages(n) \/ InstallKubePackages(n)
             \/ DistributeCerts(n) \/ StopEtcd(n) \/ CheckEtcd(n) \/ UploadCerts(n)
             \/ AdminConf(n) \/ TransferKubeconfig(n) \/ SetEnv(n) \/ WaitPods(n)
             \/ CreateToken(n) \/ JoinMaster(n) \/ SettleMaster(n) \/ JoinWorker(n)
             \/ FinalWait(n)
      PROVE  StoreInv'
  BY <1>8, StoreFrame
     DEF ResetNode, RemoveKubePackages, InstallKubePackages, DistributeCerts, StopEtcd,
         CheckEtcd, UploadCerts, AdminConf, TransferKubeconfig, SetEnv, WaitPods,
         CreateToken, JoinMaster, SettleMaster, JoinWorker, FinalWait, Visit, Leave,
         nodeVars, clusterVars, callVars
<1> QED
  BY <1>1, <1>2, <1>3, <1>4, <1>5, <1>6, <1>7, <1>8
     DEF Next, Program, Operator, OnNode, StartInstall, StartAdd, StartRecover,
         CommandFails, Interrupt

LEMMA StoreAlways == ASSUME AddTargets \cap Masters = {} PROVE Spec => []StoreInv
<1>1. Init => StoreInv
  BY DEF Init, StoreInv
<1>2. StoreInv /\ UNCHANGED vars => StoreInv'
  BY DEF vars, nodeVars, clusterVars, callVars, StoreInv
<1> QED
  BY <1>1, <1>2, StoreStep, MembersAlways, EtcdAlways, PTL DEF Spec

\* A cluster is always founded on the etcd data of the run that founds it.
THEOREM OwnStore ==
  ASSUME AddTargets \cap Masters = {}
  PROVE  Spec => []FreshStore
<1>1. StoreInv => FreshStore
  BY DEF StoreInv, FreshStore
<1> QED
  BY <1>1, StoreAlways, PTL

(* ------------------------- the loops of a run -------------------------- *)

\* The loop a stage belongs to.
Loop(s) == CASE s = "settle" -> "joinMaster" [] s = "wipeEtcd" -> "stopEtcd" [] OTHER -> s

\* What a run is about, and that a loop visits no node but its own.
LoopInv ==
  /\ cmd = "install" /\ stage \notin Idle => targets \in {Node, Masters}
  /\ cmd = "add" => \E n \in AddTargets : targets = {n}
  /\ cmd = "recover" => \E n \in RecoverTargets : targets = {n}
  /\ need \subseteq targets
  /\ stage \in Idle => todo = {} /\ need = {}
  /\ stage \in {"reset", "unpack"} => todo \subseteq targets
  /\ stage \notin Idle \cup {"reset", "unpack"} => todo \subseteq Work(Loop(stage))

LEMMA WorkSame ==
  ASSUME UNCHANGED <<targets, cmd, remote, need>>
  PROVE  \A s : Work(s)' = Work(s)
BY DEF Work, Multi, Recovery, Founding, FirstMaster, MainMaster, TargetMasters, TargetWorkers

\* Steps within a loop that leave the call alone.
LEMMA LoopFrame ==
  ASSUME LoopInv, UNCHANGED <<targets, cmd, remote, need>>, todo' \in SUBSET todo,
         stage \notin Idle \cup {"reset", "unpack"},
         stage' \notin Idle \cup {"reset", "unpack"}, Loop(stage') = Loop(stage)
  PROVE  LoopInv'
<1>1. PICK s : s = Loop(stage)
  OBVIOUS
<1>2. todo' \subseteq Work(s)'
  BY <1>1, WorkSame DEF LoopInv
<1>3. Work(Loop(stage))' = Work(s)'
  BY <1>1
<1> QED
  BY <1>2, <1>3 DEF LoopInv

LEMMA LoopStart ==
  ASSUME LoopInv, StartInstall \/ StartAdd \/ StartRecover PROVE LoopInv'
<1>1. CASE StartInstall
  BY <1>1 DEF LoopInv, StartInstall, Start, Idle
<1>2. CASE StartAdd
  BY <1>2 DEF LoopInv, StartAdd, Start, Idle
<1>3. CASE StartRecover
  BY <1>3 DEF LoopInv, StartRecover, Start, Idle
<1> QED
  BY <1>1, <1>2, <1>3

LEMMA LoopNextStage == ASSUME LoopInv, NextStage PROVE LoopInv'
<1>1. PICK s \in DOMAIN Succ : stage = s
  BY DEF NextStage
<1>2. /\ stage' = Succ[s] /\ todo' = Work(Succ[s]) /\ UNCHANGED <<targets, cmd, remote>>
      /\ IF Succ[s] = "done" THEN need' = {} ELSE need' = need
  BY <1>1 DEF NextStage, callVars
<1>3. Succ[s] \notin {"settle", "wipeEtcd", "failed", "reset", "unpack"} /\ s \notin Idle
  BY <1>1 DEF Succ, Idle
<1>4. CASE Succ[s] = "done"
  <2>1. todo' = {}
    BY <1>2, <1>4 DEF Work
  <2> QED
    BY <1>1, <1>2, <1>3, <1>4, <2>1 DEF LoopInv, Idle
<1>5. CASE Succ[s] # "done"
  <2>1. Work(Succ[s])' = Work(Succ[s])
    BY <1>2, <1>5, WorkSame
  <2>2. Loop(stage)' = Succ[s]
    BY <1>2, <1>3 DEF Loop
  <2>3. Work(Loop(stage))' = Work(Succ[s])'
    BY <2>2
  <2> QED
    BY <1>1, <1>2, <1>3, <1>5, <2>1, <2>3 DEF LoopInv, Idle
<1> QED
  BY <1>4, <1>5

LEMMA LoopNode ==
  ASSUME LoopInv, NEW n \in Node, OnNode(n) PROVE LoopInv'
<1>1. CASE ResetNode(n)
  BY <1>1 DEF LoopInv, ResetNode, Visit, callVars, Idle
<1>2. CASE RemoveKubePackages(n)
  BY <1>2 DEF LoopInv, RemoveKubePackages, Visit, IsFirst, callVars, Idle
<1>3. CASE \/ InstallKubePackages(n) \/ DistributeCerts(n) \/ StopEtcd(n) \/ WipeEtcd(n)
           \/ StartEtcd(n) \/ CheckEtcd(n) \/ UploadCerts(n) \/ InitFirstMaster(n)
           \/ AdminConf(n) \/ TransferKubeconfig(n)
  <2>1. /\ UNCHANGED <<targets, cmd, remote, need>> /\ todo' \in SUBSET todo
        /\ stage \notin Idle \cup {"reset", "unpack"}
        /\ stage' \notin Idle \cup {"reset", "unpack"} /\ Loop(stage') = Loop(stage)
    BY <1>3 DEF InstallKubePackages, DistributeCerts, StopEtcd, WipeEtcd, StartEtcd,
       CheckEtcd, UploadCerts, InitFirstMaster, AdminConf, TransferKubeconfig, Visit,
       Leave, callVars, Loop, Idle
  <2> QED
    BY <2>1, LoopFrame
<1>4. CASE \/ SetEnv(n) \/ WaitPods(n) \/ CreateToken(n) \/ JoinMaster(n)
           \/ SettleMaster(n) \/ JoinWorker(n) \/ FinalWait(n)
  <2>1. /\ UNCHANGED <<targets, cmd, remote, need>> /\ todo' \in SUBSET todo
        /\ stage \notin Idle \cup {"reset", "unpack"}
        /\ stage' \notin Idle \cup {"reset", "unpack"} /\ Loop(stage') = Loop(stage)
    BY <1>4 DEF SetEnv, WaitPods, CreateToken, JoinMaster, SettleMaster, JoinWorker,
       FinalWait, Visit, Leave, callVars, Loop, Idle
  <2> QED
    BY <2>1, LoopFrame
<1> QED
  BY <1>1, <1>2, <1>3, <1>4 DEF OnNode

LEMMA LoopStep == LoopInv /\ [Next]_vars => LoopInv'
<1> SUFFICES ASSUME LoopInv, [Next]_vars PROVE LoopInv'
  OBVIOUS
<1>1. CASE Operator
  BY <1>1, LoopStart DEF Operator
<1>2. CASE NextStage
  BY <1>2, LoopNextStage
<1>3. ASSUME NEW n \in Node, OnNode(n) PROVE LoopInv'
  BY <1>3, LoopNode
<1>4. ASSUME NEW who, End(who) PROVE LoopInv'
  BY <1>4 DEF End, LoopInv, callVars, Idle
<1>5. ASSUME NEW n \in Node, Lose(n) PROVE LoopInv'
  BY <1>5 DEF Lose, LoopInv, callVars, Idle
<1>6. CASE UNCHANGED vars
  <2>1. PICK s : s = Loop(stage)
    OBVIOUS
  <2>2. Work(s)' = Work(s) /\ Work(Loop(stage))' = Work(s)'
    BY <1>6, <2>1, WorkSame DEF vars, callVars
  <2> QED
    BY <1>6, <2>1, <2>2 DEF vars, callVars, LoopInv
<1> QED
  BY <1>1, <1>2, <1>3, <1>4, <1>5, <1>6 DEF Next, Program, CommandFails, Interrupt

LEMMA LoopAlways == Spec => []LoopInv
<1>1. Init => LoopInv
  BY DEF Init, LoopInv, Idle
<1> QED
  BY <1>1, LoopStep, PTL DEF Spec

\* A loop that changes the nodes it visits visits nodes of the run.
LEMMA VisitsTargets ==
  ASSUME TypeOK, LoopInv, NEW n \in todo,
         stage \notin Idle \cup {"checkEtcd", "upload", "env", "waitPods", "token", "finish"}
  PROVE  n \in targets
<1>1. TargetMasters \subseteq targets /\ TargetWorkers \subseteq targets
  BY DEF TargetMasters, TargetWorkers
<1>2. Founding => FirstMaster \in targets
  BY <1>1, FirstIn DEF Founding, FirstMaster, TypeOK
<1>3. CASE stage \in {"reset", "unpack"}
  BY <1>3 DEF LoopInv
<1>4. CASE stage \notin {"reset", "unpack"}
  <2>1. n \in Work(Loop(stage))
    BY <1>4 DEF LoopInv
  <2> QED
    BY <1>1, <1>2, <1>4, <2>1 DEF Work, Loop, LoopInv, TypeOK, Stage, Succ
<1> QED
  BY <1>3, <1>4

(* --------------- nodes a run is not about, and clusters ---------------- *)

\* A step leaves the nodes the run is not about as they are.
OthersAlone ==
  \A n \in Node \ targets :
    /\ member'[n] = member[n] /\ procs'[n] = procs[n] /\ conf'[n] = conf[n]
    /\ ca'[n] = ca[n] /\ data'[n] = data[n] /\ etcd'[n] = etcd[n]
    /\ kubeadmCfg'[n] = kubeadmCfg[n]

\* A step leaves a cluster as it is, but for a node of the run that joins it.
OnlyGrows(c) ==
  /\ store'[c] = store[c]
  /\ \/ registered'[c] = registered[c]
     \/ \E n \in targets : registered'[c] = registered[c] \cup {n} /\ procs'[n] = c

LEMMA BootstrapOthers ==
  ASSUME TypeOK, NEW n \in Node, Bootstrap(n)
  PROVE  \A m \in Node \ {n} : data'[m] = data[m] /\ etcd'[m] = etcd[m]
BY DEF Bootstrap, TypeOK

LEMMA RunStep ==
  ASSUME TypeOK, LoopInv, stage \notin Idle, Next
  PROVE  OthersAlone /\ \A c \in Ids \ {run} : OnlyGrows(c)
<1>1. ASSUME UNCHANGED <<nodeVars, store, registered>> PROVE OthersAlone /\ \A c \in Ids : OnlyGrows(c)
  BY <1>1 DEF OthersAlone, OnlyGrows, nodeVars
<1>2. CASE NextStage \/ CommandFails \/ Interrupt
  BY <1>1, <1>2 DEF NextStage, CommandFails, Interrupt, End, clusterVars
<1>3. ASSUME NEW n \in Node, OnNode(n)
      PROVE  OthersAlone /\ \A c \in Ids \ {run} : OnlyGrows(c)
  <2>1. CASE CheckEtcd(n) \/ UploadCerts(n) \/ SetEnv(n) \/ WaitPods(n) \/ CreateToken(n)
             \/ FinalWait(n)
    BY <1>1, <2>1 DEF CheckEtcd, UploadCerts, SetEnv, WaitPods, CreateToken, FinalWait, clusterVars
  <2>2. ASSUME ~(CheckEtcd(n) \/ UploadCerts(n) \/ SetEnv(n) \/ WaitPods(n) \/ CreateToken(n)
                 \/ FinalWait(n))
        PROVE  n \in targets
    <3>1. n \in todo /\ stage \notin Idle \cup {"checkEtcd", "upload", "env", "waitPods", "token", "finish"}
      BY <1>3, <2>2 DEF OnNode, ResetNode, RemoveKubePackages, InstallKubePackages,
         DistributeCerts, StopEtcd, WipeEtcd, StartEtcd, InitFirstMaster, AdminConf,
         TransferKubeconfig, JoinMaster, SettleMaster, JoinWorker, Visit, IsFirst, Idle
    <3> QED
      BY <3>1, VisitsTargets
  <2>3. CASE ResetNode(n) \/ RemoveKubePackages(n) \/ InstallKubePackages(n)
             \/ DistributeCerts(n) \/ StopEtcd(n) \/ WipeEtcd(n) \/ AdminConf(n)
             \/ TransferKubeconfig(n) \/ SettleMaster(n)
    <3>1. UNCHANGED <<store, registered>>
      BY <2>3 DEF ResetNode, RemoveKubePackages, InstallKubePackages, DistributeCerts, StopEtcd,
         WipeEtcd, AdminConf, TransferKubeconfig, SettleMaster, clusterVars
    <3>2. n \in targets
      BY <2>2, <2>3 DEF ResetNode, RemoveKubePackages, InstallKubePackages, DistributeCerts,
         StopEtcd, WipeEtcd, AdminConf, TransferKubeconfig, SettleMaster, CheckEtcd, UploadCerts,
         SetEnv, WaitPods, CreateToken, FinalWait, Visit
    <3>3. OthersAlone
      BY <2>3, <3>2
         DEF ResetNode, RemoveKubePackages, InstallKubePackages, DistributeCerts, StopEtcd,
         WipeEtcd, AdminConf, TransferKubeconfig, SettleMaster, OthersAlone, TypeOK
    <3> QED
      BY <3>1, <3>3 DEF OnlyGrows
  <2>4. CASE StartEtcd(n)
    <3>1. n \in targets
      BY <2>2, <2>4 DEF StartEtcd, CheckEtcd, UploadCerts, SetEnv, WaitPods, CreateToken,
         FinalWait, Visit
    <3> QED
      BY <2>4, <3>1, BootstrapOthers DEF StartEtcd, OthersAlone, OnlyGrows, clusterVars
  <2>5. CASE InitFirstMaster(n)
    <3>1. n \in targets
      BY <2>2, <2>5 DEF InitFirstMaster, CheckEtcd, UploadCerts, SetEnv, WaitPods, CreateToken,
         FinalWait, Visit
    <3>2. OthersAlone
      BY <2>5, <3>1 DEF InitFirstMaster, OthersAlone, TypeOK
    <3> QED
      BY <2>5, <3>2 DEF InitFirstMaster, OnlyGrows, TypeOK
  <2>6. ASSUME NEW d \in Ids, Join(n, d), n \in targets,
               UNCHANGED <<conf, kubeadmCfg, ca, data, etcd, store>>
        PROVE  OthersAlone /\ \A c \in Ids : OnlyGrows(c)
    BY <2>6 DEF Join, OthersAlone, OnlyGrows, TypeOK
  <2>7. CASE JoinMaster(n) \/ JoinWorker(n)
    <3>1. n \in targets
      BY <2>2, <2>7 DEF JoinMaster, JoinWorker, CheckEtcd, UploadCerts, SetEnv, WaitPods,
         CreateToken, FinalWait, Visit
    <3>2. token \in Ids /\ member[FirstMaster] \in Ids
      BY FirstMasterIn DEF TypeOK
    <3> QED
      BY <2>6, <2>7, <3>1, <3>2 DEF JoinMaster, JoinWorker
  <2> QED
    BY <1>3, <2>1, <2>3, <2>4, <2>5, <2>7 DEF OnNode
<1> QED
  BY <1>2, <1>3
     DEF Next, Program, Operator, StartInstall, StartAdd, StartRecover, Start, Lose

\* A cluster answers as before when nothing it consists of changes, ...
LEMMA AliveSame ==
  ASSUME UNCHANGED <<procs, data, etcd, store, registered>>
  PROVE  \A c \in Ids, S \in SUBSET Masters : AliveOn(c, S)' <=> AliveOn(c, S)
BY DEF AliveOn

LEMMA MastersFinite ==
  /\ IsFiniteSet(Masters) /\ Cardinality(Masters) \in Nat
  /\ \A S \in SUBSET Masters : IsFiniteSet(S) /\ Cardinality(S) \in Nat
<1>1. IsFiniteSet(Masters)
  BY NodeAssumption, FS_Subset
<1>2. \A S \in SUBSET Masters : IsFiniteSet(S)
  BY <1>1, FS_Subset
<1> QED
  BY <1>1, <1>2, FS_CardinalityType

\* ... and still does when masters join it while those it answers on stay.
LEMMA AliveKept ==
  ASSUME TypeOK, TypeOK', NEW c \in Ids, NEW S \in SUBSET Masters, AliveOn(c, S),
         \A m \in S : /\ procs[m] = c => procs'[m] = c
                      /\ data'[m] = data[m] /\ etcd'[m] = etcd[m],
         store'[c] = store[c],
         \/ registered'[c] = registered[c]
         \/ \E n \in Node : registered'[c] = registered[c] \cup {n} /\ procs'[n] = c
  PROVE  Alive(c)'
<1>1. c # 0 /\ \E m \in Masters : procs'[m] = c
  BY DEF AliveOn
<1>2. CASE store[c] # 0
  <2>1. PICK k \in Ids \ {0} :
          2 * Cardinality({m \in S : data[m] = store[c] /\ etcd[m] = k}) > Cardinality(Masters)
    BY <1>2 DEF AliveOn
  <2> DEFINE A == {m \in S : data[m] = store[c] /\ etcd[m] = k}
             B == {m \in Masters : data'[m] = store'[c] /\ etcd'[m] = k}
  <2>2. A \in SUBSET B /\ B \in SUBSET Masters
    OBVIOUS
  <2>3. /\ Cardinality(A) <= Cardinality(B)
        /\ Cardinality(A) \in Nat /\ Cardinality(B) \in Nat /\ Cardinality(Masters) \in Nat
    BY <2>2, MastersFinite, FS_Subset
  <2>4. 2 * Cardinality(B) > Cardinality(Masters)
    BY <2>1, <2>3
  <2> QED
    BY <1>1, <1>2, <2>4 DEF Alive, AliveOn
<1>3. CASE store[c] = 0
  <2> DEFINE A == {m \in registered[c] \cap S : procs[m] = c}
             B == {m \in registered'[c] \cap Masters : procs'[m] = c}
             D == registered[c] \cap Masters
             E == registered'[c] \cap Masters
  <2>1. 2 * Cardinality(A) > Cardinality(D)
    BY <1>3 DEF AliveOn
  <2>2. A \in SUBSET B /\ B \in SUBSET Masters /\ D \in SUBSET Masters /\ E \in SUBSET Masters
    OBVIOUS
  <2>3. /\ IsFiniteSet(A) /\ IsFiniteSet(B) /\ IsFiniteSet(D) /\ IsFiniteSet(E)
        /\ Cardinality(A) <= Cardinality(B) /\ Cardinality(A) \in Nat
        /\ Cardinality(B) \in Nat /\ Cardinality(D) \in Nat
    BY <2>2, MastersFinite, FS_Subset
  <2>4. CASE E = D
    <3>1. Cardinality(E) = Cardinality(D)
      BY <2>4
    <3>2. 2 * Cardinality(B) > Cardinality(E)
      BY <2>1, <2>3, <3>1
    <3> QED
      BY <1>1, <1>3, <3>2 DEF Alive, AliveOn
  <2>5. CASE E # D
    <3>1. PICK n \in Masters : n \notin D /\ E = D \cup {n} /\ procs'[n] = c
      BY <2>5
    <3>2. n \notin A /\ A \cup {n} \in SUBSET B
      BY <3>1
    <3>3. Cardinality(E) = Cardinality(D) + 1
      BY <2>3, <3>1, FS_AddElement
    <3>4. Cardinality(A \cup {n}) = Cardinality(A) + 1
      BY <2>3, <3>2, FS_AddElement
    <3>5. Cardinality(A \cup {n}) <= Cardinality(B)
      BY <2>3, <3>2, FS_Subset
    <3>6. 2 * Cardinality(B) > Cardinality(E)
      BY <2>1, <2>3, <3>3, <3>4, <3>5
    <3> QED
      BY <1>1, <1>3, <3>6 DEF Alive, AliveOn
  <2> QED
    BY <2>4, <2>5
<1> QED
  BY <1>2, <1>3

(* ---------------------- a run and what came before --------------------- *)

\* What carries the number of the run belongs to the nodes of the run.
IdInv ==
  /\ \A n \in Node : member[n] <= run /\ procs[n] <= run
  /\ token <= run
  /\ stage \notin Idle => \A n \in Node \ targets : procs[n] # run

LEMMA IdStep == TypeInv /\ LoopInv /\ IdInv /\ [Next]_vars => IdInv'
<1> SUFFICES ASSUME TypeInv, LoopInv, IdInv, [Next]_vars PROVE IdInv'
  OBVIOUS
<1> USE DEF TypeInv
<1>t. run \in Nat /\ 0 <= run
  BY DEF TypeOK, Ids
<1>1. ASSUME NEW k, NEW T, NEW r, Start(k, T, r) PROVE IdInv'
  <2>1. run' = run + 1 /\ UNCHANGED <<member, procs, token>>
    BY <1>1 DEF Start
  <2>2. \A x \in Nat : x <= run => x <= run + 1 /\ x # run + 1
    BY <1>t
  <2>3. token \in Nat /\ \A n \in Node : member[n] \in Nat /\ procs[n] \in Nat
    BY DEF TypeOK, Ids
  <2> QED
    BY <2>1, <2>2, <2>3 DEF IdInv
<1>2. ASSUME UNCHANGED <<member, procs, run>>, token' \in {0, token},
             stage' \in Idle \/ (stage \notin Idle /\ targets' = targets)
      PROVE  IdInv'
  BY <1>2, <1>t DEF IdInv
<1>3. CASE NextStage \/ CommandFails \/ Interrupt
  <2>1. CASE NextStage
    <3>1. UNCHANGED <<member, procs, run, targets>> /\ token' \in {0, token} /\ stage \notin Idle
      BY <2>1 DEF NextStage, nodeVars, callVars, Succ, Idle
    <3> QED
      BY <1>2, <3>1
  <2>2. CASE CommandFails \/ Interrupt
    BY <1>2, <2>2 DEF CommandFails, Interrupt, End, nodeVars, callVars, Idle
  <2> QED
    BY <1>3, <2>1, <2>2
<1>4. ASSUME NEW n \in Node, Lose(n) PROVE IdInv'
  BY <1>4, <1>t DEF Lose, IdInv, TypeOK, callVars
<1>5. ASSUME NEW n \in Node, OnNode(n) PROVE IdInv'
  <2>1. OthersAlone /\ stage \notin Idle
    <3>1. stage \notin Idle
      BY <1>5 DEF OnNode, ResetNode, RemoveKubePackages, InstallKubePackages, DistributeCerts,
         StopEtcd, WipeEtcd, StartEtcd, CheckEtcd, UploadCerts, InitFirstMaster, AdminConf,
         TransferKubeconfig, SetEnv, WaitPods, CreateToken, JoinMaster, SettleMaster,
         JoinWorker, FinalWait, Visit, Idle
    <3> QED
      BY <1>5, <3>1, RunStep DEF Next, Program
  <2>2. run' = run /\ targets' = targets
    BY <1>5 DEF OnNode, ResetNode, RemoveKubePackages, InstallKubePackages, DistributeCerts,
       StopEtcd, WipeEtcd, StartEtcd, CheckEtcd, UploadCerts, InitFirstMaster, AdminConf,
       TransferKubeconfig, SetEnv, WaitPods, CreateToken, JoinMaster, SettleMaster,
       JoinWorker, FinalWait, Visit, callVars
  <2>3. \A m \in Node \ targets' : procs'[m] # run'
    BY <2>1, <2>2 DEF OthersAlone, IdInv
  <2>4. token' <= run'
    <3>1. token' = token \/ token' = member[n]
      BY <1>5 DEF OnNode, ResetNode, RemoveKubePackages, InstallKubePackages, DistributeCerts,
         StopEtcd, WipeEtcd, StartEtcd, CheckEtcd, UploadCerts, InitFirstMaster, AdminConf,
         TransferKubeconfig, SetEnv, WaitPods, CreateToken, JoinMaster, SettleMaster,
         JoinWorker, FinalWait
    <3> QED
      BY <2>2, <3>1 DEF IdInv
  <2>5. \A m \in Node : member'[m] <= run' /\ procs'[m] <= run'
    <3>1. ASSUME NEW m \in Node PROVE /\ member'[m] \in {member[m], 0, run, token, member[FirstMaster]}
                                      /\ procs'[m] \in {procs[m], 0, run, token, member[FirstMaster]}
      BY <1>5 DEF OnNode, ResetNode, RemoveKubePackages, InstallKubePackages, DistributeCerts,
         StopEtcd, WipeEtcd, StartEtcd, CheckEtcd, UploadCerts, InitFirstMaster, AdminConf,
         TransferKubeconfig, SetEnv, WaitPods, CreateToken, JoinMaster, SettleMaster,
         JoinWorker, FinalWait, Join, nodeVars, TypeOK
    <3>2. /\ member[FirstMaster] <= run /\ token <= run
          /\ \A m \in Node : member[m] <= run /\ procs[m] <= run
      BY FirstMasterIn DEF IdInv
    <3>3. run <= run
      BY <1>t
    <3>4. ASSUME NEW m \in Node PROVE member'[m] <= run /\ procs'[m] <= run
      <4>1. member'[m] <= run
        BY <1>t, <3>1, <3>2, <3>3
      <4>2. procs'[m] <= run
        BY <1>t, <3>1, <3>2, <3>3
      <4> QED
        BY <4>1, <4>2
    <3> QED
      BY <2>2, <3>4
  <2> QED
    BY <2>2, <2>3, <2>4, <2>5 DEF IdInv
<1>6. CASE UNCHANGED vars
  BY <1>6 DEF vars, nodeVars, callVars, IdInv
<1> QED
  BY <1>1, <1>3, <1>4, <1>5, <1>6
     DEF Next, Program, Operator, StartInstall, StartAdd, StartRecover

LEMMA RunsAlways == Spec => [](TypeInv /\ LoopInv /\ IdInv)
<1>1. Init => IdInv
  BY DEF Init, IdInv, Idle
<1>2. Spec => []TypeInv
  BY TypeInit, TypeNext, PTL DEF Spec
<1> QED
  BY <1>1, <1>2, LoopAlways, IdStep, PTL DEF Spec

\* Whatever `add node` and `recover node` do, and wherever they are cut short:
\* a cluster that answers on the other masters goes on answering.
THEOREM Survives == Spec => ClusterSurvives
<1> DEFINE Safe == stage \notin Idle /\ cmd # "install" =>
              \A c \in Ids : AliveOn(c, Masters \ targets) => Alive(c)'
<1>1. ASSUME TypeInv, TypeInv', LoopInv, IdInv, Next, stage \notin Idle, NEW c \in Ids,
             AliveOn(c, Masters \ targets)
      PROVE  Alive(c)'
  <2>1. PICK m \in Masters \ targets : procs[m] = c
    BY <1>1 DEF AliveOn
  <2>2. c # run
    BY <1>1, <2>1, NodeAssumption DEF IdInv
  <2>3. OthersAlone /\ OnlyGrows(c)
    BY <1>1, <2>2, RunStep DEF TypeInv
  <2>4. \A k \in Masters \ targets : /\ procs[k] = c => procs'[k] = c
                                     /\ data'[k] = data[k] /\ etcd'[k] = etcd[k]
    BY <2>3, NodeAssumption DEF OthersAlone
  <2>5. store'[c] = store[c]
    BY <2>3 DEF OnlyGrows
  <2>6. \/ registered'[c] = registered[c]
        \/ \E n \in Node : registered'[c] = registered[c] \cup {n} /\ procs'[n] = c
    BY <1>1, <2>3 DEF OnlyGrows, TypeInv, TypeOK
  <2> QED
    BY <1>1, <2>4, <2>5, <2>6, AliveKept DEF TypeInv
<1>2. ASSUME UNCHANGED vars, TypeInv, TypeInv', NEW c \in Ids, AliveOn(c, Masters \ targets)
      PROVE  Alive(c)'
  <2>1. UNCHANGED <<procs, data, etcd, store, registered>>
    BY <1>2 DEF vars, nodeVars, clusterVars
  <2> QED
    BY <1>2, <2>1, AliveKept DEF TypeInv
<1>3. TypeInv /\ TypeInv' /\ LoopInv /\ IdInv /\ [Next]_vars => [Safe]_vars
  BY <1>1, <1>2
<1> QED
  BY <1>3, RunsAlways, PTL DEF Spec, ClusterSurvives

(* ------------------------ what a run makes of a node ------------------- *)

\* The stages from kubeadm init on, and parts of them.
AfterAdmin == {"kubeconfig", "env", "waitPods", "token", "joinMaster", "settle",
               "joinWorker", "finish"}
AfterInit  == AfterAdmin \cup {"admin"}
Late       == AfterInit \cup {"init"}
Joins      == {"joinMaster", "settle", "joinWorker", "finish"}

\* The nodes the loop of these stages has still to visit.
Pending(S) == IF stage \in S THEN todo ELSE {}

\* The founding of the cluster, or of the admin's kubeconfig, lies behind.
InitDone  == Founding /\ (stage \in AfterInit \/ (stage = "init" /\ todo = {}))
AdminDone == Founding /\ (stage \in AfterAdmin \/ (stage = "admin" /\ todo = {}))

\* A node of the run that has not joined yet is in no cluster.
UnjoinedInv ==
  /\ stage \in {"init", "admin", "kubeconfig", "env", "waitPods", "token"} =>
       \A n \in targets : member[n] = 0 \/ (InitDone /\ n = FirstMaster)
  /\ stage = "joinMaster" => \A n \in todo \cup TargetWorkers : member[n] = 0
  /\ stage = "settle" =>
       /\ \A n \in TargetWorkers : member[n] = 0
       /\ \A n \in todo : ~IsFirst(n, todo) => member[n] = 0
  /\ stage = "joinWorker" => \A n \in todo : member[n] = 0

\* The cluster of a node that has joined answers.
AliveInv == stage \in Late => \A n \in targets : member[n] # 0 => Alive(member[n])

\* The kubeconfig of a master leads to its own cluster.
ConfOwn == \A m \in Masters : conf[m] \in {0, member[m]}

\* The first master of a new cluster is that of the run, and the workers have
\* the kubeconfig of the first master.
FoundingInv ==
  /\ InitDone => /\ member[FirstMaster] = run /\ run # 0
                 /\ certKey = run /\ secret[run] = run
  /\ AdminDone => conf[FirstMaster] = run
  /\ stage \in AfterAdmin =>
       \A n \in TargetWorkers \ Pending({"kubeconfig"}) :
         conf[n] = conf[FirstMaster] /\ conf[n] # 0

\* Nodes that have joined are in the cluster of the first master.
JoinedInv ==
  /\ stage = "token" /\ Multi /\ todo = {} => token = member[FirstMaster]
  /\ stage \in {"joinMaster", "settle"} /\ Multi => token = member[FirstMaster]
  /\ stage = "settle" => \A n \in todo : IsFirst(n, todo) => member[n] = token /\ token # 0
  /\ stage \in Joins =>
       \A n \in Work("joinMaster") \ Pending({"joinMaster", "settle"}) :
         member[n] = member[FirstMaster] /\ conf[n] = member[n] /\ member[n] # 0
  /\ stage \in {"joinWorker", "finish"} =>
       \A n \in TargetWorkers \ Pending({"joinWorker"}) :
         member[n] = member[FirstMaster] /\ member[n] # 0

RunInv == UnjoinedInv /\ AliveInv /\ FoundingInv /\ JoinedInv
RunsIn == TypeInv /\ LoopInv /\ MembersIn

\* The commands before kubeadm init, and the other ones.
Early(n) ==
  \/ ResetNode(n) \/ RemoveKubePackages(n) \/ InstallKubePackages(n)
  \/ DistributeCerts(n) \/ StopEtcd(n) \/ WipeEtcd(n) \/ StartEtcd(n)
  \/ CheckEtcd(n) \/ UploadCerts(n)

LEMMA CallSame ==
  ASSUME UNCHANGED <<targets, cmd>>
  PROVE  /\ TargetMasters' = TargetMasters /\ TargetWorkers' = TargetWorkers
         /\ FirstMaster' = FirstMaster /\ (Founding' <=> Founding)
         /\ (Multi' <=> Multi) /\ (Recovery' <=> Recovery)
         /\ Work("joinMaster")' = Work("joinMaster")
BY DEF TargetMasters, TargetWorkers, FirstMaster, Founding, Multi, Recovery, Work

LEMMA NotLate == ASSUME stage' \notin Late PROVE RunInv'
BY DEF RunInv, UnjoinedInv, AliveInv, FoundingInv, JoinedInv, InitDone, AdminDone,
       Late, AfterInit, AfterAdmin, Joins

\* Who is the first master, and who is not.
LEMMA FirstFacts ==
  ASSUME RunsIn
  PROVE  /\ FirstMaster \in Masters /\ FirstMaster \in Node /\ FirstMaster \notin TargetWorkers
         /\ Founding => FirstMaster \in targets /\ FirstMaster \notin Work("joinMaster")
         /\ Work("joinMaster") \subseteq TargetMasters
         /\ TargetMasters \subseteq Masters /\ TargetWorkers \cap Masters = {}
         /\ Recovery => TargetWorkers = {} /\ TargetMasters = targets
<1>1. FirstMaster \in Masters
  BY FirstMasterMaster DEF RunsIn, MembersIn
<1>2. Founding => FirstMaster \in targets
  <2>1. TargetMasters \in SUBSET Node
    BY DEF TargetMasters, RunsIn, TypeInv, TypeOK
  <2>2. Founding => FirstMaster \in TargetMasters
    BY <2>1, FirstIn DEF Founding, FirstMaster
  <2> QED
    BY <2>2 DEF TargetMasters
<1>3. Recovery => targets \subseteq Masters
  BY NodeAssumption DEF RunsIn, LoopInv, Recovery
<1> QED
  BY <1>1, <1>2, <1>3, NodeAssumption DEF TargetMasters, TargetWorkers, Work, Founding

\* Commands that change neither membership nor what clusters live on.
LEMMA AliveFrame ==
  ASSUME RunsIn, AliveInv, stage \in Late,
         UNCHANGED <<member, procs, data, etcd, store, registered, targets>>
  PROVE  AliveInv'
<1>1. ASSUME NEW n \in targets', member'[n] # 0 PROVE Alive(member[n])'
  <2>1. PICK c \in Ids : c = member[n] /\ c = member'[n]
    BY <1>1 DEF RunsIn, TypeInv, TypeOK
  <2>2. Alive(c)
    BY <1>1, <2>1 DEF AliveInv
  <2>3. Alive(c)'
    BY <2>2, AliveSame DEF Alive
  <2> QED
    BY <2>1, <2>3
<1> QED
  BY <1>1 DEF AliveInv

LEMMA AliveJoins ==
  ASSUME RunsIn, TypeOK', AliveInv, stage \in Late, NEW n \in Node, NEW d \in Ids,
         Join(n, d), Alive(d), member[n] = 0,
         UNCHANGED <<data, etcd, store, targets>>
  PROVE  AliveInv'
<1>1. /\ procs = member /\ d # 0
      /\ member' = [member EXCEPT ![n] = d] /\ procs' = [procs EXCEPT ![n] = d]
      /\ registered' = [registered EXCEPT ![d] = @ \cup {n}]
  BY DEF RunsIn, MembersIn, MemberInv, Join, Alive, AliveOn
<1>2. ASSUME NEW e \in Ids, Alive(e) PROVE Alive(e)'
  <2>1. e # 0
    BY <1>2 DEF Alive, AliveOn
  <2>2. \A m \in Masters : procs[m] = e => procs'[m] = e
    BY <1>1, <2>1, NodeAssumption DEF RunsIn, TypeInv, TypeOK
  <2>3. \/ registered'[e] = registered[e]
        \/ \E k \in Node : registered'[e] = registered[e] \cup {k} /\ procs'[k] = e
    BY <1>1 DEF RunsIn, TypeInv, TypeOK
  <2> QED
    BY <1>2, <2>2, <2>3, AliveKept DEF Alive, RunsIn, TypeInv
<1>3. ASSUME NEW k \in targets', member'[k] # 0 PROVE Alive(member[k])'
  <2>1. PICK e \in Ids : e = member'[k]
    BY <1>3 DEF RunsIn, TypeInv, TypeOK
  <2>2. Alive(e)
    BY <1>1, <1>3, <2>1 DEF AliveInv, RunsIn, TypeInv, TypeOK
  <2>3. Alive(e)'
    BY <1>2, <2>2
  <2> QED
    BY <2>1, <2>3
<1> QED
  BY <1>3 DEF AliveInv

\* A master that founds a cluster answers for it at once.
LEMMA AliveFounds ==
  ASSUME RunsIn, TypeOK', AliveInv, NEW n \in Node, InitFirstMaster(n),
         \A k \in targets : member[k] = 0
  PROVE  AliveInv'
<1>1. /\ stage = "init" /\ n \in todo /\ Ready("init", n) /\ targets' = targets
      /\ member' = [member EXCEPT ![n] = run] /\ procs' = [procs EXCEPT ![n] = run]
      /\ registered' = [registered EXCEPT ![run] = {n}] /\ UNCHANGED <<ca, data, etcd>>
  BY DEF InitFirstMaster, Visit, IsFirst, callVars
<1>2. n \in Masters /\ run # 0 /\ run \in Ids
  BY <1>1, FirstFacts DEF RunsIn, MembersIn, MemberInv, FirstInv, FoundedInv, Idle, TypeInv, TypeOK
<1>3. PICK c \in Ids : c = run
  BY <1>2
<1>4. procs'[n] = c /\ registered'[c] = {n}
  BY <1>1, <1>2, <1>3 DEF RunsIn, TypeInv, TypeOK
<1>5. Alive(c)'
  <2>1. CASE Multi
    <3>1. ca[n] # 0 /\ ca[n] \in Ids
      BY <1>1, <2>1 DEF Ready, EtcdAnswers, RunsIn, TypeInv, TypeOK
    <3>2. PICK d \in Ids : EtcdQuorum(d, ca[n]) /\ store' = [store EXCEPT ![run] = d]
      BY <2>1 DEF InitFirstMaster
    <3>3. store'[c] = d /\ d # 0
      BY <1>3, <3>2 DEF EtcdQuorum, RunsIn, TypeInv, TypeOK
    <3>4. 2 * Cardinality({m \in Masters : data'[m] = store'[c] /\ etcd'[m] = ca[n]})
            > Cardinality(Masters)
      BY <1>1, <3>2, <3>3 DEF EtcdQuorum
    <3> QED
      BY <1>2, <1>3, <1>4, <3>1, <3>3, <3>4 DEF Alive, AliveOn
  <2>2. CASE ~Multi
    <3>1. store'[c] = 0
      BY <1>3, <2>2 DEF InitFirstMaster, RunsIn, TypeInv, TypeOK
    <3>2. /\ {m \in registered'[c] \cap Masters : procs'[m] = c} = {n}
          /\ registered'[c] \cap Masters = {n}
      BY <1>2, <1>4
    <3>3. Cardinality({n}) = 1
      BY FS_Singleton
    <3>4. 2 * Cardinality({n}) > Cardinality({n})
      BY <3>3
    <3> QED
      BY <1>2, <1>3, <1>4, <3>1, <3>2, <3>4 DEF Alive, AliveOn
  <2> QED
    BY <2>1, <2>2
<1>6. ASSUME NEW k \in targets', member'[k] # 0 PROVE Alive(member[k])'
  <2>1. member'[k] = c
    BY <1>1, <1>3, <1>6 DEF RunsIn, TypeInv, TypeOK
  <2> QED
    BY <1>5, <2>1
<1> QED
  BY <1>6 DEF AliveInv

LEMMA SuccOnly ==
  \A s \in DOMAIN Succ :
    /\ Succ[s] = "joinMaster" => s = "token"
    /\ Succ[s] = "joinWorker" => s = "joinMaster"
    /\ Succ[s] = "finish" => s = "joinWorker"
    /\ Succ[s] = "done" => s = "finish"
    /\ Succ[s] # "failed"
BY DEF Succ

LEMMA RunNextStage == ASSUME RunsIn, RunInv, NextStage PROVE RunInv'
<1>1. PICK s \in DOMAIN Succ : stage = s
  BY DEF NextStage
<1>2. /\ stage' = Succ[s] /\ todo = {} /\ todo' = Work(Succ[s])
      /\ UNCHANGED <<nodeVars, clusterVars, run, cmd, targets>>
      /\ Succ[s] # "done" => UNCHANGED <<certKey, token>>
  BY <1>1 DEF NextStage, callVars
<1>3. CASE Succ[s] \notin Late
  BY <1>2, <1>3, NotLate
<1>4. CASE s = "upload"
  <2>1. stage' = "init" /\ \A n \in targets : member[n] = 0
    BY <1>1, <1>2, <1>4 DEF Succ, RunsIn, MembersIn, MemberInv, LeftInv, PreInit
  <2>2. ~InitDone' /\ ~AdminDone'
    BY <1>2, <2>1, CallSame DEF InitDone, AdminDone, Work, AfterInit, AfterAdmin
  <2>3. UnjoinedInv'
    BY <1>2, <2>1 DEF UnjoinedInv, nodeVars
  <2>4. AliveInv'
    BY <1>2, <2>1 DEF AliveInv, nodeVars
  <2>5. FoundingInv' /\ JoinedInv'
    BY <2>1, <2>2 DEF FoundingInv, JoinedInv, AfterAdmin, Joins
  <2> QED
    BY <2>3, <2>4, <2>5 DEF RunInv
<1>5. CASE Succ[s] \in Late /\ s # "upload"
  <2>1. /\ s \in Late /\ stage \notin Idle /\ UNCHANGED <<certKey, token>>
        /\ stage' \in AfterInit \ {"settle"}
    BY <1>1, <1>2, <1>5 DEF Succ, Late, AfterInit, AfterAdmin, Idle
  <2>2. AliveInv'
    BY <1>1, <1>2, <2>1, AliveFrame DEF RunInv, nodeVars, clusterVars
  <2>3. InitDone' => InitDone
    BY <1>1, <1>2, <2>1, CallSame DEF InitDone, Late
  <2>4. AdminDone' => AdminDone
    <3>1. stage' = "admin" => ~AdminDone'
      BY <1>2, CallSame DEF AdminDone, Work, AfterAdmin
    <3>2. stage' # "admin" => stage = "admin" \/ stage \in AfterAdmin
      BY <1>1, <1>2, <2>1 DEF Succ, Late, AfterInit, AfterAdmin
    <3> QED
      BY <1>2, <3>1, <3>2, CallSame DEF AdminDone
  <2>5. FoundingInv'
    <3>1. InitDone' => /\ member'[FirstMaster'] = run' /\ run' # 0
                       /\ certKey' = run' /\ secret'[run'] = run'
      BY <1>2, <2>1, <2>3, CallSame DEF RunInv, FoundingInv, nodeVars, clusterVars
    <3>2. AdminDone' => conf'[FirstMaster'] = run'
      BY <1>2, <2>4, CallSame DEF RunInv, FoundingInv, nodeVars
    <3>3. stage' = "kubeconfig" => TargetWorkers' \ Pending({"kubeconfig"})' = {}
      BY <1>2, CallSame DEF Work, Pending
    <3>4. stage' \in AfterAdmin /\ stage' # "kubeconfig" =>
            /\ stage \in AfterAdmin
            /\ TargetWorkers \ Pending({"kubeconfig"}) = TargetWorkers
      BY <1>1, <1>2 DEF Succ, AfterAdmin, Pending
    <3>5. stage' \in AfterAdmin =>
            \A n \in TargetWorkers' \ Pending({"kubeconfig"})' :
              conf'[n] = conf'[FirstMaster'] /\ conf'[n] # 0
      BY <1>2, <3>3, <3>4, CallSame DEF RunInv, FoundingInv, nodeVars
    <3> QED
      BY <3>1, <3>2, <3>5 DEF FoundingInv
  <2>6. UnjoinedInv'
    <3>1. stage' \in {"admin", "kubeconfig", "env", "waitPods", "token"} =>
            stage \in {"init", "admin", "kubeconfig", "env", "waitPods", "token"}
      BY <1>1, <1>2, <2>1 DEF Succ, Late, AfterInit, AfterAdmin
    <3>2. InitDone => InitDone'
      BY <1>1, <1>2, <2>1, CallSame DEF InitDone, Succ, Late, AfterInit, AfterAdmin
    <3>3. ASSUME stage' = "joinMaster", NEW n \in todo' \cup TargetWorkers'
          PROVE  member'[n] = 0
      <4>1. stage = "token" /\ n \in targets
        BY <1>1, <1>2, <3>3, SuccOnly, FirstFacts, CallSame DEF TargetMasters, TargetWorkers
      <4>2. Founding => n # FirstMaster
        BY <1>2, <3>3, FirstFacts, CallSame
      <4> QED
        BY <1>2, <4>1, <4>2 DEF RunInv, UnjoinedInv, InitDone, nodeVars
    <3>4. stage' = "joinWorker" => \A n \in todo' : member'[n] = 0
      <4>1. stage' = "joinWorker" => stage = "joinMaster" /\ todo' = TargetWorkers
        BY <1>1, <1>2, SuccOnly DEF Work
      <4> QED
        BY <1>2, <4>1 DEF RunInv, UnjoinedInv, nodeVars
    <3> QED
      BY <1>2, <2>1, <3>1, <3>2, <3>3, <3>4, CallSame
         DEF RunInv, UnjoinedInv, AfterInit, AfterAdmin, nodeVars
  <2>7. JoinedInv'
    <3>1. stage' = "token" /\ Multi' => todo' # {}
      BY <1>2, CallSame DEF Work
    <3>2. stage' = "joinMaster" => /\ stage = "token"
                                   /\ Work("joinMaster")' \ Pending({"joinMaster", "settle"})' = {}
      BY <1>1, <1>2, SuccOnly, CallSame DEF Pending
    <3>3. stage' = "joinWorker" => /\ stage = "joinMaster"
                                   /\ TargetWorkers' \ Pending({"joinWorker"})' = {}
                                   /\ Pending({"joinMaster", "settle"}) = {}
      BY <1>1, <1>2, SuccOnly, CallSame DEF Pending, Work
    <3>4. stage' = "finish" => /\ stage = "joinWorker"
                               /\ Pending({"joinWorker"}) = {} /\ Pending({"joinMaster", "settle"}) = {}
      BY <1>1, <1>2, SuccOnly DEF Pending
    <3>5. stage' = "joinMaster" /\ Multi' => token' = member'[FirstMaster']
      BY <1>2, <2>1, <3>2, CallSame DEF RunInv, JoinedInv, nodeVars
    <3>6. stage' \in Joins =>
            \A n \in Work("joinMaster")' \ Pending({"joinMaster", "settle"})' :
              member'[n] = member'[FirstMaster'] /\ conf'[n] = member'[n] /\ member'[n] # 0
      BY <1>2, <2>1, <3>2, <3>3, <3>4, CallSame DEF RunInv, JoinedInv, Joins, nodeVars
    <3>7. stage' \in {"joinWorker", "finish"} =>
            \A n \in TargetWorkers' \ Pending({"joinWorker"})' :
              member'[n] = member'[FirstMaster'] /\ member'[n] # 0
      BY <1>2, <2>1, <3>3, <3>4, CallSame DEF RunInv, JoinedInv, Joins, nodeVars
    <3> QED
      BY <2>1, <3>1, <3>5, <3>6, <3>7 DEF JoinedInv
  <2> QED
    BY <2>2, <2>5, <2>6, <2>7 DEF RunInv
<1> QED
  BY <1>3, <1>4, <1>5

\* The first master founds the cluster.
LEMMA RunFounds ==
  ASSUME RunsIn, TypeOK', RunInv, NEW n \in Node, InitFirstMaster(n) PROVE RunInv'
<1>1. /\ stage = "init" /\ stage' = "init" /\ n \in todo /\ todo' = todo \ {n}
      /\ UNCHANGED <<run, cmd, targets>> /\ stage \notin Idle
      /\ member' = [member EXCEPT ![n] = run] /\ certKey' = run
      /\ secret' = [secret EXCEPT ![run] = run]
  BY DEF InitFirstMaster, Visit, Leave, IsFirst, callVars, Idle
<1>2. n = FirstMaster /\ todo' = {} /\ Founding
  BY <1>1 DEF RunsIn, MembersIn, MemberInv, FirstInv, LoopInv, Idle, Loop, Work
<1>3. \A k \in targets : member[k] = 0
  BY <1>1, <1>2 DEF RunInv, UnjoinedInv, InitDone, AfterInit, AfterAdmin
<1>4. AliveInv'
  BY <1>3, AliveFounds DEF RunInv
<1>5. FirstMaster' = FirstMaster /\ InitDone' /\ ~AdminDone'
  BY <1>1, <1>2, CallSame DEF InitDone, AdminDone, AfterAdmin
<1>6. UnjoinedInv'
  BY <1>1, <1>2, <1>3, <1>5 DEF UnjoinedInv, RunsIn, TypeInv, TypeOK
<1>7. run # 0 /\ FirstMaster \in Node /\ run \in Ids
  BY <1>1, FirstFacts DEF RunsIn, MembersIn, MemberInv, FoundedInv, TypeInv, TypeOK
<1>8. FoundingInv'
  BY <1>1, <1>2, <1>5, <1>7 DEF FoundingInv, AfterAdmin, RunsIn, TypeInv, TypeOK
<1>9. JoinedInv'
  BY <1>1 DEF JoinedInv, Joins
<1> QED
  BY <1>4, <1>6, <1>8, <1>9 DEF RunInv

\* Steps that change no node's membership, nor the kubeconfigs in question.
LEMMA RunQuiet ==
  ASSUME RunsIn, RunInv, stage \in Late, stage' = stage, todo' \in SUBSET todo,
         UNCHANGED <<nodeVars, clusterVars, run, cmd, targets, certKey>>,
         stage \in {"env", "waitPods", "finish"}
  PROVE  RunInv'
<1>1. UnjoinedInv'
  BY CallSame DEF RunInv, UnjoinedInv, InitDone, AfterInit, AfterAdmin, nodeVars
<1>2. AliveInv'
  BY AliveFrame DEF RunInv, nodeVars, clusterVars
<1>3. FoundingInv'
  BY CallSame DEF RunInv, FoundingInv, InitDone, AdminDone, AfterInit, AfterAdmin, Pending,
     nodeVars, clusterVars
<1>4. JoinedInv'
  BY CallSame DEF RunInv, JoinedInv, Joins, Pending, nodeVars
<1> QED
  BY <1>1, <1>2, <1>3, <1>4 DEF RunInv

LEMMA RunToken ==
  ASSUME RunsIn, RunInv, NEW n \in Node, CreateToken(n) PROVE RunInv'
<1>1. /\ stage = "token" /\ stage' = "token" /\ n \in todo /\ todo' = todo \ {n}
      /\ UNCHANGED <<nodeVars, clusterVars, run, cmd, targets, certKey>> /\ token' = member[n]
  BY DEF CreateToken, Visit, Leave, IsFirst, callVars
<1>2. n = FirstMaster
  BY <1>1 DEF RunsIn, MembersIn, MemberInv, FirstInv
<1>3. UnjoinedInv'
  BY <1>1, CallSame DEF RunInv, UnjoinedInv, InitDone, AfterInit, AfterAdmin, nodeVars
<1>4. AliveInv'
  BY <1>1, AliveFrame DEF RunInv, nodeVars, clusterVars, Late, AfterInit, AfterAdmin
<1>5. FoundingInv'
  BY <1>1, CallSame DEF RunInv, FoundingInv, InitDone, AdminDone, AfterInit, AfterAdmin, Pending,
     nodeVars, clusterVars
<1>6. JoinedInv'
  BY <1>1, <1>2, CallSame DEF JoinedInv, Joins, nodeVars
<1> QED
  BY <1>3, <1>4, <1>5, <1>6 DEF RunInv

\* Steps that give a kubeconfig to a node.
LEMMA RunAdmin ==
  ASSUME RunsIn, RunInv, NEW n \in Node, AdminConf(n) PROVE RunInv'
<1>1. /\ stage = "admin" /\ stage' = "admin" /\ n \in todo /\ todo' = todo \ {n}
      /\ UNCHANGED <<member, procs, data, etcd, clusterVars, run, cmd, targets, certKey>>
      /\ conf' = [conf EXCEPT ![n] = member[n]]
  BY DEF AdminConf, Visit, Leave, IsFirst, callVars
<1>2. n = FirstMaster /\ Founding /\ FirstMaster \in Node
  BY <1>1, FirstFacts DEF RunsIn, LoopInv, Idle, Loop, Work
<1>3. UnjoinedInv'
  BY <1>1, CallSame DEF RunInv, UnjoinedInv, InitDone, AfterInit, AfterAdmin
<1>4. AliveInv'
  BY <1>1, AliveFrame DEF RunInv, clusterVars, Late, AfterInit, AfterAdmin
<1>5. InitDone /\ conf'[FirstMaster] = run
  BY <1>1, <1>2 DEF InitDone, AfterInit, RunInv, FoundingInv, RunsIn, TypeInv, TypeOK
<1>6. FoundingInv'
  BY <1>1, <1>5, CallSame DEF RunInv, FoundingInv, AfterAdmin, clusterVars
<1>7. JoinedInv'
  BY <1>1 DEF JoinedInv, Joins
<1> QED
  BY <1>3, <1>4, <1>6, <1>7 DEF RunInv

LEMMA RunTransfer ==
  ASSUME RunsIn, RunInv, NEW n \in Node, TransferKubeconfig(n) PROVE RunInv'
<1>1. /\ stage = "kubeconfig" /\ stage' = "kubeconfig" /\ n \in todo /\ todo' = todo \ {n}
      /\ UNCHANGED <<member, procs, data, etcd, clusterVars, run, cmd, targets, certKey>>
      /\ conf' = [conf EXCEPT ![n] = conf[FirstMaster]] /\ conf[FirstMaster] # 0
  BY DEF TransferKubeconfig, Visit, Leave, IsFirst, Ready, callVars
<1>2. n \in TargetWorkers /\ n # FirstMaster /\ FirstMaster \in Node
  BY <1>1, FirstFacts DEF RunsIn, LoopInv, Idle, Loop, Work
<1>3. UnjoinedInv'
  BY <1>1, CallSame DEF RunInv, UnjoinedInv, InitDone, AfterInit, AfterAdmin
<1>4. AliveInv'
  BY <1>1, AliveFrame DEF RunInv, clusterVars, Late, AfterInit, AfterAdmin
<1>5. conf'[FirstMaster] = conf[FirstMaster]
  BY <1>1, <1>2 DEF RunsIn, TypeInv, TypeOK
<1>6. /\ InitDone' => InitDone
      /\ AdminDone' => AdminDone
  BY <1>1, CallSame DEF InitDone, AdminDone, AfterInit, AfterAdmin
<1>7. \A k \in TargetWorkers' \ Pending({"kubeconfig"})' :
        conf'[k] = conf'[FirstMaster] /\ conf'[k] # 0
  <2>1. ASSUME NEW k \in TargetWorkers, k # n, k \notin todo
        PROVE  conf'[k] = conf[FirstMaster] /\ conf'[k] # 0
    BY <1>1, <2>1
       DEF RunInv, FoundingInv, AfterAdmin, Pending, TargetWorkers, RunsIn, TypeInv, TypeOK
  <2>2. conf'[n] = conf[FirstMaster]
    BY <1>1 DEF RunsIn, TypeInv, TypeOK
  <2> QED
    BY <1>1, <1>5, <2>1, <2>2, CallSame DEF Pending
<1>8. FoundingInv'
  BY <1>1, <1>5, <1>6, <1>7, CallSame DEF RunInv, FoundingInv, clusterVars
<1>9. JoinedInv'
  BY <1>1 DEF JoinedInv, Joins
<1> QED
  BY <1>3, <1>4, <1>8, <1>9 DEF RunInv

\* The loop over the masters that join.
LEMMA RunMaster ==
  ASSUME RunsIn, TypeOK', RunInv, NEW n \in Node, JoinMaster(n) PROVE RunInv'
<1>1. /\ stage = "joinMaster" /\ stage' = "settle" /\ IsFirst(n, todo) /\ n \in todo
      /\ UNCHANGED <<conf, data, etcd, store, secret, run, cmd, targets, todo, certKey, token>>
      /\ member[n] = 0 /\ Alive(token) /\ Join(n, token)
      /\ member' = [member EXCEPT ![n] = token]
  BY DEF JoinMaster, Visit, Ready, Clean, IsFirst, callVars, Join
<1>2. token # 0 /\ token = member[FirstMaster] /\ token \in Ids
  BY <1>1 DEF Alive, AliveOn, RunsIn, MembersIn, MemberInv, TokenInv, TypeInv, TypeOK
<1>3. n # FirstMaster /\ n \in Work("joinMaster") /\ n \in TargetMasters /\ n \notin TargetWorkers
  BY <1>1, <1>2, FirstFacts DEF RunsIn, LoopInv, Idle, Loop
<1>4. \A k \in Node : k # n => member'[k] = member[k]
  BY <1>1 DEF RunsIn, TypeInv, TypeOK
<1>5. FirstMaster \in Node /\ member'[FirstMaster] = member[FirstMaster] /\ member'[n] = token
  BY <1>1, <1>3, <1>4, FirstFacts DEF RunsIn, TypeInv, TypeOK
<1>6. UnjoinedInv'
  <2>1. \A k \in TargetWorkers : member'[k] = 0
    BY <1>1, <1>3, <1>4 DEF RunInv, UnjoinedInv, TargetWorkers, RunsIn, TypeInv, TypeOK
  <2>2. \A k \in todo : ~IsFirst(k, todo) => member'[k] = 0
    BY <1>1, <1>4 DEF RunInv, UnjoinedInv, RunsIn, TypeInv, TypeOK
  <2> QED
    BY <1>1, <2>1, <2>2, CallSame DEF UnjoinedInv
<1>7. AliveInv'
  BY <1>1, <1>2, AliveJoins DEF RunInv, Late, AfterInit, AfterAdmin
<1>8. /\ InitDone' => InitDone
      /\ AdminDone' => AdminDone
  BY <1>1, CallSame DEF InitDone, AdminDone, AfterInit, AfterAdmin
<1>9. FoundingInv'
  BY <1>1, <1>5, <1>8, CallSame DEF RunInv, FoundingInv, AfterAdmin, Pending
<1>10. JoinedInv'
  <2>1. \A k \in todo : IsFirst(k, todo) => k = n
    BY <1>1, FirstUnique DEF RunsIn, TypeInv, TypeOK
  <2>2. \A k \in Work("joinMaster") \ todo :
          member'[k] = member[FirstMaster] /\ conf'[k] = member'[k] /\ member'[k] # 0
    <3>1. Work("joinMaster") \subseteq Node
      BY FirstFacts DEF TargetMasters, RunsIn, TypeInv, TypeOK
    <3> QED
      BY <1>1, <1>4, <3>1 DEF RunInv, JoinedInv, Joins, Pending
  <2> QED
    BY <1>1, <1>2, <1>5, <2>1, <2>2, CallSame DEF JoinedInv, Joins, Pending
<1> QED
  BY <1>6, <1>7, <1>9, <1>10 DEF RunInv

LEMMA RunSettle ==
  ASSUME RunsIn, RunInv, NEW n \in Node, SettleMaster(n) PROVE RunInv'
<1>1. /\ stage = "settle" /\ stage' = "joinMaster" /\ IsFirst(n, todo) /\ n \in todo
      /\ todo' = todo \ {n} /\ conf' = [conf EXCEPT ![n] = member[n]]
      /\ UNCHANGED <<member, procs, data, etcd, clusterVars, run, cmd, targets, certKey, token>>
  BY DEF SettleMaster, Visit, IsFirst, callVars
<1>2. member[n] = token /\ token # 0 /\ token = member[FirstMaster]
  BY <1>1 DEF RunInv, JoinedInv, RunsIn, MembersIn, MemberInv, TokenInv
<1>3. /\ n \in Work("joinMaster") /\ n \in TargetMasters /\ n \notin TargetWorkers
      /\ FirstMaster \in Node
      /\ Founding => n # FirstMaster
  BY <1>1, FirstFacts DEF RunsIn, LoopInv, Idle, Loop
<1>4. \A k \in Node : k # n => conf'[k] = conf[k]
  BY <1>1 DEF RunsIn, TypeInv, TypeOK
<1>5. conf'[n] = member[n]
  BY <1>1 DEF RunsIn, TypeInv, TypeOK
<1>6. UnjoinedInv'
  <2>1. \A k \in todo \ {n} : ~IsFirst(k, todo)
    BY <1>1, FirstUnique DEF RunsIn, TypeInv, TypeOK
  <2> QED
    BY <1>1, <2>1, CallSame DEF RunInv, UnjoinedInv
<1>7. AliveInv'
  BY <1>1, AliveFrame DEF RunInv, clusterVars, Late, AfterInit, AfterAdmin
<1>8. /\ InitDone' => InitDone
      /\ AdminDone' => AdminDone
  BY <1>1, CallSame DEF InitDone, AdminDone, AfterInit, AfterAdmin
<1>9. FoundingInv'
  <2>1. n = FirstMaster => TargetWorkers = {}
    <3>1. Founding \/ Recovery \/ TargetMasters = {}
      BY DEF Founding
    <3> QED
      BY <1>3, <3>1, FirstFacts
  <2>2. TargetWorkers \subseteq Node
    BY DEF TargetWorkers, RunsIn, TypeInv, TypeOK
  <2>3. \A k \in TargetWorkers : conf'[k] = conf[FirstMaster] /\ conf'[k] # 0
    BY <1>1, <1>3, <1>4, <2>2 DEF RunInv, FoundingInv, AfterAdmin, Pending
  <2>4. \A k \in TargetWorkers : conf'[k] = conf'[FirstMaster] /\ conf'[k] # 0
    <3>1. CASE n = FirstMaster
      BY <2>1, <3>1
    <3>2. CASE n # FirstMaster
      <4>1. conf'[FirstMaster] = conf[FirstMaster]
        BY <1>3, <1>4, <3>2
      <4> QED
        BY <2>3, <4>1
    <3> QED
      BY <3>1, <3>2
  <2>5. AdminDone' => conf'[FirstMaster] = run
    <3>1. AdminDone => n # FirstMaster
      BY <1>3 DEF AdminDone
    <3>2. AdminDone => conf'[FirstMaster] = conf[FirstMaster]
      BY <1>3, <1>4, <3>1
    <3> QED
      BY <1>8, <3>2 DEF RunInv, FoundingInv
  <2> QED
    BY <1>1, <1>8, <2>4, <2>5, CallSame DEF RunInv, FoundingInv, AfterAdmin, Pending, clusterVars
<1>10. JoinedInv'
  <2>1. \A k \in Work("joinMaster") \ todo' :
          member[k] = member[FirstMaster] /\ conf'[k] = member[k] /\ member[k] # 0
    <3>1. Work("joinMaster") \subseteq Node
      BY FirstFacts DEF TargetMasters, RunsIn, TypeInv, TypeOK
    <3> QED
      BY <1>1, <1>2, <1>4, <1>5, <3>1 DEF RunInv, JoinedInv, Joins, Pending
  <2> QED
    BY <1>1, <1>2, <2>1, CallSame DEF JoinedInv, Joins, Pending
<1> QED
  BY <1>6, <1>7, <1>9, <1>10 DEF RunInv

LEMMA RunWorker ==
  ASSUME RunsIn, TypeOK', RunInv, NEW n \in Node, JoinWorker(n) PROVE RunInv'
<1>1. /\ stage = "joinWorker" /\ stage' = "joinWorker" /\ n \in todo /\ todo' = todo \ {n}
      /\ UNCHANGED <<conf, data, etcd, store, secret, run, cmd, targets, certKey, token>>
      /\ member[n] = 0 /\ Alive(member[FirstMaster]) /\ Join(n, member[FirstMaster])
      /\ member' = [member EXCEPT ![n] = member[FirstMaster]]
  BY DEF JoinWorker, Visit, Leave, Ready, Clean, IsFirst, callVars, Join
<1>2. /\ n \in TargetWorkers /\ n # FirstMaster /\ FirstMaster \in Node
      /\ member[FirstMaster] # 0 /\ member[FirstMaster] \in Ids
      /\ Work("joinMaster") \subseteq Node \ {n}
  BY <1>1, FirstFacts DEF RunsIn, LoopInv, Idle, Loop, Work, TypeInv, TypeOK, Alive, AliveOn,
     TargetMasters, TargetWorkers
<1>3. \A k \in Node : k # n => member'[k] = member[k]
  BY <1>1 DEF RunsIn, TypeInv, TypeOK
<1>4. member'[FirstMaster] = member[FirstMaster] /\ member'[n] = member[FirstMaster]
  BY <1>1, <1>2, <1>3 DEF RunsIn, TypeInv, TypeOK
<1>5. UnjoinedInv'
  BY <1>1, <1>3 DEF RunInv, UnjoinedInv, RunsIn, TypeInv, TypeOK
<1>6. AliveInv'
  BY <1>1, <1>2, AliveJoins DEF RunInv, Late, AfterInit, AfterAdmin
<1>7. /\ InitDone' => InitDone
      /\ AdminDone' => AdminDone
  BY <1>1, CallSame DEF InitDone, AdminDone, AfterInit, AfterAdmin
<1>8. FoundingInv'
  BY <1>1, <1>4, <1>7, CallSame DEF RunInv, FoundingInv, AfterAdmin, Pending
<1>9. JoinedInv'
  <2>1. TargetWorkers \subseteq Node
    BY DEF TargetWorkers, RunsIn, TypeInv, TypeOK
  <2>2. \A k \in TargetWorkers \ todo' : member'[k] = member[FirstMaster] /\ member'[k] # 0
    BY <1>1, <1>2, <1>3, <1>4, <2>1 DEF RunInv, JoinedInv, Pending
  <2>3. \A k \in Work("joinMaster") :
          member'[k] = member[FirstMaster] /\ conf'[k] = member'[k] /\ member'[k] # 0
    BY <1>1, <1>2, <1>3 DEF RunInv, JoinedInv, Joins, Pending
  <2> QED
    BY <1>1, <1>4, <2>2, <2>3, CallSame DEF JoinedInv, Joins, Pending
<1> QED
  BY <1>5, <1>6, <1>8, <1>9 DEF RunInv

LEMMA RunInvStep ==
  ASSUME RunsIn, TypeOK', RunInv, [Next]_vars PROVE RunInv'
<1>1. CASE Operator \/ CommandFails \/ Interrupt
  BY <1>1, NotLate DEF Operator, StartInstall, StartAdd, StartRecover, Start, CommandFails,
     Interrupt, End, Late, AfterInit, AfterAdmin
<1>2. CASE NextStage
  BY <1>2, RunNextStage
<1>3. ASSUME NEW n \in Node, Lose(n) PROVE RunInv'
  BY <1>3, NotLate DEF Lose, Idle, Late, AfterInit, AfterAdmin
<1>4. ASSUME NEW n \in Node, OnNode(n) PROVE RunInv'
  <2>1. CASE Early(n)
    <3>1. stage' \notin Late
      BY <2>1 DEF Early, ResetNode, RemoveKubePackages, InstallKubePackages, DistributeCerts,
         StopEtcd, WipeEtcd, StartEtcd, CheckEtcd, UploadCerts, Visit, Leave, Late, AfterInit,
         AfterAdmin
    <3> QED
      BY <3>1, NotLate
  <2>2. CASE SetEnv(n) \/ WaitPods(n) \/ FinalWait(n)
    BY <2>2, RunQuiet DEF SetEnv, WaitPods, FinalWait, Visit, Leave, Late, AfterInit, AfterAdmin,
       callVars
  <2>3. CASE InitFirstMaster(n)     BY <2>3, RunFounds
  <2>4. CASE AdminConf(n)           BY <2>4, RunAdmin
  <2>5. CASE TransferKubeconfig(n)  BY <2>5, RunTransfer
  <2>6. CASE CreateToken(n)         BY <2>6, RunToken
  <2>7. CASE JoinMaster(n)          BY <2>7, RunMaster
  <2>8. CASE SettleMaster(n)        BY <2>8, RunSettle
  <2>9. CASE JoinWorker(n)          BY <2>9, RunWorker
  <2> QED
    BY <1>4, <2>1, <2>2, <2>3, <2>4, <2>5, <2>6, <2>7, <2>8, <2>9 DEF OnNode, Early
<1>5. CASE UNCHANGED vars
  <2>1. CASE stage \in Late
    <3>1. AliveInv'
      BY <1>5, <2>1, AliveFrame DEF RunInv, vars, nodeVars, clusterVars, callVars
    <3>2. UnjoinedInv' /\ FoundingInv'
      BY <1>5, CallSame DEF RunInv, UnjoinedInv, FoundingInv, InitDone, AdminDone, Pending, vars,
         nodeVars, clusterVars, callVars
    <3>3. JoinedInv'
      BY <1>5, CallSame DEF RunInv, JoinedInv, Pending, vars, nodeVars, clusterVars, callVars
    <3> QED
      BY <3>1, <3>2, <3>3 DEF RunInv
  <2>2. CASE stage \notin Late
    BY <1>5, <2>2, NotLate DEF vars
  <2> QED
    BY <2>1, <2>2
<1> QED
  BY <1>1, <1>2, <1>3, <1>4, <1>5 DEF Next, Program


\* The kubeconfig of a master leads to its own cluster, through every step.
LEMMA ConfStep == ASSUME RunsIn, ConfOwn, [Next]_vars PROVE ConfOwn'
<1>1. ASSUME UNCHANGED <<member, conf>> PROVE ConfOwn'
  BY <1>1 DEF ConfOwn
<1>2. ASSUME NEW n \in Node, OnNode(n) PROVE ConfOwn'
  <2>1. CASE \/ RemoveKubePackages(n) \/ InstallKubePackages(n) \/ DistributeCerts(n)
             \/ StopEtcd(n) \/ WipeEtcd(n) \/ StartEtcd(n) \/ CheckEtcd(n) \/ UploadCerts(n)
             \/ SetEnv(n) \/ WaitPods(n) \/ CreateToken(n) \/ FinalWait(n)
    <3>1. UNCHANGED <<member, conf>>
      BY <2>1 DEF RemoveKubePackages, InstallKubePackages, DistributeCerts, StopEtcd, WipeEtcd,
         StartEtcd, CheckEtcd, UploadCerts, SetEnv, WaitPods, CreateToken, FinalWait, nodeVars
    <3> QED
      BY <1>1, <3>1
  <2>2. CASE ResetNode(n) \/ AdminConf(n) \/ SettleMaster(n)
    BY <2>2, NodeAssumption
       DEF ResetNode, AdminConf, SettleMaster, ConfOwn, RunsIn, TypeInv, TypeOK
  <2>3. CASE TransferKubeconfig(n)
    <3>1. n \notin Masters
      BY <2>3, FirstFacts DEF TransferKubeconfig, Visit, IsFirst, RunsIn, LoopInv, Idle, Loop, Work
    <3> QED
      BY <2>3, <3>1, NodeAssumption DEF TransferKubeconfig, ConfOwn, RunsIn, TypeInv, TypeOK
  <2>4. CASE InitFirstMaster(n) \/ JoinMaster(n) \/ JoinWorker(n)
    <3>1. /\ member[n] = 0 /\ conf' = conf
          /\ \A k \in Node : k # n => member'[k] = member[k]
      BY <2>4 DEF InitFirstMaster, JoinMaster, JoinWorker, Join, Visit, Ready, Clean, RunsIn,
         TypeInv, TypeOK
    <3> QED
      BY <3>1, NodeAssumption DEF ConfOwn
  <2> QED
    BY <1>2, <2>1, <2>2, <2>3, <2>4 DEF OnNode
<1>3. ASSUME NEW n \in Node, Lose(n) PROVE ConfOwn'
  BY <1>3, NodeAssumption DEF Lose, ConfOwn, RunsIn, TypeInv, TypeOK
<1>4. CASE Operator \/ NextStage \/ CommandFails \/ Interrupt \/ UNCHANGED vars
  BY <1>1, <1>4 DEF Operator, StartInstall, StartAdd, StartRecover, Start, NextStage,
     CommandFails, Interrupt, End, nodeVars, vars
<1> QED
  BY <1>2, <1>3, <1>4 DEF Next, Program

LEMMA RunsInAlways ==
  ASSUME AddTargets \cap Masters = {} PROVE Spec => [](RunsIn /\ RunInv /\ ConfOwn)
<1>1. Init => RunInv /\ ConfOwn
  BY NodeAssumption DEF Init, ConfOwn, RunInv, UnjoinedInv, AliveInv, FoundingInv, JoinedInv,
     InitDone, AdminDone, Late, AfterInit, AfterAdmin, Joins
<1>2. RunsIn /\ RunsIn' /\ RunInv /\ ConfOwn /\ [Next]_vars => RunInv' /\ ConfOwn'
  BY RunInvStep, ConfStep DEF RunsIn, TypeInv
<1>3. Spec => []RunsIn
  BY RunsAlways, MembersAlways, PTL DEF RunsIn
<1> QED
  BY <1>1, <1>2, <1>3, PTL DEF Spec

\* When a run ends well each of its nodes is in the cluster of the first
\* master, its kubeconfig leads there and the cluster answers.
THEOREM Outcome == ASSUME AddTargets \cap Masters = {} PROVE Spec => RunOutcome
<1> DEFINE F == First(Masters)
           Good == \A n \in targets : /\ member[n] = member[F] /\ conf[n] = member[n]
                                      /\ Alive(member[n])
           Ends == stage # "done" /\ stage' = "done" => Good
<1>1. ASSUME RunsIn, RunInv, ConfOwn, stage # "done", stage' = "done", Next PROVE Good
  <2>1. stage = "finish" /\ todo = {}
    <3>1. ASSUME NEW n \in Node, OnNode(n) PROVE stage' = stage \/ stage' # "done"
      BY <3>1 DEF OnNode, ResetNode, RemoveKubePackages, InstallKubePackages, DistributeCerts,
         StopEtcd, WipeEtcd, StartEtcd, CheckEtcd, UploadCerts, InitFirstMaster, AdminConf,
         TransferKubeconfig, SetEnv, WaitPods, CreateToken, JoinMaster, SettleMaster, JoinWorker,
         FinalWait, Leave
    <3>2. NextStage
      BY <1>1, <3>1 DEF Next, Program, Operator, StartInstall, StartAdd, StartRecover, Start,
         CommandFails, Interrupt, End, Lose
    <3> QED
      BY <1>1, <3>2, SuccOnly DEF NextStage
  <2>2. FirstMaster = F
    <3>1. Founding => TargetMasters = Masters
      BY <1>1, <2>1, NodeAssumption
         DEF RunsIn, LoopInv, MembersIn, MemberInv, CallInv, Founding, Recovery, TargetMasters,
             Idle,
             TypeInv, TypeOK
    <3> QED
      BY <3>1 DEF FirstMaster
  <2>3. ASSUME NEW n \in targets, n \in Work("joinMaster")
        PROVE  member[n] = member[F] /\ conf[n] = member[n] /\ member[n] # 0
    BY <1>1, <2>1, <2>2, <2>3 DEF RunInv, JoinedInv, Joins, Pending
  <2>4. ASSUME NEW n \in targets, n \in TargetWorkers
        PROVE  member[n] = member[F] /\ conf[n] = member[n] /\ member[n] # 0
    <3>1. member[n] = member[F] /\ member[n] # 0
      BY <1>1, <2>1, <2>2, <2>4 DEF RunInv, JoinedInv, Pending
    <3>2. conf[n] = conf[F] /\ conf[n] # 0
      BY <1>1, <2>1, <2>2, <2>4 DEF RunInv, FoundingInv, AfterAdmin, Pending
    <3>3. conf[F] \in {0, member[F]}
      BY <1>1, <2>2, FirstFacts DEF ConfOwn
    <3> QED
      BY <3>1, <3>2, <3>3
  <2>5. ASSUME NEW n \in targets, n \notin Work("joinMaster"), n \notin TargetWorkers
        PROVE  member[n] = member[F] /\ conf[n] = member[n] /\ member[n] # 0
    <3>1. Founding /\ n = F
      BY <2>2, <2>5 DEF TargetWorkers, TargetMasters, Work, Founding
    <3>2. InitDone /\ AdminDone
      BY <2>1, <3>1 DEF InitDone, AdminDone, AfterInit, AfterAdmin
    <3> QED
      BY <1>1, <2>2, <3>1, <3>2 DEF RunInv, FoundingInv
  <2>6. \A n \in targets : member[n] = member[F] /\ conf[n] = member[n] /\ member[n] # 0
    BY <2>3, <2>4, <2>5
  <2> QED
    BY <1>1, <2>1, <2>6 DEF RunInv, AliveInv, Late, AfterInit, AfterAdmin
<1>2. RunsIn /\ RunInv /\ ConfOwn /\ [Next]_vars => [Ends]_vars
  BY <1>1
<1>3. Spec => [](RunsIn /\ RunInv /\ ConfOwn)
  BY RunsInAlways
<1> QED
  BY <1>2, <1>3, PTL DEF Spec, RunOutcome

(* -------------------- what is ready for kubeadm init ------------------- *)

\* The stages after parts of the preparation of the nodes.
AfterEtcdStop == {"startEtcd", "checkEtcd", "upload"} \cup Late
AfterCerts    == {"stopEtcd", "wipeEtcd"} \cup AfterEtcdStop

\* The wanted packages are on the nodes of the run.
PkgInv ==
  /\ stage \in {"reset", "unpack"} => \A n \in targets \ todo : pkg[n] = "wanted" \/ n \in need
  /\ stage \in {"package"} \cup {"certs"} \cup AfterCerts =>
       \A n \in targets \ Pending({"package"}) : pkg[n] = "wanted"

\* The masters of an installation trust the authority of the run and, if there
\* are several, hold its etcd data; a single master has none.
InstInv ==
  /\ stage \notin Idle /\ cmd # "recover" => rootCa = run
  /\ cmd = "install" =>
       /\ Multi /\ stage \in {"certs"} \cup AfterCerts =>
            \A m \in Masters \ Pending({"certs"}) : ca[m] = run
       /\ Multi /\ stage \in AfterEtcdStop =>
            \A m \in Masters \ Pending({"startEtcd"}) : data[m] = run /\ etcd[m] = run
       /\ ~Multi /\ stage \in AfterEtcdStop => \A m \in Masters : StoppedAndWiped(m)

\* Steps of the loops between the preparation and the end of the run.
LEMMA InstFrame ==
  ASSUME InstInv, UNCHANGED <<run, cmd, targets, rootCa, ca, data, etcd>>,
         stage \notin Idle,
         \/ stage \in Late \cup {"checkEtcd", "upload"} /\ stage' \in Late \cup {"checkEtcd", "upload"}
         \/ stage' \in Idle \cup {"reset", "unpack", "package"}
  PROVE  InstInv'
<1> USE DEF InstInv, AfterEtcdStop, AfterCerts, Late, AfterInit, AfterAdmin, Idle
<1>1. CASE stage' \in Idle \cup {"reset", "unpack", "package"}
  BY <1>1
<1>2. CASE stage' \in Late \cup {"checkEtcd", "upload"}
  BY <1>2, CallSame DEF Pending, StoppedAndWiped
<1> QED
  BY <1>1, <1>2

LEMMA PkgStep == ASSUME RunsIn, PkgInv, [Next]_vars PROVE PkgInv'
<1> USE DEF AfterCerts, AfterEtcdStop, Late, AfterInit, AfterAdmin
<1>1. ASSUME UNCHANGED <<pkg, targets>>, stage \in {"certs"} \cup AfterCerts,
             stage' \in {"certs"} \cup AfterCerts \cup Idle
      PROVE  PkgInv'
  BY <1>1 DEF PkgInv, Pending, Idle
<1>2. CASE NextStage
  <2>1. PICK s \in DOMAIN Succ : stage = s
    BY <1>2 DEF NextStage
  <2>2. /\ stage' = Succ[s] /\ todo = {} /\ UNCHANGED <<pkg, targets>>
        /\ stage' = "package" => todo' = need
    BY <1>2, <2>1 DEF NextStage, nodeVars, callVars, Work
  <2>3. CASE s = "reset"
    <3>1. stage = "reset" /\ stage' = "package"
      BY <2>1, <2>2, <2>3 DEF Succ
    <3> QED
      BY <2>2, <3>1 DEF PkgInv, Pending
  <2>4. CASE s = "package"
    <3>1. stage = "package" /\ stage' = "certs"
      BY <2>1, <2>2, <2>4 DEF Succ
    <3> QED
      BY <2>2, <3>1 DEF PkgInv, Pending
  <2>5. CASE s \notin {"reset", "package"}
    <3>1. s \in {"certs"} \cup AfterCerts /\ Succ[s] \in {"certs"} \cup AfterCerts \cup Idle
      BY <2>5 DEF Succ, Idle
    <3> QED
      BY <1>1, <2>1, <2>2, <3>1
  <2> QED
    BY <2>3, <2>4, <2>5
<1>3. CASE Operator
  BY <1>3 DEF Operator, StartInstall, StartAdd, StartRecover, Start, PkgInv
<1>4. CASE CommandFails \/ Interrupt
  BY <1>4 DEF CommandFails, Interrupt, End, PkgInv
<1>5. ASSUME NEW n \in Node, Lose(n) PROVE PkgInv'
  BY <1>5 DEF Lose, PkgInv, Idle
<1>6. ASSUME NEW n \in Node, OnNode(n) PROVE PkgInv'
  <2>1. CASE ResetNode(n)
    BY <2>1 DEF ResetNode, Visit, callVars, PkgInv
  <2>2. CASE RemoveKubePackages(n)
    <3>1. \A k \in targets \ todo' : pkg'[k] = "wanted" \/ k \in need'
      BY <2>2 DEF RemoveKubePackages, Visit, PkgInv, RunsIn, TypeInv, TypeOK
    <3> QED
      BY <2>2, <3>1 DEF RemoveKubePackages, Visit, callVars, PkgInv
  <2>3. CASE InstallKubePackages(n)
    <3>1. \A k \in targets \ todo' : pkg'[k] = "wanted"
      BY <2>3 DEF InstallKubePackages, Visit, Leave, PkgInv, Pending, RunsIn, TypeInv, TypeOK
    <3> QED
      BY <2>3, <3>1 DEF InstallKubePackages, Visit, Leave, callVars, PkgInv, Pending
  <2>4. CASE \/ DistributeCerts(n) \/ StopEtcd(n) \/ WipeEtcd(n) \/ StartEtcd(n) \/ CheckEtcd(n)
             \/ UploadCerts(n) \/ InitFirstMaster(n) \/ AdminConf(n) \/ TransferKubeconfig(n)
             \/ SetEnv(n) \/ WaitPods(n) \/ CreateToken(n) \/ JoinMaster(n) \/ SettleMaster(n)
             \/ JoinWorker(n) \/ FinalWait(n)
    <3>1. /\ UNCHANGED <<pkg, targets>> /\ stage \in {"certs"} \cup AfterCerts
          /\ stage' \in {"certs"} \cup AfterCerts
      BY <2>4 DEF DistributeCerts, StopEtcd, WipeEtcd, StartEtcd, CheckEtcd, UploadCerts,
         InitFirstMaster, AdminConf, TransferKubeconfig, SetEnv, WaitPods, CreateToken, JoinMaster,
         SettleMaster, JoinWorker, FinalWait, Visit, Leave, nodeVars, callVars
    <3> QED
      BY <1>1, <3>1
  <2> QED
    BY <1>6, <2>1, <2>2, <2>3, <2>4 DEF OnNode
<1>7. CASE UNCHANGED vars
  BY <1>7 DEF vars, nodeVars, callVars, PkgInv, Pending
<1> QED
  BY <1>2, <1>3, <1>4, <1>5, <1>6, <1>7 DEF Next, Program

LEMMA InstNextStage == ASSUME RunsIn, EtcdInv, InstInv, NextStage PROVE InstInv'
<1>1. PICK s \in DOMAIN Succ : stage = s
  BY DEF NextStage
<1>2. /\ stage' = Succ[s] /\ todo = {} /\ todo' = Work(Succ[s])
      /\ UNCHANGED <<run, cmd, targets, ca, data, etcd>>
      /\ Succ[s] # "done" => rootCa' = rootCa
  BY <1>1 DEF NextStage, nodeVars, callVars
<1>3. s \notin Idle /\ (rootCa' = run' \/ stage' \in Idle \/ cmd' = "recover")
  BY <1>1, <1>2 DEF InstInv, Succ, Idle
<1>4. ASSUME stage' \notin Idle, cmd = "install" PROVE TargetMasters = Masters
  BY <1>1, <1>3, <1>4, NodeAssumption DEF RunsIn, MembersIn, MemberInv, CallInv, TargetMasters
<1>5. CASE s = "package"
  <2>1. stage' = "certs" /\ todo' = IF Multi THEN TargetMasters ELSE {}
    BY <1>2, <1>5 DEF Succ, Work
  <2> QED
    BY <1>2, <1>3, <1>4, <2>1, CallSame
       DEF InstInv, Idle, Pending, AfterEtcdStop, Late, AfterInit, AfterAdmin
<1>6. CASE s = "certs"
  <2>1. stage = "certs" /\ stage' = "stopEtcd"
    BY <1>1, <1>2, <1>6 DEF Succ
  <2> QED
    BY <1>2, <1>3, <2>1, CallSame
       DEF InstInv, Idle, Pending, AfterCerts, AfterEtcdStop, Late, AfterInit, AfterAdmin
<1>7. CASE s = "stopEtcd"
  <2>1. /\ stage = "stopEtcd" /\ stage' = "startEtcd"
        /\ todo' = IF Multi THEN TargetMasters ELSE {}
    BY <1>1, <1>2, <1>7 DEF Succ, Work
  <2>2. \A m \in TargetMasters : StoppedAndWiped(m)
    BY <1>2, <2>1 DEF EtcdInv
  <2>3. cmd = "install" => TargetMasters = Masters
    BY <1>4, <2>1 DEF Idle
  <2>4. cmd' = "install" =>
          /\ Multi' => \A m \in Masters \ Pending({"certs"})' : ca'[m] = run'
          /\ Multi' => Masters \ Pending({"startEtcd"})' = {}
          /\ \A m \in Masters : StoppedAndWiped(m)'
    BY <1>2, <2>1, <2>2, <2>3, CallSame
       DEF InstInv, Pending, AfterCerts, AfterEtcdStop, StoppedAndWiped
  <2> QED
    BY <1>2, <1>3, <2>1, <2>4 DEF InstInv
<1>8. CASE s = "startEtcd"
  <2>1. stage = "startEtcd" /\ stage' = "checkEtcd"
    BY <1>1, <1>2, <1>8 DEF Succ
  <2> QED
    BY <1>2, <1>3, <2>1, CallSame
       DEF InstInv, Idle, Pending, AfterCerts, AfterEtcdStop, StoppedAndWiped
<1>9. CASE s \notin {"package", "certs", "stopEtcd", "startEtcd"}
  <2>1. CASE s = "finish"
    BY <1>2, <2>1 DEF InstInv, Succ, Idle, AfterCerts, AfterEtcdStop, Late, AfterInit, AfterAdmin
  <2>2. CASE s # "finish"
    <3>1. /\ Succ[s] # "done"
          /\ \/ s \in Late \cup {"checkEtcd", "upload"} /\ Succ[s] \in Late \cup {"checkEtcd", "upload"}
             \/ Succ[s] = "package"
      BY <1>9, <2>2 DEF Succ, Late, AfterInit, AfterAdmin
    <3> QED
      BY <1>1, <1>2, <1>3, <3>1, InstFrame
  <2> QED
    BY <2>1, <2>2
<1> QED
  BY <1>5, <1>6, <1>7, <1>8, <1>9

\* etcd of an installation starts on an empty directory, with peers that hold
\* nothing but the data of the run.
LEMMA InstEtcd ==
  ASSUME RunsIn, EtcdInv, StoreInv, InstInv, NEW n \in Node, StartEtcd(n) PROVE InstInv'
<1>1. /\ stage = "startEtcd" /\ stage' = "startEtcd" /\ n \in todo /\ todo' = todo \ {n}
      /\ Bootstrap(n) /\ UNCHANGED <<run, cmd, targets, rootCa, ca>>
  BY DEF StartEtcd, Visit, Leave, IsFirst, callVars
<1>2. Multi
  BY <1>1 DEF RunsIn, LoopInv, Idle, Loop, Work
<1>3. ASSUME cmd = "install" PROVE \A m \in Masters \ todo' : data'[m] = run /\ etcd'[m] = run
  <2>1. n \in Masters /\ data[n] = 0 /\ ca[n] = run
    BY <1>1, <1>2, <1>3 DEF EtcdInv, StoppedAndWiped, InstInv, Pending, AfterCerts, AfterEtcdStop
  <2>2. PeerData(n) = {}
    BY <1>1, <1>3 DEF PeerData, StoreInv
  <2>3. data' = [data EXCEPT ![n] = run] /\ etcd' = [etcd EXCEPT ![n] = run]
    BY <1>1, <2>1, <2>2 DEF Bootstrap
  <2>4. \A m \in Masters \ todo : data[m] = run /\ etcd[m] = run
    BY <1>1, <1>2, <1>3 DEF InstInv, Pending, AfterEtcdStop
  <2> QED
    BY <1>1, <2>3, <2>4, NodeAssumption DEF RunsIn, TypeInv, TypeOK
<1>4. ASSUME cmd = "install" PROVE \A m \in Masters : ca'[m] = run
  BY <1>1, <1>2, <1>4 DEF InstInv, Pending, AfterCerts, AfterEtcdStop
<1> QED
  BY <1>1, <1>2, <1>3, <1>4, CallSame DEF InstInv, Pending, Idle

LEMMA InstStep ==
  ASSUME RunsIn, EtcdInv, StoreInv, InstInv, [Next]_vars PROVE InstInv'
<1>1. CASE Operator
  BY <1>1 DEF Operator, StartInstall, StartAdd, StartRecover, Start, InstInv, AfterCerts,
     AfterEtcdStop, Late, AfterInit, AfterAdmin
<1>2. CASE NextStage
  BY <1>2, InstNextStage
<1>3. CASE CommandFails \/ Interrupt
  BY <1>3 DEF CommandFails, Interrupt, End, InstInv, AfterCerts, AfterEtcdStop, Late, AfterInit,
     AfterAdmin, Idle
<1>4. ASSUME NEW n \in Node, Lose(n) PROVE InstInv'
  BY <1>4 DEF Lose, InstInv, AfterCerts, AfterEtcdStop, Late, AfterInit, AfterAdmin, Idle
<1>5. ASSUME NEW n \in Node, OnNode(n) PROVE InstInv'
  <2>1. CASE \/ ResetNode(n) \/ RemoveKubePackages(n) \/ InstallKubePackages(n) \/ CheckEtcd(n)
             \/ UploadCerts(n) \/ InitFirstMaster(n) \/ AdminConf(n) \/ TransferKubeconfig(n)
             \/ SetEnv(n) \/ WaitPods(n) \/ CreateToken(n) \/ JoinMaster(n) \/ SettleMaster(n)
             \/ JoinWorker(n) \/ FinalWait(n)
    <3>1. /\ UNCHANGED <<run, cmd, targets, rootCa, ca, data, etcd>> /\ stage \notin Idle
          /\ \/ stage \in Late \cup {"checkEtcd", "upload"} /\ stage' \in Late \cup {"checkEtcd", "upload"}
             \/ stage' \in Idle \cup {"reset", "unpack", "package"}
      BY <2>1 DEF ResetNode, RemoveKubePackages, InstallKubePackages, CheckEtcd, UploadCerts,
         InitFirstMaster, AdminConf, TransferKubeconfig, SetEnv, WaitPods, CreateToken, JoinMaster,
         SettleMaster, JoinWorker, FinalWait, Visit, Leave, nodeVars, callVars, Late, AfterInit,
         AfterAdmin, Idle
    <3> QED
      BY <3>1, InstFrame
  <2>2. CASE DistributeCerts(n)
    <3>1. /\ stage = "certs" /\ stage' = "certs" /\ todo' = todo \ {n}
          /\ ca' = [ca EXCEPT ![n] = rootCa] /\ UNCHANGED <<run, cmd, targets, rootCa>>
      BY <2>2 DEF DistributeCerts, Visit, Leave, callVars
    <3>2. cmd = "install" => rootCa = run
      BY <3>1 DEF InstInv, Idle
    <3>3. cmd = "install" /\ Multi => \A m \in Masters \ todo' : ca'[m] = run
      BY <3>1, <3>2, NodeAssumption DEF InstInv, Pending, RunsIn, TypeInv, TypeOK
    <3> QED
      BY <3>1, <3>3, CallSame
         DEF InstInv, Pending, AfterEtcdStop, Late, AfterInit, AfterAdmin, AfterCerts, Idle
  <2>3. CASE StopEtcd(n) \/ WipeEtcd(n)
    <3>1. /\ stage \in {"stopEtcd", "wipeEtcd"} /\ stage' \in {"stopEtcd", "wipeEtcd"}
          /\ UNCHANGED <<run, cmd, targets, rootCa, ca>>
      BY <2>3 DEF StopEtcd, WipeEtcd, Visit, callVars
    <3> QED
      BY <3>1, CallSame
         DEF InstInv, Pending, AfterEtcdStop, Late, AfterInit, AfterAdmin, AfterCerts, Idle
  <2>4. CASE StartEtcd(n)
    BY <2>4, InstEtcd
  <2> QED
    BY <1>5, <2>1, <2>2, <2>3, <2>4 DEF OnNode
<1>6. CASE UNCHANGED vars
  BY <1>6, CallSame DEF vars, nodeVars, callVars, InstInv, Pending, StoppedAndWiped
<1> QED
  BY <1>1, <1>2, <1>3, <1>4, <1>5, <1>6 DEF Next, Program

LEMMA InstAlways ==
  ASSUME AddTargets \cap Masters = {}
  PROVE  Spec => [](RunsIn /\ RunInv /\ ConfOwn /\ PkgInv /\ InstInv)
<1>1. Init => PkgInv /\ InstInv
  BY DEF Init, PkgInv, InstInv, AfterCerts, AfterEtcdStop, Late, AfterInit, AfterAdmin, Idle
<1>2. RunsIn /\ EtcdInv /\ StoreInv /\ PkgInv /\ InstInv /\ [Next]_vars => PkgInv' /\ InstInv'
  BY PkgStep, InstStep
<1> QED
  BY <1>1, <1>2, RunsInAlways, EtcdAlways, StoreAlways, PTL DEF Spec

(* -------------------- the commands of an installation ------------------ *)

\* tkube is run on, or pointed at, the first master of the configuration, and
\* the configuration lists a master first.
FirstIsMaster == First(Node) \in Masters
RunOnFirst    == Remotes \subseteq {First(Masters)}

\* Two masters in the run make it a deployment of several masters.
LEMMA TwoMasters ==
  ASSUME TypeOK, NEW m \in TargetMasters, NEW k \in TargetMasters, m # k PROVE Multi
<1>1. IsFiniteSet(TargetMasters) /\ Cardinality(TargetMasters) \in Nat
  BY NodeAssumption, FS_Subset, FS_CardinalityType DEF TargetMasters
<1>2. {m, k} \subseteq TargetMasters /\ Cardinality({m, k}) = 2
  <2>1. IsFiniteSet({m}) /\ Cardinality({m}) = 1 /\ k \notin {m} /\ {m} \cup {k} = {m, k}
    BY FS_Singleton
  <2>2. Cardinality({m} \cup {k}) = Cardinality({m}) + 1
    BY <2>1, FS_AddElement
  <2> QED
    BY <2>1, <2>2
<1>3. 2 <= Cardinality(TargetMasters)
  BY <1>1, <1>2, FS_Subset
<1> QED
  BY <1>1, <1>3 DEF Multi

\* With the first node a master, the first target of an installation is one.
LEMMA FirstTarget ==
  ASSUME FirstIsMaster, targets \in {Node, Masters} PROVE First(targets) \in Masters
BY FirstIn, NodeAssumption DEF FirstIsMaster

LEMMA EtcdReady ==
  ASSUME TypeOK, run # 0, NEW n \in Masters, \A m \in Masters : ca[m] = run,
         \A m \in Masters : data[m] = run /\ etcd[m] = run
  PROVE  EtcdAnswers(n)
<1>1. {m \in Masters : data[m] = run /\ etcd[m] = run} = Masters
  OBVIOUS
<1>2. Cardinality(Masters) \in Nat /\ Cardinality(Masters) # 0
  BY MastersFinite, NodeAssumption, FS_EmptySet
<1>3. EtcdQuorum(run, run)
  BY <1>1, <1>2 DEF EtcdQuorum
<1> QED
  BY <1>3 DEF EtcdAnswers, TypeOK

\* Every command of an installation finds what it needs.
LEMMA InstallReady ==
  ASSUME FirstIsMaster, RunOnFirst, RunsIn, RunInv, ConfOwn, PkgInv, InstInv,
         cmd = "install", stage \notin Idle, NEW n \in todo, IsFirst(n, todo)
  PROVE  Ready(stage, n)
<1>1. /\ Founding /\ ~Recovery /\ FirstMaster = First(Masters) /\ TargetMasters = Masters
      /\ remote = FirstMaster /\ FirstMaster \in targets /\ targets \in {Node, Masters}
  <2>1. Masters \subseteq targets
    BY DEF RunsIn, MembersIn, MemberInv, CallInv
  <2>2. TargetMasters = Masters /\ ~Recovery /\ Founding
    BY <2>1, NodeAssumption DEF TargetMasters, Recovery, Founding
  <2>3. remote \in {First(Masters)} /\ targets \in {Node, Masters}
    BY DEF RunOnFirst, RunsIn, TypeInv, TypeOK, LoopInv
  <2> QED
    BY <2>2, <2>3, FirstFacts DEF FirstMaster
<1>2. run # 0 /\ run \in Ids
  BY DEF RunsIn, MembersIn, MemberInv, FoundedInv, TypeInv, TypeOK
<1>3. stage \notin {"reset", "unpack"} => n \in Work(Loop(stage))
  BY DEF RunsIn, LoopInv
<1>4. procs = member
  BY DEF RunsIn, MembersIn, MemberInv
\* The first master has founded the cluster and has its kubeconfig.
<1>5. ASSUME stage \in AfterAdmin
      PROVE  /\ member[FirstMaster] = run /\ conf[FirstMaster] = run /\ Alive(run)
             /\ certKey = run /\ secret[run] = run
  <2>1. InitDone /\ AdminDone /\ stage \in Late
    BY <1>1, <1>5 DEF InitDone, AdminDone, AfterInit, Late
  <2> QED
    BY <1>1, <1>2, <2>1 DEF RunInv, FoundingInv, AliveInv
<1>6. CASE stage = "certs"
  BY <1>2, <1>6 DEF Ready, InstInv
<1>7. CASE stage = "checkEtcd"
  <2>1. n \in Masters /\ Multi
    BY <1>1, <1>3, <1>7, FirstTarget DEF Loop, Work
  <2>2. \A m \in Masters : ca[m] = run /\ data[m] = run /\ etcd[m] = run
    BY <1>7, <2>1 DEF InstInv, Pending, AfterCerts, AfterEtcdStop
  <2>3. EtcdAnswers(n)
    BY <1>2, <2>1, <2>2, EtcdReady DEF RunsIn, TypeInv
  <2> QED
    BY <1>7, <2>3 DEF Ready
<1>8. CASE stage = "upload"
  BY <1>1, <1>3, <1>8 DEF Loop, Work
<1>9. CASE stage = "init"
  <2>1. n = FirstMaster /\ n \in Masters
    BY <1>1, <1>3, <1>9, FirstFacts DEF Loop, Work
  <2>2. pkg[n] = "wanted"
    BY <1>1, <1>9, <2>1 DEF PkgInv, Pending, AfterCerts, AfterEtcdStop, Late
  <2>3. member[n] = 0
    BY <1>1, <1>9, <2>1 DEF RunInv, UnjoinedInv, InitDone, AfterInit, AfterAdmin
  <2>4. Multi => EtcdAnswers(n)
    <3>1. Multi => \A m \in Masters : ca[m] = run /\ data[m] = run /\ etcd[m] = run
      BY <1>9 DEF InstInv, Pending, AfterCerts, AfterEtcdStop, Late
    <3> QED
      BY <1>2, <2>1, <3>1, EtcdReady DEF RunsIn, TypeInv
  <2>5. ~Multi => data[n] = 0 /\ etcd[n] = 0
    BY <1>9, <2>1 DEF InstInv, AfterEtcdStop, Late, StoppedAndWiped
  <2> QED
    BY <1>4, <1>9, <2>2, <2>3, <2>4, <2>5 DEF Ready, Clean
<1>10. CASE stage = "kubeconfig"
  BY <1>2, <1>5, <1>10 DEF Ready, AfterAdmin
<1>11. CASE stage \in {"env", "waitPods", "token"}
  <2>1. n = FirstMaster
    BY <1>1, <1>3, <1>11 DEF Loop, Work
  <2> QED
    BY <1>5, <1>11, <2>1 DEF Ready, AfterAdmin
<1>12. CASE stage = "joinMaster"
  <2>1. n \in TargetMasters /\ n # FirstMaster /\ FirstMaster \in TargetMasters /\ n \in targets
    BY <1>1, <1>3, <1>12, FirstFacts DEF Loop, Work, TargetMasters
  <2>2. Multi
    BY <2>1, TwoMasters DEF RunsIn, TypeInv
  <2>3. token = run
    BY <1>5, <1>12, <2>2 DEF RunInv, JoinedInv, AfterAdmin
  <2>4. pkg[n] = "wanted" /\ member[n] = 0
    BY <1>12, <2>1 DEF PkgInv, Pending, AfterCerts, AfterEtcdStop, Late, AfterInit, AfterAdmin,
       RunInv, UnjoinedInv
  <2> QED
    BY <1>4, <1>5, <1>12, <2>3, <2>4 DEF Ready, Clean, AfterAdmin
<1>13. CASE stage = "settle"
  BY <1>1, <1>5, <1>13 DEF Ready, AfterAdmin
<1>14. CASE stage = "joinWorker"
  <2>1. n \in targets
    BY <1>3, <1>14 DEF Loop, Work, TargetWorkers
  <2>2. pkg[n] = "wanted" /\ member[n] = 0
    BY <1>14, <2>1 DEF PkgInv, Pending, AfterCerts, AfterEtcdStop, Late, AfterInit, AfterAdmin,
       RunInv, UnjoinedInv
  <2> QED
    BY <1>4, <1>5, <1>14, <2>2 DEF Ready, Clean, AfterAdmin
<1>15. CASE stage \notin {"certs", "checkEtcd", "upload", "init", "kubeconfig", "env", "waitPods",
                          "token", "joinMaster", "settle", "joinWorker"}
  BY <1>15 DEF Ready
<1> QED
  BY <1>6, <1>7, <1>8, <1>9, <1>10, <1>11, <1>12, <1>13, <1>14, <1>15

\* install can be repeated after any history of cut-short runs, upgrades and
\* lost nodes: none of its commands fails because of what is on the nodes.
\* The first node of the configuration is a master, as in all of src/test/config,
\* and the program is pointed at the first master, as src/test/test.sh does:
\* elsewhere it would wait with a kubeconfig the run has not made.
THEOREM Restartable ==
  ASSUME AddTargets \cap Masters = {}, FirstIsMaster, RunOnFirst
  PROVE  Spec => []InstallRestartable
<1> DEFINE Known == RunsIn /\ RunInv /\ ConfOwn /\ PkgInv /\ InstInv
<1>1. Init => InstallRestartable
  BY DEF Init, InstallRestartable
<1>2. ASSUME Known, InstallRestartable, [Next]_vars PROVE InstallRestartable'
  <2>1. CASE CommandFails
    <3>1. cmd # "install"
      BY <1>2, <2>1, InstallReady DEF CommandFails
    <3> QED
      BY <2>1, <3>1 DEF CommandFails, End, callVars, InstallRestartable
  <2>2. ASSUME NEW n \in Node, OnNode(n) PROVE stage' # "failed"
    BY <2>2 DEF OnNode, ResetNode, RemoveKubePackages, InstallKubePackages, DistributeCerts,
       StopEtcd, WipeEtcd, StartEtcd, CheckEtcd, UploadCerts, InitFirstMaster, AdminConf,
       TransferKubeconfig, SetEnv, WaitPods, CreateToken, JoinMaster, SettleMaster, JoinWorker,
       FinalWait, Visit, Leave
  <2>3. CASE NextStage
    BY <2>3 DEF NextStage, Succ, InstallRestartable
  <2>4. CASE Operator \/ Interrupt
    BY <2>4 DEF Operator, StartInstall, StartAdd, StartRecover, Start, Interrupt, End,
       InstallRestartable
  <2>5. ASSUME NEW n \in Node, Lose(n) PROVE InstallRestartable'
    BY <1>2, <2>5 DEF Lose, callVars, InstallRestartable
  <2>6. CASE UNCHANGED vars
    BY <1>2, <2>6 DEF vars, callVars, InstallRestartable
  <2> QED
    BY <1>2, <2>1, <2>2, <2>3, <2>4, <2>5, <2>6 DEF Next, Program, InstallRestartable
<1>3. Spec => []Known
  BY InstAlways
<1> QED
  BY <1>1, <1>2, <1>3, PTL DEF Spec

(* ------------------ what the recovery of a master finds ---------------- *)

Several == \E m, k \in Masters : m # k

\* With several masters those of a cluster trust the authority of the run that
\* founded it, and no other master trusts another one.
TrustInv ==
  Several => \A m \in Masters : member[m] # 0 =>
    /\ ca[m] = member[m]
    /\ \A k \in Masters : ca[k] \in {0, member[m]} /\ etcd[k] \in {0, member[m]}

\* The certificates the operator provides are those of the cluster, unless
\* a master that stays is in none.
GivenInv ==
  cmd = "recover" /\ stage \notin Idle =>
    /\ \A m \in Masters : member[m] # 0 => rootCa \in {0, member[m]}
    /\ rootCa # 0 \/ \E m \in Masters \ targets : member[m] = 0

\* The master to recover gets them.
PlacedInv ==
  cmd = "recover" /\ stage \in {"certs"} \cup AfterCerts =>
    \A n \in targets \ Pending({"certs"}) : ca[n] = rootCa /\ rootCa # 0

TrustAll == TrustInv /\ GivenInv /\ PlacedInv
KnownRun == RunsIn /\ RunInv /\ ConfOwn /\ PkgInv /\ InstInv

LEMMA TrustLess ==
  ASSUME TrustInv,
         \A m \in Masters :
           /\ member'[m] \in {0, member[m]} /\ ca'[m] \in {0, ca[m]}
           /\ member'[m] # 0 => ca'[m] = ca[m]
           /\ etcd'[m] \in {0, etcd[m], ca[m]}
  PROVE  TrustInv'
BY DEF TrustInv, Several

\* An installation of several masters installs them all.
LEMMA SeveralMulti ==
  ASSUME RunsIn, cmd = "install", stage \notin Idle
  PROVE  TargetMasters = Masters /\ (Several => Multi)
<1>1. TargetMasters = Masters
  BY NodeAssumption DEF RunsIn, MembersIn, MemberInv, CallInv, TargetMasters
<1> QED
  BY <1>1, TwoMasters DEF Several, RunsIn, TypeInv

LEMMA TrustCerts ==
  ASSUME KnownRun, TrustAll, NEW n \in Node, DistributeCerts(n) PROVE TrustInv'
<1>1. /\ stage = "certs" /\ n \in todo /\ ca' = [ca EXCEPT ![n] = rootCa]
      /\ UNCHANGED <<member, etcd>>
  BY DEF DistributeCerts, Visit, IsFirst
<1>2. n \in TargetMasters /\ n \in targets /\ n \in Masters
  BY <1>1 DEF KnownRun, RunsIn, LoopInv, Idle, Loop, Work, TargetMasters
<1>3. CASE cmd = "install"
  <2>1. \A m \in Masters : member[m] = 0
    BY <1>1, <1>3 DEF KnownRun, RunsIn, MembersIn, MemberInv, LeftInv, PreInit, CallInv, Idle
  <2> QED
    BY <1>1, <2>1 DEF TrustInv
<1>4. CASE cmd = "recover"
  <2>1. member[n] = 0
    BY <1>1, <1>2 DEF KnownRun, RunsIn, MembersIn, MemberInv, LeftInv, PreInit
  <2>2. \A m \in Masters : member[m] # 0 => rootCa \in {0, member[m]}
    BY <1>1, <1>4 DEF TrustAll, GivenInv, Idle
  <2>3. \A k \in Masters : ca'[k] = IF k = n THEN rootCa ELSE ca[k]
    BY <1>1, NodeAssumption DEF KnownRun, RunsIn, TypeInv, TypeOK
  <2> QED
    BY <1>1, <2>1, <2>2, <2>3 DEF TrustAll, TrustInv, Several
<1>5. cmd # "add"
  BY <1>1, <1>2 DEF KnownRun, RunsIn, MembersIn, MemberInv, CallInv, Idle
<1> QED
  BY <1>3, <1>4, <1>5 DEF KnownRun, RunsIn, TypeInv, TypeOK

LEMMA TrustFounds ==
  ASSUME KnownRun, TrustAll, NEW n \in Node, InitFirstMaster(n) PROVE TrustInv'
<1>1. /\ stage = "init" /\ n \in todo /\ UNCHANGED <<ca, etcd>>
      /\ member' = [member EXCEPT ![n] = run]
  BY DEF InitFirstMaster, Visit, IsFirst
<1>2. Founding /\ cmd = "install"
  <2>1. Founding
    BY <1>1 DEF KnownRun, RunsIn, LoopInv, Idle, Loop, Work
  <2> QED
    BY <1>1, <2>1 DEF KnownRun, RunsIn, MembersIn, MemberInv, CallInv, Idle, Founding, Recovery,
       TargetMasters, TypeInv, TypeOK
<1>3. \A m \in Masters : member[m] = 0
  BY <1>1 DEF KnownRun, RunsIn, MembersIn, MemberInv, LeftInv
<1>4. Several => \A m \in Masters : ca[m] = run /\ etcd[m] = run
  BY <1>1, <1>2, SeveralMulti
     DEF KnownRun, InstInv, Pending, AfterCerts, AfterEtcdStop, Late, Idle
<1>5. \A m \in Masters : member'[m] \in {0, run}
  BY <1>1, <1>3, NodeAssumption DEF KnownRun, RunsIn, TypeInv, TypeOK
<1> QED
  BY <1>1, <1>4, <1>5 DEF TrustInv, Several

LEMMA TrustJoins ==
  ASSUME KnownRun, TrustAll, NEW n \in Node, JoinMaster(n) PROVE TrustInv'
<1>1. /\ stage = "joinMaster" /\ n \in todo /\ UNCHANGED <<ca, etcd>>
      /\ Alive(token) /\ member' = [member EXCEPT ![n] = token]
  BY DEF JoinMaster, Visit, IsFirst, Ready, Join
<1>2. /\ token = member[FirstMaster] /\ token # 0 /\ FirstMaster \in Masters
      /\ n \in TargetMasters /\ n \in targets /\ n \in Masters
  <2>1. token # 0 /\ token \in {0, member[FirstMaster]}
    BY <1>1 DEF Alive, AliveOn, KnownRun, RunsIn, MembersIn, MemberInv, TokenInv
  <2>2. n \in Work("joinMaster")
    BY <1>1 DEF KnownRun, RunsIn, LoopInv, Idle, Loop
  <2> QED
    BY <2>1, <2>2, FirstFacts DEF KnownRun, TargetMasters
<1>3. Several => \A k \in Masters : ca[k] \in {0, token} /\ etcd[k] \in {0, token}
  BY <1>2 DEF TrustAll, TrustInv
<1>4. Several => ca[n] # 0
  <2>1. CASE cmd = "install"
    <3>1. Several => ca[n] = run
      BY <1>1, <1>2, <2>1, SeveralMulti
         DEF KnownRun, InstInv, Pending, AfterCerts, AfterEtcdStop, Late, AfterInit,
             AfterAdmin, Idle
    <3> QED
      BY <1>1, <3>1 DEF KnownRun, RunsIn, MembersIn, MemberInv, FoundedInv, Idle
  <2>2. CASE cmd = "recover"
    BY <1>1, <1>2, <2>2
       DEF TrustAll, PlacedInv, Pending, AfterCerts, AfterEtcdStop, Late, AfterInit, AfterAdmin
  <2>3. cmd # "add"
    BY <1>1, <1>2 DEF KnownRun, RunsIn, MembersIn, MemberInv, CallInv, Idle
  <2> QED
    BY <2>1, <2>2, <2>3 DEF KnownRun, RunsIn, TypeInv, TypeOK
<1>5. \A m \in Masters : member'[m] = IF m = n THEN token ELSE member[m]
  BY <1>1, NodeAssumption DEF KnownRun, RunsIn, TypeInv, TypeOK
<1> QED
  BY <1>1, <1>2, <1>3, <1>4, <1>5 DEF TrustAll, TrustInv, Several

LEMMA TrustStep ==
  ASSUME KnownRun, TrustAll, [Next]_vars PROVE TrustInv'
<1> USE DEF TrustAll
<1>1. ASSUME UNCHANGED <<member, ca, etcd>> PROVE TrustInv'
  BY <1>1, TrustLess
<1>2. ASSUME NEW n \in Node, OnNode(n) PROVE TrustInv'
  <2>1. CASE \/ RemoveKubePackages(n) \/ InstallKubePackages(n) \/ WipeEtcd(n) \/ CheckEtcd(n)
             \/ UploadCerts(n) \/ AdminConf(n) \/ TransferKubeconfig(n) \/ SetEnv(n) \/ WaitPods(n)
             \/ CreateToken(n) \/ SettleMaster(n) \/ FinalWait(n)
    <3>1. UNCHANGED <<member, ca, etcd>>
      BY <2>1 DEF RemoveKubePackages, InstallKubePackages, WipeEtcd, CheckEtcd, UploadCerts,
         AdminConf, TransferKubeconfig, SetEnv, WaitPods, CreateToken, SettleMaster, FinalWait,
         nodeVars
    <3> QED
      BY <1>1, <3>1
  <2>2. CASE ResetNode(n) \/ StopEtcd(n)
    <3>1. \A m \in Masters : member'[m] \in {0, member[m]} /\ ca'[m] = ca[m] /\ etcd'[m] \in {0, etcd[m]}
      BY <2>2, NodeAssumption DEF ResetNode, StopEtcd, KnownRun, RunsIn, TypeInv, TypeOK
    <3> QED
      BY <3>1, TrustLess
  <2>3. CASE StartEtcd(n)
    <3>1. UNCHANGED <<member, ca>> /\ \A m \in Masters : etcd'[m] \in {etcd[m], ca[m]}
      BY <2>3, NodeAssumption DEF StartEtcd, Bootstrap, KnownRun, RunsIn, TypeInv, TypeOK
    <3> QED
      BY <3>1, TrustLess
  <2>4. CASE JoinWorker(n)
    <3>1. n \notin Masters
      BY <2>4, FirstFacts
         DEF JoinWorker, Visit, IsFirst, KnownRun, RunsIn, LoopInv, Idle, Loop, Work
    <3>2. UNCHANGED <<ca, etcd>> /\ \A m \in Masters : member'[m] = member[m]
      BY <2>4, <3>1, NodeAssumption DEF JoinWorker, Join, KnownRun, RunsIn, TypeInv, TypeOK
    <3> QED
      BY <3>2, TrustLess
  <2> QED
    BY <1>2, <2>1, <2>2, <2>3, <2>4, TrustCerts, TrustFounds, TrustJoins DEF OnNode
<1>3. ASSUME NEW n \in Node, Lose(n) PROVE TrustInv'
  <2>1. \A m \in Masters : \/ member'[m] = 0 /\ ca'[m] = 0 /\ etcd'[m] = 0
                           \/ member'[m] = member[m] /\ ca'[m] = ca[m] /\ etcd'[m] = etcd[m]
    BY <1>3, NodeAssumption DEF Lose, KnownRun, RunsIn, TypeInv, TypeOK
  <2> QED
    BY <2>1, TrustLess
<1>4. CASE Operator \/ NextStage \/ CommandFails \/ Interrupt \/ UNCHANGED vars
  BY <1>1, <1>4 DEF Operator, StartInstall, StartAdd, StartRecover, Start, NextStage,
     CommandFails, Interrupt, End, nodeVars, vars
<1> QED
  BY <1>2, <1>3, <1>4 DEF Next, Program

\* What the operator provides for a recovery comes from a master that stays.
LEMMA GivenStart == ASSUME KnownRun, TrustAll, Operator PROVE GivenInv'
<1>1. CASE StartInstall \/ StartAdd
  BY <1>1 DEF StartInstall, StartAdd, Start, GivenInv
<1>2. CASE StartRecover
  <2>1. PICK n \in RecoverTargets : \E r \in Remotes : Start("recover", {n}, r)
    BY <1>2 DEF StartRecover
  <2>2. /\ targets' = {n} /\ UNCHANGED member
        /\ \E m \in Masters \ {n} : rootCa' = ca[m]
    BY <2>1 DEF Start
  <2>3. PICK m \in Masters \ {n} : rootCa' = ca[m]
    BY <2>2
  <2>4. Several /\ n \in Masters
    BY <2>1, <2>3, NodeAssumption DEF Several
  <2>5. \A k \in Masters : member[k] # 0 => ca[m] \in {0, member[k]}
    BY <2>3, <2>4 DEF TrustAll, TrustInv
  <2>6. ca[m] = 0 => member[m] = 0
    BY <2>3, <2>4 DEF TrustAll, TrustInv
  <2> QED
    BY <2>2, <2>3, <2>5, <2>6 DEF GivenInv
<1> QED
  BY <1>1, <1>2, <1>2 DEF Operator

LEMMA GivenStep == ASSUME KnownRun, TrustAll, [Next]_vars PROVE GivenInv'
<1>1. ASSUME UNCHANGED <<member, cmd, targets>>, stage \notin Idle, rootCa' = rootCa
      PROVE  GivenInv'
  BY <1>1 DEF TrustAll, GivenInv
<1>2. CASE Operator
  BY <1>2, GivenStart
<1>3. CASE NextStage
  <2>1. UNCHANGED <<member, cmd, targets>> /\ stage \notin Idle
        /\ (rootCa' = rootCa \/ stage' = "done")
    BY <1>3 DEF NextStage, nodeVars, callVars, Succ, Idle
  <2> QED
    BY <1>1, <2>1 DEF GivenInv, Idle
<1>4. CASE CommandFails \/ Interrupt
  BY <1>4 DEF CommandFails, Interrupt, End, GivenInv, Idle
<1>5. ASSUME NEW n \in Node, Lose(n) PROVE GivenInv'
  BY <1>5 DEF Lose, GivenInv
<1>6. ASSUME NEW n \in Node, OnNode(n) PROVE GivenInv'
  <2>1. /\ UNCHANGED <<cmd, targets, rootCa>> /\ stage \notin Idle
    BY <1>6 DEF OnNode, ResetNode, RemoveKubePackages, InstallKubePackages, DistributeCerts,
       StopEtcd, WipeEtcd, StartEtcd, CheckEtcd, UploadCerts, InitFirstMaster, AdminConf,
       TransferKubeconfig, SetEnv, WaitPods, CreateToken, JoinMaster, SettleMaster, JoinWorker,
       FinalWait, Visit, callVars, Idle
  <2>2. \A m \in Masters \ targets : member'[m] = member[m]
    BY <1>6, <2>1, RunStep, NodeAssumption DEF KnownRun, RunsIn, TypeInv, OthersAlone, Next, Program
  <2>3. ASSUME cmd = "recover", NEW m \in Masters
        PROVE  member'[m] \in {0, member[m], member[FirstMaster]}
    <3>1. ~InitFirstMaster(n)
      BY <2>3 DEF InitFirstMaster, Visit, IsFirst, KnownRun, RunsIn, LoopInv, Idle, Loop, Work,
         Founding, Recovery
    <3>2. CASE JoinMaster(n)
      <4>1. stage = "joinMaster" /\ Alive(token) /\ member' = [member EXCEPT ![n] = token]
        BY <3>2 DEF JoinMaster, Visit, Ready, Join
      <4>2. token = member[FirstMaster]
        BY <4>1 DEF Alive, AliveOn, KnownRun, RunsIn, MembersIn, MemberInv, TokenInv
      <4> QED
        BY <4>1, <4>2, NodeAssumption DEF KnownRun, RunsIn, TypeInv, TypeOK
    <3>3. CASE ResetNode(n) \/ JoinWorker(n)
      BY <3>3, NodeAssumption DEF ResetNode, JoinWorker, Join, KnownRun, RunsIn, TypeInv, TypeOK
    <3>4. CASE ~(ResetNode(n) \/ InitFirstMaster(n) \/ JoinMaster(n) \/ JoinWorker(n))
      BY <1>6, <3>4 DEF OnNode, RemoveKubePackages, InstallKubePackages, DistributeCerts,
         StopEtcd, WipeEtcd, StartEtcd, CheckEtcd, UploadCerts, AdminConf, TransferKubeconfig,
         SetEnv,
         WaitPods, CreateToken, SettleMaster, FinalWait, nodeVars
    <3> QED
      BY <3>1, <3>2, <3>3, <3>4
  <2>4. FirstMaster \in Masters
    BY FirstFacts DEF KnownRun
  <2>5. ASSUME cmd = "recover"
        PROVE  /\ \A m \in Masters : member'[m] # 0 => rootCa \in {0, member'[m]}
               /\ rootCa # 0 \/ \E m \in Masters \ targets : member'[m] = 0
    <3>1. \A m \in Masters : member[m] # 0 => rootCa \in {0, member[m]}
      BY <2>1, <2>5 DEF TrustAll, GivenInv
    <3>2. rootCa # 0 \/ \E m \in Masters \ targets : member[m] = 0
      BY <2>1, <2>5 DEF TrustAll, GivenInv
    <3> QED
      BY <2>2, <2>3, <2>4, <2>5, <3>1, <3>2
  <2> QED
    BY <2>1, <2>5 DEF GivenInv
<1>7. CASE UNCHANGED vars
  BY <1>7 DEF vars, nodeVars, callVars, TrustAll, GivenInv
<1> QED
  BY <1>2, <1>3, <1>4, <1>5, <1>6, <1>7 DEF Next, Program

LEMMA PlacedStep == ASSUME KnownRun, TrustAll, [Next]_vars PROVE PlacedInv'
<1> USE DEF AfterCerts, AfterEtcdStop, Late, AfterInit, AfterAdmin
<1>1. ASSUME UNCHANGED <<ca, rootCa, cmd, targets>>, stage' \in AfterCerts,
             stage \in AfterCerts \/ (stage = "certs" /\ todo = {})
      PROVE  PlacedInv'
  BY <1>1 DEF TrustAll, PlacedInv, Pending
<1>2. CASE NextStage
  <2>1. PICK s \in DOMAIN Succ : stage = s
    BY <1>2 DEF NextStage
  <2>2. /\ stage' = Succ[s] /\ todo = {} /\ UNCHANGED <<ca, cmd, targets>>
        /\ todo' = Work(Succ[s])
        /\ Succ[s] # "done" => rootCa' = rootCa
    BY <1>2, <2>1 DEF NextStage, nodeVars, callVars
  <2>3. CASE s = "package"
    <3>1. stage' = "certs" /\ (Recovery => todo' = targets)
      BY <2>2, <2>3, FirstFacts DEF Succ, Work, Multi, KnownRun
    <3> QED
      BY <2>2, <3>1 DEF PlacedInv, Pending, Recovery
  <2>4. CASE s = "reset" \/ s = "finish"
    BY <2>2, <2>4 DEF Succ, PlacedInv
  <2>5. CASE s \notin {"package", "reset", "finish"}
    <3>1. s \in {"certs"} \cup AfterCerts /\ Succ[s] \in AfterCerts
      BY <2>5 DEF Succ
    <3> QED
      BY <1>1, <2>1, <2>2, <3>1
  <2> QED
    BY <2>3, <2>4, <2>5
<1>3. CASE Operator
  BY <1>3 DEF Operator, StartInstall, StartAdd, StartRecover, Start, PlacedInv
<1>4. CASE CommandFails \/ Interrupt
  BY <1>4 DEF CommandFails, Interrupt, End, PlacedInv
<1>5. ASSUME NEW n \in Node, Lose(n) PROVE PlacedInv'
  BY <1>5 DEF Lose, PlacedInv, Idle
<1>6. ASSUME NEW n \in Node, OnNode(n) PROVE PlacedInv'
  <2>1. CASE ResetNode(n) \/ RemoveKubePackages(n) \/ InstallKubePackages(n)
    BY <2>1 DEF ResetNode, RemoveKubePackages, InstallKubePackages, Visit, Leave, PlacedInv
  <2>2. CASE DistributeCerts(n)
    <3>1. /\ stage = "certs" /\ stage' = "certs" /\ rootCa # 0 /\ todo' = todo \ {n}
          /\ ca' = [ca EXCEPT ![n] = rootCa] /\ UNCHANGED <<rootCa, cmd, targets>>
      BY <2>2 DEF DistributeCerts, Visit, Leave, Ready, callVars
    <3>2. cmd = "recover" => \A k \in targets \ todo' : ca'[k] = rootCa
      BY <3>1 DEF TrustAll, PlacedInv, Pending, KnownRun, RunsIn, TypeInv, TypeOK
    <3> QED
      BY <3>1, <3>2 DEF PlacedInv, Pending
  <2>3. CASE \/ StopEtcd(n) \/ WipeEtcd(n) \/ StartEtcd(n) \/ CheckEtcd(n)
             \/ UploadCerts(n) \/ InitFirstMaster(n) \/ AdminConf(n) \/ TransferKubeconfig(n)
             \/ SetEnv(n) \/ WaitPods(n) \/ CreateToken(n) \/ JoinMaster(n) \/ SettleMaster(n)
             \/ JoinWorker(n) \/ FinalWait(n)
    <3>1. /\ UNCHANGED <<ca, rootCa, cmd, targets>> /\ stage \in AfterCerts /\ stage' \in AfterCerts
      BY <2>3 DEF StopEtcd, WipeEtcd, StartEtcd, CheckEtcd, UploadCerts, InitFirstMaster, AdminConf,
         TransferKubeconfig, SetEnv, WaitPods, CreateToken, JoinMaster, SettleMaster, JoinWorker,
         FinalWait, Visit, Leave, nodeVars, callVars
    <3> QED
      BY <1>1, <3>1
  <2> QED
    BY <1>6, <2>1, <2>2, <2>3 DEF OnNode
<1>7. CASE UNCHANGED vars
  BY <1>7 DEF vars, nodeVars, callVars, TrustAll, PlacedInv, Pending
<1> QED
  BY <1>2, <1>3, <1>4, <1>5, <1>6, <1>7 DEF Next, Program

LEMMA TrustAlways ==
  ASSUME AddTargets \cap Masters = {} PROVE Spec => [](KnownRun /\ TrustAll)
<1>1. Init => TrustAll
  BY NodeAssumption DEF Init, TrustAll, TrustInv, GivenInv, PlacedInv, AfterCerts, AfterEtcdStop,
     Late, AfterInit, AfterAdmin
<1>2. KnownRun /\ TrustAll /\ [Next]_vars => TrustAll'
  BY TrustStep, GivenStep, PlacedStep DEF TrustAll
<1> QED
  BY <1>1, <1>2, InstAlways, PTL DEF Spec, KnownRun

(* --------------- the cluster a recovered master returns to ------------- *)

\* The first master of a cluster has its kubeadm configuration.
ConfigInv == member[First(Masters)] # 0 => kubeadmCfg[First(Masters)] # 0

\* Clusters of several masters live in an external etcd.
ExternalInv == Several => \A c \in Ids : registered[c] # {} => store[c] # 0

\* The key a recovery holds is that of the certificates it uploaded.
KeyInv ==
  cmd = "recover" /\ (stage \in Late \/ (stage = "upload" /\ todo = {})) =>
    secret[member[First(Masters)]] = certKey

FirstStays == First(Masters) \notin RecoverTargets

LEMMA FirstSame ==
  ASSUME RunsIn, stage \notin Idle
  PROVE  FirstMaster = First(Masters) /\ (Founding => cmd = "install")
<1>1. Founding => cmd = "install"
  BY DEF RunsIn, MembersIn, MemberInv, CallInv, Founding, Recovery, TargetMasters, TypeInv, TypeOK
<1>2. cmd = "install" => TargetMasters = Masters
  BY SeveralMulti
<1> QED
  BY <1>1, <1>2 DEF FirstMaster

LEMMA FirstNode == ASSUME FirstIsMaster PROVE First(Node) = First(Masters)
<1>1. IsFirst(First(Node), Node) /\ IsFirst(First(Masters), Masters)
  BY FirstIn, NodeAssumption
<1>2. IsFirst(First(Node), Masters)
  BY <1>1, NodeAssumption DEF FirstIsMaster, IsFirst
<1> QED
  BY <1>1, <1>2, FirstUnique, NodeAssumption

LEMMA ConfigStep == ASSUME RunsIn, ConfigInv, [Next]_vars PROVE ConfigInv'
<1> DEFINE F == First(Masters)
<1>1. F \in Masters /\ F \in Node
  BY FirstIn, NodeAssumption
<1>2. ASSUME UNCHANGED kubeadmCfg, member'[F] \in {0, member[F]} PROVE ConfigInv'
  BY <1>2 DEF ConfigInv
<1>3. ASSUME NEW n \in Node, OnNode(n) PROVE ConfigInv'
  <2>1. CASE \/ RemoveKubePackages(n) \/ InstallKubePackages(n) \/ DistributeCerts(n)
             \/ StopEtcd(n) \/ WipeEtcd(n) \/ StartEtcd(n) \/ CheckEtcd(n) \/ UploadCerts(n)
             \/ AdminConf(n) \/ TransferKubeconfig(n) \/ SetEnv(n) \/ WaitPods(n) \/ CreateToken(n)
             \/ SettleMaster(n) \/ FinalWait(n)
    <3>1. UNCHANGED <<kubeadmCfg, member>>
      BY <2>1 DEF RemoveKubePackages, InstallKubePackages, DistributeCerts, StopEtcd, WipeEtcd,
         StartEtcd, CheckEtcd, UploadCerts, AdminConf, TransferKubeconfig, SetEnv, WaitPods,
         CreateToken, SettleMaster, FinalWait, nodeVars
    <3> QED
      BY <1>2, <3>1
  <2>2. CASE ResetNode(n)
    <3>1. UNCHANGED kubeadmCfg /\ member'[F] \in {0, member[F]}
      BY <1>1, <2>2 DEF ResetNode, RunsIn, TypeInv, TypeOK
    <3> QED
      BY <1>2, <3>1
  <2>3. CASE InitFirstMaster(n)
    <3>1. stage = "init" /\ stage \notin Idle
      BY <2>3 DEF InitFirstMaster, Visit, Idle
    <3>2. run # 0
      BY <3>1 DEF RunsIn, MembersIn, MemberInv, FoundedInv
    <3> QED
      BY <1>1, <2>3, <3>2 DEF InitFirstMaster, ConfigInv, RunsIn, TypeInv, TypeOK
  <2>4. CASE JoinMaster(n)
    <3>1. /\ stage = "joinMaster" /\ Alive(token) /\ member[n] = 0 /\ UNCHANGED kubeadmCfg
          /\ member' = [member EXCEPT ![n] = token]
      BY <2>4 DEF JoinMaster, Visit, Ready, Clean, Join
    <3>2. token = member[FirstMaster] /\ token # 0 /\ FirstMaster = F
      BY <3>1, FirstSame DEF Alive, AliveOn, RunsIn, MembersIn, MemberInv, TokenInv, Idle
    <3>3. member'[F] = member[F]
      BY <1>1, <3>1, <3>2 DEF RunsIn, TypeInv, TypeOK
    <3> QED
      BY <1>2, <3>1, <3>3
  <2>5. CASE JoinWorker(n)
    <3>1. n \notin Masters
      BY <2>5, FirstFacts DEF JoinWorker, Visit, IsFirst, RunsIn, LoopInv, Idle, Loop, Work
    <3>2. UNCHANGED kubeadmCfg /\ member'[F] = member[F]
      BY <1>1, <2>5, <3>1 DEF JoinWorker, Join, RunsIn, TypeInv, TypeOK
    <3> QED
      BY <1>2, <3>2
  <2> QED
    BY <1>3, <2>1, <2>2, <2>3, <2>4, <2>5 DEF OnNode
<1>4. ASSUME NEW n \in Node, Lose(n) PROVE ConfigInv'
  BY <1>1, <1>4 DEF Lose, ConfigInv, RunsIn, TypeInv, TypeOK
<1>5. CASE Operator \/ NextStage \/ CommandFails \/ Interrupt \/ UNCHANGED vars
  <2>1. UNCHANGED <<kubeadmCfg, member>>
    BY <1>5 DEF Operator, StartInstall, StartAdd, StartRecover, Start, NextStage, CommandFails,
       Interrupt, End, nodeVars, vars
  <2> QED
    BY <1>2, <2>1
<1> QED
  BY <1>3, <1>4, <1>5 DEF Next, Program

LEMMA ExternalStep == ASSUME KnownRun, ExternalInv, [Next]_vars PROVE ExternalInv'
<1>1. ASSUME UNCHANGED <<registered, store>> PROVE ExternalInv'
  BY <1>1 DEF ExternalInv, Several
<1>2. ASSUME NEW n \in Node, OnNode(n) PROVE ExternalInv'
  <2>1. CASE \/ ResetNode(n) \/ RemoveKubePackages(n) \/ InstallKubePackages(n)
             \/ DistributeCerts(n) \/ StopEtcd(n) \/ WipeEtcd(n) \/ StartEtcd(n) \/ CheckEtcd(n)
             \/ UploadCerts(n) \/ AdminConf(n) \/ TransferKubeconfig(n) \/ SetEnv(n) \/ WaitPods(n)
             \/ CreateToken(n) \/ SettleMaster(n) \/ FinalWait(n)
    <3>1. UNCHANGED <<registered, store>>
      BY <2>1 DEF ResetNode, RemoveKubePackages, InstallKubePackages, DistributeCerts, StopEtcd,
         WipeEtcd, StartEtcd, CheckEtcd, UploadCerts, AdminConf, TransferKubeconfig, SetEnv,
         WaitPods, CreateToken, SettleMaster, FinalWait, clusterVars
    <3> QED
      BY <1>1, <3>1
  <2>2. CASE InitFirstMaster(n)
    <3>1. stage = "init" /\ n \in todo /\ stage \notin Idle
      BY <2>2 DEF InitFirstMaster, Visit, IsFirst, Idle
    <3>2. Founding
      BY <3>1 DEF KnownRun, RunsIn, LoopInv, Idle, Loop, Work
    <3>3. Several => Multi
      BY <3>1, <3>2, FirstSame, SeveralMulti DEF KnownRun
    <3>4. Several => store'[run] # 0 /\ \A c \in Ids \ {run} : store'[c] = store[c]
      BY <2>2, <3>3 DEF InitFirstMaster, EtcdQuorum, KnownRun, RunsIn, TypeInv, TypeOK
    <3>5. \A c \in Ids \ {run} : registered'[c] = registered[c]
      BY <2>2 DEF InitFirstMaster, KnownRun, RunsIn, TypeInv, TypeOK
    <3> QED
      BY <3>4, <3>5 DEF ExternalInv, Several
  <2>3. ASSUME NEW d \in Ids, registered[d] # {}, Join(n, d), UNCHANGED store PROVE ExternalInv'
    BY <2>3 DEF Join, ExternalInv, Several, KnownRun, RunsIn, TypeInv, TypeOK
  <2>4. CASE JoinMaster(n) \/ JoinWorker(n)
    <3>1. /\ \/ stage = "joinMaster" /\ Alive(token) /\ Join(n, token)
             \/ Alive(member[FirstMaster]) /\ Join(n, member[FirstMaster])
          /\ UNCHANGED store
      BY <2>4 DEF JoinMaster, JoinWorker, Visit, Ready
    <3>2. FirstMaster \in Node /\ member[FirstMaster] \in Ids
      BY FirstFacts DEF KnownRun, RunsIn, TypeInv, TypeOK
    <3>3. PICK d \in Ids : d # 0 /\ d = member[FirstMaster] /\ Join(n, d)
      BY <3>1, <3>2 DEF Alive, AliveOn, KnownRun, RunsIn, MembersIn, MemberInv, TokenInv
    <3>4. registered[d] # {}
      BY <3>2, <3>3 DEF KnownRun, RunsIn, MembersIn, MemberInv, FoundedInv
    <3> QED
      BY <2>3, <3>1, <3>3, <3>4
  <2> QED
    BY <1>2, <2>1, <2>2, <2>4 DEF OnNode
<1>3. ASSUME NEW n \in Node, Lose(n) PROVE ExternalInv'
  BY <1>1, <1>3 DEF Lose, clusterVars
<1>4. CASE Operator \/ NextStage \/ CommandFails \/ Interrupt \/ UNCHANGED vars
  BY <1>1, <1>4 DEF Operator, StartInstall, StartAdd, StartRecover, Start, NextStage,
     CommandFails, Interrupt, End, clusterVars, vars
<1> QED
  BY <1>2, <1>3, <1>4 DEF Next, Program

\* The master a recovery turns to is the first one of the configuration.
LEMMA MainIsFirst ==
  ASSUME FirstIsMaster, FirstStays, RunsIn, Recovery
  PROVE  MainMaster = First(Masters) /\ First(Masters) \notin targets
<1>1. PICK n \in RecoverTargets : targets = {n}
  BY DEF RunsIn, LoopInv, Recovery
<1>2. n \in Node /\ n # First(Node)
  BY <1>1, FirstNode, NodeAssumption DEF FirstStays
<1>3. First(targets) = n
  BY <1>1, <1>2, FirstIn
<1> QED
  BY <1>1, <1>2, <1>3, FirstNode DEF MainMaster

LEMMA KeyStep ==
  ASSUME FirstIsMaster, FirstStays, RunsIn, KeyInv, [Next]_vars PROVE KeyInv'
<1> DEFINE F == First(Masters)
<1> USE DEF Late, AfterInit, AfterAdmin
<1>1. F \in Masters /\ F \in Node
  BY FirstIn, NodeAssumption
<1>2. CASE NextStage
  <2>1. PICK s \in DOMAIN Succ : stage = s
    BY <1>2 DEF NextStage
  <2>2. /\ stage' = Succ[s] /\ todo = {} /\ UNCHANGED <<member, secret, cmd>>
        /\ todo' = Work(Succ[s])
        /\ Succ[s] # "done" => certKey' = certKey
    BY <1>2, <2>1 DEF NextStage, nodeVars, clusterVars, callVars
  <2>3. Succ[s] = "upload" /\ cmd = "recover" => todo' # {}
    BY <2>2 DEF Work, Recovery
  <2>4. Succ[s] \in Late => s = "upload" \/ s \in Late
    BY DEF Succ
  <2>5. Succ[s] \in Late => Succ[s] # "done"
    OBVIOUS
  <2> QED
    BY <2>1, <2>2, <2>3, <2>4, <2>5 DEF KeyInv
<1>3. CASE Operator
  BY <1>3 DEF Operator, StartInstall, StartAdd, StartRecover, Start, KeyInv
<1>4. CASE CommandFails \/ Interrupt
  BY <1>4 DEF CommandFails, Interrupt, End, KeyInv
<1>5. ASSUME NEW n \in Node, Lose(n) PROVE KeyInv'
  BY <1>5 DEF Lose, KeyInv, Idle
<1>6. ASSUME NEW n \in Node, OnNode(n) PROVE KeyInv'
  <2>1. CASE \/ ResetNode(n) \/ RemoveKubePackages(n) \/ InstallKubePackages(n)
             \/ DistributeCerts(n) \/ StopEtcd(n) \/ WipeEtcd(n) \/ StartEtcd(n) \/ CheckEtcd(n)
    BY <2>1 DEF ResetNode, RemoveKubePackages, InstallKubePackages, DistributeCerts, StopEtcd,
       WipeEtcd, StartEtcd, CheckEtcd, Visit, Leave, KeyInv
  <2>2. CASE UploadCerts(n) /\ cmd = "recover"
    <3>1. /\ stage = "upload" /\ n \in todo /\ stage' = "upload" /\ member' = member
          /\ secret' = [secret EXCEPT ![member[n]] = run] /\ certKey' = run
      BY <2>2 DEF UploadCerts, Visit, IsFirst, Leave, nodeVars
    <3>2. n = F
      BY <2>2, <3>1, MainIsFirst DEF RunsIn, LoopInv, Idle, Loop, Work, Recovery
    <3> QED
      BY <1>1, <3>1, <3>2 DEF KeyInv, RunsIn, TypeInv, TypeOK
  <2>3. CASE InitFirstMaster(n)
    <3>1. stage = "init" /\ n \in todo /\ stage \notin Idle /\ cmd' = cmd
      BY <2>3 DEF InitFirstMaster, Visit, IsFirst, Idle, callVars
    <3>2. Founding
      BY <3>1 DEF RunsIn, LoopInv, Idle, Loop, Work
    <3> QED
      BY <3>1, <3>2 DEF Founding, Recovery, KeyInv
  <2>4. CASE /\ cmd = "recover"
             /\ \/ AdminConf(n) \/ TransferKubeconfig(n) \/ SetEnv(n) \/ WaitPods(n)
                \/ CreateToken(n) \/ JoinMaster(n) \/ SettleMaster(n) \/ JoinWorker(n)
                \/ FinalWait(n)
    <3>1. UNCHANGED <<secret, certKey, cmd>> /\ stage \in Late /\ stage \notin Idle
      BY <2>4 DEF AdminConf, TransferKubeconfig, SetEnv, WaitPods, CreateToken, JoinMaster,
         SettleMaster, JoinWorker, FinalWait, Visit, clusterVars, callVars, Idle
    <3>2. F \notin targets
      BY <2>4, MainIsFirst DEF Recovery
    <3>3. member'[F] = member[F]
      BY <1>1, <1>6, <3>1, <3>2, RunStep DEF RunsIn, TypeInv, OthersAlone, Next, Program
    <3> QED
      BY <2>4, <3>1, <3>3 DEF KeyInv
  <2>5. cmd' = cmd
    BY <1>6 DEF OnNode, ResetNode, RemoveKubePackages, InstallKubePackages, DistributeCerts,
       StopEtcd, WipeEtcd, StartEtcd, CheckEtcd, UploadCerts, InitFirstMaster, AdminConf,
       TransferKubeconfig, SetEnv, WaitPods, CreateToken, JoinMaster, SettleMaster, JoinWorker,
       FinalWait, Visit, callVars
  <2>6. CASE cmd # "recover"
    BY <2>5, <2>6 DEF KeyInv
  <2> QED
    BY <1>6, <2>1, <2>2, <2>3, <2>4, <2>6 DEF OnNode
<1>7. CASE UNCHANGED vars
  BY <1>7 DEF vars, nodeVars, clusterVars, callVars, KeyInv
<1> QED
  BY <1>2, <1>3, <1>4, <1>5, <1>6, <1>7 DEF Next, Program

RecoveryInv == KnownRun /\ TrustAll /\ ConfigInv /\ ExternalInv /\ KeyInv

LEMMA RecoveryAlways ==
  ASSUME AddTargets \cap Masters = {}, FirstIsMaster, FirstStays PROVE Spec => []RecoveryInv
<1>1. First(Masters) \in Node
  BY FirstIn, NodeAssumption
<1>2. Init => ConfigInv /\ ExternalInv /\ KeyInv
  BY <1>1 DEF Init, ConfigInv, ExternalInv, KeyInv
<1>3. /\ KnownRun /\ ConfigInv /\ [Next]_vars => ConfigInv'
      /\ KnownRun /\ ExternalInv /\ [Next]_vars => ExternalInv'
      /\ KnownRun /\ KeyInv /\ [Next]_vars => KeyInv'
  BY ConfigStep, ExternalStep, KeyStep DEF KnownRun
<1> QED
  BY <1>2, <1>3, TrustAlways, PTL DEF Spec, RecoveryInv

(* ---------------------- the commands of a recovery --------------------- *)

\* Cluster c answers without the master to recover, every other master is in
\* it, and the node the program runs on can reach it.
Intact(c) == /\ AliveOn(c, Masters \ targets) /\ conf[remote] = c
             /\ \A m \in Masters \ targets : member[m] = c

\* An external etcd that answers to some masters answers to all.
LEMMA AliveMore ==
  ASSUME NEW c \in Ids, NEW S \in SUBSET Masters, AliveOn(c, S), store[c] # 0 PROVE Alive(c)
<1>1. PICK k \in Ids \ {0} :
        2 * Cardinality({m \in S : data[m] = store[c] /\ etcd[m] = k}) > Cardinality(Masters)
  BY DEF AliveOn
<1> DEFINE A == {m \in S : data[m] = store[c] /\ etcd[m] = k}
           B == {m \in Masters : data[m] = store[c] /\ etcd[m] = k}
<1>2. A \in SUBSET B /\ B \in SUBSET Masters
  OBVIOUS
<1>3. /\ Cardinality(A) <= Cardinality(B) /\ Cardinality(A) \in Nat /\ Cardinality(B) \in Nat
      /\ Cardinality(Masters) \in Nat
  BY <1>2, MastersFinite, FS_Subset
<1>4. 2 * Cardinality(B) > Cardinality(Masters)
  BY <1>1, <1>3
<1> QED
  BY <1>4 DEF Alive, AliveOn

\* The authority of a quorum is that of some master.
LEMMA QuorumAuthority ==
  ASSUME NEW c \in Ids, NEW S \in SUBSET Masters, AliveOn(c, S), store[c] # 0, TypeOK,
         NEW a, \A m \in S : etcd[m] \in {0, a}
  PROVE  \E d \in Ids : EtcdQuorum(d, a)
<1>1. PICK k \in Ids \ {0} :
        2 * Cardinality({m \in S : data[m] = store[c] /\ etcd[m] = k}) > Cardinality(Masters)
  BY DEF AliveOn
<1> DEFINE A == {m \in S : data[m] = store[c] /\ etcd[m] = k}
           B == {m \in Masters : data[m] = store[c] /\ etcd[m] = a}
<1>2. A # {}
  <2>1. SUFFICES ASSUME A = {} PROVE FALSE
    OBVIOUS
  <2>2. Cardinality(A) = 0 /\ Cardinality(Masters) \in Nat
    BY <2>1, FS_EmptySet, MastersFinite
  <2> QED
    BY <1>1, <2>2
<1>3. k = a
  BY <1>2
<1>4. A \in SUBSET B /\ B \in SUBSET Masters
  BY <1>3
<1>5. /\ Cardinality(A) <= Cardinality(B) /\ Cardinality(A) \in Nat /\ Cardinality(B) \in Nat
      /\ Cardinality(Masters) \in Nat
  BY <1>4, MastersFinite, FS_Subset
<1>6. 2 * Cardinality(B) > Cardinality(Masters)
  BY <1>1, <1>5
<1>7. EtcdQuorum(store[c], a)
  BY <1>6 DEF EtcdQuorum
<1> QED
  BY <1>7 DEF TypeOK

\* With such a cluster every command of a recovery finds what it needs.
LEMMA RecoverReady ==
  ASSUME FirstIsMaster, FirstStays, RecoveryInv, cmd = "recover", stage \notin Idle,
         NEW c \in Ids, Intact(c), NEW n \in todo, IsFirst(n, todo)
  PROVE  Ready(stage, n)
<1> DEFINE F == First(Masters)
<1> USE DEF RecoveryInv
<1>1. /\ Recovery /\ ~Founding /\ Multi /\ FirstMaster = F /\ MainMaster = F
      /\ F \in Masters \ targets /\ TargetWorkers = {} /\ TargetMasters = targets
  BY MainIsFirst, FirstFacts, FirstSame
     DEF KnownRun, Recovery, Founding, Multi
<1>2. PICK t \in RecoverTargets : targets = {t}
  BY DEF KnownRun, RunsIn, LoopInv
<1>3. t \in Masters /\ First(targets) = t /\ Several
  BY <1>1, <1>2, FirstIn, NodeAssumption DEF Several
<1>4. c # 0 /\ member[F] = c /\ F \in Node /\ registered[c] # {}
  BY <1>1, NodeAssumption
     DEF Intact, AliveOn, KnownRun, RunsIn, MembersIn, MemberInv, FoundedInv
<1>5. store[c] # 0 /\ kubeadmCfg[F] # 0
  BY <1>3, <1>4 DEF ExternalInv, ConfigInv
<1>6. Alive(c)
  BY <1>5, AliveMore DEF Intact
<1>7. rootCa = c
  <2>1. rootCa \in {0, c}
    BY <1>1, <1>4 DEF TrustAll, GivenInv
  <2>2. \A m \in Masters \ targets : member[m] # 0
    BY <1>4 DEF Intact
  <2>3. rootCa # 0
    BY <2>2 DEF TrustAll, GivenInv
  <2> QED
    BY <2>1, <2>3
<1>8. stage \notin {"reset", "unpack"} => n \in Work(Loop(stage))
  BY DEF KnownRun, RunsIn, LoopInv
<1>9. CASE stage = "certs"
  BY <1>4, <1>7, <1>9 DEF Ready
<1>10. CASE stage = "checkEtcd"
  <2>1. n = t /\ n \in targets
    BY <1>1, <1>2, <1>3, <1>8, <1>10 DEF Loop, Work
  <2>2. ca[n] = c
    BY <1>7, <1>10, <2>1 DEF TrustAll, PlacedInv, AfterCerts, AfterEtcdStop, Pending
  <2>3. \A m \in Masters \ targets : etcd[m] \in {0, c}
    BY <1>1, <1>3, <1>4 DEF TrustAll, TrustInv
  <2>4. \E d \in Ids : EtcdQuorum(d, c)
    BY <1>5, <2>3, QuorumAuthority DEF Intact, KnownRun, RunsIn, TypeInv
  <2> QED
    BY <1>4, <1>10, <2>2, <2>4 DEF Ready, EtcdAnswers
<1>11. CASE stage = "upload"
  <2>1. n = F
    BY <1>1, <1>8, <1>11 DEF Loop, Work
  <2> QED
    BY <1>1, <1>4, <1>5, <1>6, <1>11, <2>1 DEF Ready
<1>12. stage \notin {"init", "kubeconfig", "waitPods", "joinWorker"}
  BY <1>1, <1>8 DEF Loop, Work
<1>13. CASE stage = "env"
  BY <1>6, <1>8, <1>13 DEF Ready, Loop, Work, Intact
<1>14. CASE stage = "token"
  BY <1>1, <1>4, <1>6, <1>8, <1>14 DEF Ready, Loop, Work
<1>15. CASE stage = "joinMaster"
  <2>1. n \in targets
    BY <1>1, <1>8, <1>15 DEF Loop, Work
  <2>2. Clean(n)
    BY <1>15, <2>1
       DEF Clean, KnownRun, PkgInv, Pending, AfterCerts, AfterEtcdStop, Late, AfterInit, AfterAdmin,
           RunInv, UnjoinedInv, RunsIn, MembersIn, MemberInv
  <2>3. token = c
    BY <1>1, <1>4, <1>15 DEF KnownRun, RunInv, JoinedInv
  <2>4. secret[c] = certKey
    BY <1>4, <1>15 DEF KeyInv, Late, AfterInit, AfterAdmin
  <2> QED
    BY <1>6, <1>15, <2>2, <2>3, <2>4 DEF Ready
<1>16. CASE stage = "settle"
  BY <1>6, <1>16 DEF Ready, Intact
<1>17. CASE stage \notin {"certs", "checkEtcd", "upload", "init", "kubeconfig", "env", "waitPods",
                          "token", "joinMaster", "settle", "joinWorker"}
  BY <1>17 DEF Ready
<1> QED
  BY <1>9, <1>10, <1>11, <1>12, <1>13, <1>14, <1>15, <1>16, <1>17

\* The loss of a node never makes a cluster intact.
LEMMA IntactBefore ==
  ASSUME KnownRun, NEW n \in Node, Lose(n), NEW c \in Ids, Intact(c)' PROVE Intact(c)
<1>1. /\ member' = [member EXCEPT ![n] = 0] /\ procs' = [procs EXCEPT ![n] = 0]
      /\ conf' = [conf EXCEPT ![n] = 0] /\ data' = [data EXCEPT ![n] = 0]
      /\ etcd' = [etcd EXCEPT ![n] = 0] /\ UNCHANGED <<store, registered, targets, remote>>
  BY DEF Lose, clusterVars, callVars
<1>2. c # 0 /\ remote \in Node
  BY <1>1, NodeAssumption DEF Intact, AliveOn, KnownRun, RunsIn, TypeInv, TypeOK
<1>3. n \notin Masters \ targets
  BY <1>1, <1>2, NodeAssumption DEF Intact, KnownRun, RunsIn, TypeInv, TypeOK
<1>4. \A m \in Masters \ targets : /\ member'[m] = member[m] /\ procs'[m] = procs[m]
                                   /\ data'[m] = data[m] /\ etcd'[m] = etcd[m]
  BY <1>1, <1>3, NodeAssumption DEF KnownRun, RunsIn, TypeInv, TypeOK
<1>5. conf[remote] = c
  BY <1>1, <1>2 DEF Intact, KnownRun, RunsIn, TypeInv, TypeOK
<1>6. AliveOn(c, Masters \ targets)
  <2>1. PICK S \in SUBSET Masters : S = Masters \ targets
    OBVIOUS
  <2>2. AliveOn(c, S)'
    BY <1>1, <2>1 DEF Intact
  <2>3. \A m \in S : procs'[m] = procs[m] /\ data'[m] = data[m] /\ etcd'[m] = etcd[m]
    BY <1>4, <2>1
  <2>4. CASE store[c] # 0
    <3>1. PICK k \in Ids \ {0} :
            2 * Cardinality({m \in S : data'[m] = store[c] /\ etcd'[m] = k}) > Cardinality(Masters)
      BY <1>1, <2>2, <2>4 DEF AliveOn
    <3>2. {m \in S : data'[m] = store[c] /\ etcd'[m] = k}
            = {m \in S : data[m] = store[c] /\ etcd[m] = k}
      BY <2>3
    <3>3. 2 * Cardinality({m \in S : data[m] = store[c] /\ etcd[m] = k}) > Cardinality(Masters)
      BY <3>1, <3>2
    <3> QED
      BY <1>2, <2>1, <2>2, <2>3, <2>4, <3>3 DEF AliveOn
  <2>5. CASE store[c] = 0
    <3>1. {m \in registered[c] \cap S : procs'[m] = c} = {m \in registered[c] \cap S : procs[m] = c}
      BY <2>3
    <3> QED
      BY <1>1, <2>1, <2>2, <2>3, <2>5, <3>1 DEF AliveOn
  <2> QED
    BY <2>4, <2>5
<1> QED
  BY <1>1, <1>4, <1>5, <1>6 DEF Intact

\* recover node: none of its commands fails while every other master is in the
\* cluster, the cluster answers without the master to recover, and the
\* program's own node can reach it.  The lost node is not the first master:
\* run cluster_recover_first shows how that recovery fails.
THEOREM Recovers ==
  ASSUME AddTargets \cap Masters = {}, FirstIsMaster, FirstStays
  PROVE  Spec => []RecoverSucceeds
<1>1. Init => RecoverSucceeds
  BY DEF Init, RecoverSucceeds
<1>2. ASSUME RecoveryInv, RecoverSucceeds, [Next]_vars PROVE RecoverSucceeds'
  <2>1. CASE CommandFails
    <3>1. cmd = "recover" => \A c \in Ids : ~Intact(c)
      BY <1>2, <2>1, RecoverReady DEF CommandFails
    <3>2. \A c \in Ids : Intact(c)' => Intact(c)
      BY <2>1 DEF CommandFails, End, nodeVars, clusterVars, callVars, Intact, AliveOn
    <3> QED
      BY <2>1, <3>1, <3>2 DEF CommandFails, End, callVars, RecoverSucceeds, Intact
  <2>2. ASSUME NEW n \in Node, OnNode(n) PROVE stage' # "failed"
    BY <2>2 DEF OnNode, ResetNode, RemoveKubePackages, InstallKubePackages, DistributeCerts,
       StopEtcd, WipeEtcd, StartEtcd, CheckEtcd, UploadCerts, InitFirstMaster, AdminConf,
       TransferKubeconfig, SetEnv, WaitPods, CreateToken, JoinMaster, SettleMaster, JoinWorker,
       FinalWait, Visit, Leave
  <2>3. CASE NextStage
    BY <2>3, SuccOnly DEF NextStage, RecoverSucceeds
  <2>4. CASE Operator \/ Interrupt
    BY <2>4 DEF Operator, StartInstall, StartAdd, StartRecover, Start, Interrupt, End,
       RecoverSucceeds
  <2>5. ASSUME NEW n \in Node, Lose(n) PROVE RecoverSucceeds'
    <3>1. \A c \in Ids : Intact(c)' => Intact(c)
      BY <1>2, <2>5, IntactBefore DEF RecoveryInv
    <3>2. UNCHANGED <<stage, blame, cmd>>
      BY <2>5 DEF Lose, callVars
    <3> QED
      BY <1>2, <3>1, <3>2 DEF RecoverSucceeds, Intact
  <2>6. CASE UNCHANGED vars
    <3>1. \A c \in Ids : Intact(c)' => Intact(c)
      BY <2>6 DEF vars, nodeVars, clusterVars, callVars, Intact, AliveOn
    <3>2. UNCHANGED <<stage, blame, cmd>>
      BY <2>6 DEF vars, callVars
    <3> QED
      BY <1>2, <3>1, <3>2 DEF RecoverSucceeds, Intact
  <2> QED
    BY <1>2, <2>1, <2>2, <2>3, <2>4, <2>5, <2>6 DEF Next, Program, RecoverSucceeds
<1> QED
  BY <1>1, <1>2, RecoveryAlways, PTL DEF Spec
=============================================================================
