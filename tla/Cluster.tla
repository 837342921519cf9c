------------------------------- MODULE Cluster -------------------------------
(***************************************************************************)
(* Cluster formation by tkube: what the commands `install`, `add node` and *)
(* `recover node` do to the nodes of one deployment configuration, over    *)
(* several runs of the program, any of which may be cut short by a failing *)
(* command or by SIGINT, and between which a node may be lost.             *)
(*                                                                         *)
(* core.Install is a pipeline of loops over nodes (pkg/core/tkube.go).     *)
(* Each loop is a stage; todo holds the nodes the loop has still to visit  *)
(* and IsFirst picks them in the order of the configuration.  kubeadm,     *)
(* etcd and kubectl are external: Ready says when such a command succeeds  *)
(* on a node, and a command that fails ends the program (os.Exit(msg, 1)). *)
(*                                                                         *)
(* The number of the run names whatever the run creates: its certificate   *)
(* authority, its certificate key, its etcd data and its cluster.  0 means *)
(* "none".                                                                 *)
(***************************************************************************)
EXTENDS Integers, FiniteSets

CONSTANTS
  Node,            \* the nodes of the deployment configuration
  Masters,         \* those with kubeType "master"
  Position,        \* place of a node in the list "nodes" of the configuration
  CalicoEnv,       \* the configuration names environment variables for Calico
  Remotes,         \* nodes the program may be run on (or pointed at: --remote)
  AddTargets,      \* nodes the operator gives to `add node`
  RecoverTargets,  \* nodes the operator gives to `recover node`
  MaxRuns,         \* bound: runs of the program
  MaxLosses        \* bound: nodes that are lost and come back empty

IsFirst(n, S) == n \in S /\ \A k \in S : Position[n] <= Position[k]

ASSUME NodeAssumption ==
  /\ IsFiniteSet(Node)
  /\ Masters \subseteq Node /\ Masters # {}
  /\ Remotes \subseteq Node
  /\ AddTargets \subseteq Node
  /\ RecoverTargets \subseteq Masters
  \* with a single node, recover reads past the end of the list of nodes
  /\ RecoverTargets # {} => \E n, k \in Node : n # k
ASSUME OrderAssumption ==
  /\ Position \in [Node -> Nat]
  /\ \A n, k \in Node : Position[n] = Position[k] => n = k
  /\ \A S \in SUBSET Node : S # {} => \E n \in S : IsFirst(n, S)
ASSUME BoundAssumption ==
  CalicoEnv \in BOOLEAN /\ MaxRuns \in Nat \ {0} /\ MaxLosses \in Nat

First(S) == CHOOSE n \in S : IsFirst(n, S)
Ids  == 0 .. MaxRuns

VARIABLES
  \* on the nodes
  pkg,         \* kubelet, kubectl, kubeadm: not installed, another version, the wanted one
  member,      \* the cluster /etc/kubernetes and /var/lib/kubelet belong to
  procs,       \* the cluster whose containers and kubelet run on the node
  conf,        \* the cluster $HOME/.kube/config leads to
  kubeadmCfg,  \* the run that wrote kubeadm-config.yaml
  ca,          \* the authority of the files in /etc/etcd/pki
  data,        \* the incarnation of etcd whose data is in /var/lib/etcd
  etcd,        \* the authority the running etcd service loaded
  \* in the clusters
  store,       \* the external etcd data a cluster lives in, 0: etcd is stacked
  secret,      \* the key the uploaded control-plane certificates are encrypted with
  registered,  \* the nodes with a Node object, and pods, in the cluster
  \* in the process
  run, cmd, targets, remote, stage, todo, need, rootCa, certKey, token, blame,
  losses

nodeVars    == <<pkg, member, procs, conf, kubeadmCfg, ca, data, etcd>>
clusterVars == <<store, secret, registered>>
callVars    == <<run, cmd, targets, remote>>
vars == <<nodeVars, clusterVars, callVars, stage, todo, need, rootCa, certKey,
          token, blame, losses>>

(* ------------------------- the stages of a run ------------------------- *)

Recovery      == cmd = "recover"
\* Faulty variant: the masters of the configuration instead of the run's.
TargetMasters_Config == Masters

TargetMasters == targets \cap Masters
TargetWorkers == targets \ Masters

\* multiMasterDeployment as Install leaves it; it stays false for workers only.
Multi == Recovery \/ Cardinality(TargetMasters) > 1

\* Faulty variant: the guard !masterRecovery of kubeadm init is dropped.
Founding_AlsoRecovery == TargetMasters # {}

\* Some node of the run becomes the first master of a new cluster;
\* firstMasterNode of initKubernetes.
Founding    == TargetMasters # {} /\ ~Recovery
FirstMaster == IF Founding THEN First(TargetMasters) ELSE First(Masters)

\* mainMasterIP: the first node of the configuration, or the second one when
\* the first is the one to recover.
MainMaster ==
  IF First(targets) = First(Node) THEN First(Node \ {First(Node)}) ELSE First(Node)

Idle == {"done", "failed"}
Succ == [reset      |-> "package",    package   |-> "certs",
         certs      |-> "stopEtcd",   stopEtcd  |-> "startEtcd",
         startEtcd  |-> "checkEtcd",  checkEtcd |-> "upload",
         upload     |-> "init",       init      |-> "admin",
         admin      |-> "kubeconfig", kubeconfig |-> "env",
         env        |-> "waitPods",   waitPods  |-> "token",
         token      |-> "joinMaster", joinMaster |-> "joinWorker",
         joinWorker |-> "finish",     finish    |-> "done"]
Stage == DOMAIN Succ \cup {"unpack", "wipeEtcd", "settle"} \cup Idle

\* The nodes the loop of a stage visits.  A stage whose code is a single
\* command visits the node the command runs on.
Work(s) ==
  CASE s = "package"    -> need
    [] s \in {"certs", "startEtcd"} -> IF Multi THEN TargetMasters ELSE {}
    [] s = "stopEtcd"   -> TargetMasters
    [] s = "checkEtcd"  -> IF Multi /\ TargetMasters # {} THEN {First(targets)} ELSE {}
    [] s = "upload"     -> IF Recovery THEN {MainMaster} ELSE {}
    [] s \in {"init", "admin"} -> IF Founding THEN {FirstMaster} ELSE {}
    [] s \in {"kubeconfig", "joinWorker"} -> TargetWorkers
    [] s = "env"        -> IF CalicoEnv THEN {remote} ELSE {}
    [] s = "waitPods"   -> IF Recovery THEN {} ELSE {remote}
    [] s = "token"      -> IF Multi THEN {FirstMaster} ELSE {}
    [] s = "joinMaster" -> IF Recovery THEN TargetMasters
                           ELSE TargetMasters \ {FirstMaster}
    [] s = "finish"     -> {remote}
    [] OTHER            -> {}

(* --------------- what kubeadm, etcd and kubectl answer ----------------- *)

\* etcd has a quorum of configured masters on data d that trust authority k.
EtcdQuorum(d, k) ==
  d # 0 /\ 2 * Cardinality({m \in Masters : data[m] = d /\ etcd[m] = k})
             > Cardinality(Masters)
EtcdAnswers(n) == ca[n] # 0 /\ \E d \in Ids : EtcdQuorum(d, ca[n])

\* The API server of cluster c answers when the masters in S are up.
AliveOn(c, S) ==
  /\ c # 0
  /\ \E m \in S : procs[m] = c
  /\ IF store[c] # 0
     THEN \E k \in Ids \ {0} :
            2 * Cardinality({m \in S : data[m] = store[c] /\ etcd[m] = k})
              > Cardinality(Masters)
     ELSE 2 * Cardinality({m \in registered[c] \cap S : procs[m] = c})
            > Cardinality(registered[c] \cap Masters)
Alive(c) == AliveOn(c, Masters)

\* The preflight checks of kubeadm init and kubeadm join.
Clean(n) == pkg[n] = "wanted" /\ member[n] = 0 /\ procs[n] = 0

\* The command of stage s succeeds on node n.
Ready(s, n) ==
  CASE s = "certs"      -> rootCa # 0
    [] s = "checkEtcd"  -> EtcdAnswers(n)
    [] s = "upload"     -> kubeadmCfg[n] # 0 /\ n \in Masters /\ Alive(member[n])
    [] s = "init"       -> /\ Clean(n)
                           /\ IF Multi THEN EtcdAnswers(n)
                              ELSE data[n] = 0 /\ etcd[n] = 0
    [] s = "kubeconfig" -> conf[FirstMaster] # 0
    [] s \in {"env", "waitPods"} -> Alive(conf[n])
    [] s = "token"      -> Alive(member[n])
    [] s = "joinMaster" -> Clean(n) /\ Alive(token) /\ secret[token] = certKey
    [] s = "settle"     -> Alive(conf[remote])
    [] s = "joinWorker" -> Clean(n) /\ Alive(member[FirstMaster])
    [] OTHER            -> TRUE

(* ----------------------------- the process ----------------------------- *)

Init ==
  /\ \E p \in {"none", "other"} : pkg = [n \in Node |-> p]
  /\ member = [n \in Node |-> 0] /\ procs = [n \in Node |-> 0]
  /\ conf = [n \in Node |-> 0]   /\ kubeadmCfg = [n \in Node |-> 0]
  /\ ca = [n \in Node |-> 0]     /\ data = [n \in Node |-> 0]
  /\ etcd = [n \in Node |-> 0]
  /\ store = [c \in Ids |-> 0]   /\ secret = [c \in Ids |-> 0]
  /\ registered = [c \in Ids |-> {}]
  /\ run = 0 /\ cmd = "install" /\ targets = {} /\ remote \in Remotes
  /\ stage = "done" /\ todo = {} /\ need = {}
  /\ rootCa = 0 /\ certKey = 0 /\ token = 0 /\ blame = "nobody"
  /\ losses = 0

\* A run is started on node r.  The wanted Kubernetes version may differ from
\* the one of the run before.  For a recovery the operator has put the etcd
\* certificates of another master (if it has any) in the recovery directory.
Start(k, T, r) ==
  /\ stage \in Idle /\ run < MaxRuns
  /\ run' = run + 1 /\ cmd' = k /\ targets' = T /\ remote' = r
  /\ stage' = "reset" /\ todo' = T /\ blame' = "nobody"
  /\ \E upgrade \in BOOLEAN :
       pkg' = [n \in Node |-> IF upgrade /\ pkg[n] = "wanted" THEN "other" ELSE pkg[n]]
  /\ IF k = "recover" THEN \E m \in Masters \ T : rootCa' = ca[m]
                      ELSE rootCa' = run + 1
  /\ UNCHANGED <<member, procs, conf, kubeadmCfg, ca, data, etcd, clusterVars,
                 need, certKey, token, losses>>

\* install; install --skip-workers
StartInstall == \E T \in {Node, Masters}, r \in Remotes : Start("install", T, r)
StartAdd     == \E n \in AddTargets, r \in Remotes : Start("add", {n}, r)
StartRecover == \E n \in RecoverTargets, r \in Remotes : Start("recover", {n}, r)

NextStage ==
  /\ stage \in DOMAIN Succ /\ todo = {}
  /\ stage' = Succ[stage] /\ todo' = Work(Succ[stage])
  /\ IF Succ[stage] = "done"
     THEN need' = {} /\ certKey' = 0 /\ token' = 0 /\ rootCa' = 0
     ELSE UNCHANGED <<need, certKey, token, rootCa>>
  /\ UNCHANGED <<nodeVars, clusterVars, callVars, blame, losses>>

\* The process ends with code 1 and forgets what it held in memory.
End(who) ==
  /\ stage' = "failed" /\ blame' = who
  /\ todo' = {} /\ need' = {} /\ certKey' = 0 /\ token' = 0 /\ rootCa' = 0
  /\ UNCHANGED <<nodeVars, clusterVars, callVars, losses>>

\* A command whose precondition does not hold fails: os.Exit(err.Error(), 1).
CommandFails ==
  /\ stage \notin Idle
  /\ \E n \in todo : IsFirst(n, todo) /\ ~Ready(stage, n)
  /\ End("command")

\* SIGINT or SIGTERM, a lost connection, a failing disk: the run ends between
\* two commands for a reason outside the program.
Interrupt == stage \notin Idle /\ End("outside")

\* The loop of stage s visits n, whose command succeeds.
Visit(s, n) ==
  /\ stage = s /\ IsFirst(n, todo) /\ Ready(s, n)
  /\ UNCHANGED <<callVars, blame, losses>>
Leave(n) == stage' = stage /\ todo' = todo \ {n}

(* --------------- kube packages: purge and installation ----------------- *)

\* kubeadm reset runs only where kubeadm is installed; the directories are
\* removed in any case.
\* Faulty variant: kubeadm reset only where the wanted version is installed.
ResetNode_OnlyWanted(n) ==
  /\ Visit("reset", n)
  /\ procs' = [procs EXCEPT ![n] = IF pkg[n] = "wanted" THEN 0 ELSE @]
  /\ member' = [member EXCEPT ![n] = 0]
  /\ conf' = [conf EXCEPT ![n] = 0]
  /\ stage' = "unpack"
  /\ UNCHANGED <<pkg, kubeadmCfg, ca, data, etcd, clusterVars, todo, need,
                 rootCa, certKey, token>>

ResetNode(n) ==
  /\ Visit("reset", n)
  /\ procs' = [procs EXCEPT ![n] = IF pkg[n] = "none" THEN @ ELSE 0]
  /\ member' = [member EXCEPT ![n] = 0]
  /\ conf' = [conf EXCEPT ![n] = 0]
  /\ stage' = "unpack"
  /\ UNCHANGED <<pkg, kubeadmCfg, ca, data, etcd, clusterVars, todo, need,
                 rootCa, certKey, token>>

RemoveKubePackages(n) ==
  /\ Visit("unpack", n)
  /\ pkg' = [pkg EXCEPT ![n] = IF @ = "other" THEN "none" ELSE @]
  /\ need' = IF pkg[n] = "wanted" THEN need ELSE need \cup {n}
  /\ stage' = "reset" /\ todo' = todo \ {n}
  /\ UNCHANGED <<member, procs, conf, kubeadmCfg, ca, data, etcd, clusterVars,
                 rootCa, certKey, token>>

InstallKubePackages(n) ==
  /\ Visit("package", n) /\ Leave(n)
  /\ pkg' = [pkg EXCEPT ![n] = "wanted"]
  /\ UNCHANGED <<member, procs, conf, kubeadmCfg, ca, data, etcd, clusterVars,
                 need, rootCa, certKey, token>>

(* --------------------------- etcd on masters --------------------------- *)

\* Faulty variant: certificates that are already there are kept.
DistributeCerts_IfAbsent(n) ==
  /\ Visit("certs", n) /\ Leave(n)
  /\ ca' = [ca EXCEPT ![n] = IF @ = 0 THEN rootCa ELSE @]
  /\ UNCHANGED <<pkg, member, procs, conf, kubeadmCfg, data, etcd, clusterVars,
                 need, rootCa, certKey, token>>

DistributeCerts(n) ==
  /\ Visit("certs", n) /\ Leave(n)
  /\ ca' = [ca EXCEPT ![n] = rootCa]
  /\ UNCHANGED <<pkg, member, procs, conf, kubeadmCfg, data, etcd, clusterVars,
                 need, rootCa, certKey, token>>

\* service etcd stop
StopEtcd(n) ==
  /\ Visit("stopEtcd", n)
  /\ etcd' = [etcd EXCEPT ![n] = 0]
  /\ stage' = "wipeEtcd" /\ todo' = todo
  /\ UNCHANGED <<pkg, member, procs, conf, kubeadmCfg, ca, data, clusterVars,
                 need, rootCa, certKey, token>>

\* Faulty variant: masters that keep their etcd binary keep their data as well.
WipeEtcd_NotIfStopped(n) ==
  /\ Visit("wipeEtcd", n)
  /\ stage' = "stopEtcd" /\ todo' = todo \ {n}
  /\ UNCHANGED <<pkg, member, procs, conf, kubeadmCfg, ca, data, etcd,
                 clusterVars, need, rootCa, certKey, token>>

\* rm -rf /var/lib/etcd
WipeEtcd(n) ==
  /\ Visit("wipeEtcd", n)
  /\ data' = [data EXCEPT ![n] = 0]
  /\ stage' = "stopEtcd" /\ todo' = todo \ {n}
  /\ UNCHANGED <<pkg, member, procs, conf, kubeadmCfg, ca, etcd, clusterVars,
                 need, rootCa, certKey, token>>

\* etcd keeps the data it finds.  Without data it bootstraps with the other
\* configured masters (--initial-cluster-state=new); when one that runs already
\* holds data of an earlier bootstrap, etcd is admitted to it if both trust the
\* same authority, or it refuses to start.
PeerData(n) == {data[m] : m \in {k \in Masters \ {n} : etcd[k] # 0}} \ {0, run}
Bootstrap(n) ==
  IF data[n] # 0 THEN data' = data /\ etcd' = [etcd EXCEPT ![n] = ca[n]]
  ELSE IF PeerData(n) = {}
  THEN data' = [data EXCEPT ![n] = run] /\ etcd' = [etcd EXCEPT ![n] = ca[n]]
  ELSE \/ \E m \in Masters \ {n} :
            /\ data[m] \in PeerData(n) /\ etcd[m] = ca[n]
            /\ data' = [data EXCEPT ![n] = data[m]]
            /\ etcd' = [etcd EXCEPT ![n] = ca[n]]
       \/ UNCHANGED <<data, etcd>>

StartEtcd(n) ==
  /\ Visit("startEtcd", n) /\ Leave(n) /\ Bootstrap(n)
  /\ UNCHANGED <<pkg, member, procs, conf, kubeadmCfg, ca, clusterVars, need,
                 rootCa, certKey, token>>

\* Only a command: the check of etcd, kubectl set env, the wait for the pods
\* of the first master and the last wait.
CheckEtcd(n) ==
  /\ Visit("checkEtcd", n) /\ Leave(n)
  /\ UNCHANGED <<nodeVars, clusterVars, need, rootCa, certKey, token>>

(* --------------------------- initKubernetes ---------------------------- *)

\* Faulty variant: the new key is not taken from the output of upload-certs.
UploadCerts_KeyLost(n) ==
  /\ Visit("upload", n) /\ Leave(n)
  /\ secret' = [secret EXCEPT ![member[n]] = run]
  /\ UNCHANGED <<nodeVars, store, registered, need, rootCa, certKey, token>>

UploadCerts(n) ==
  /\ Visit("upload", n) /\ Leave(n)
  /\ secret' = [secret EXCEPT ![member[n]] = run]
  /\ certKey' = run
  /\ UNCHANGED <<nodeVars, store, registered, need, rootCa, token>>

\* kubeadm-config.yaml is written and kubeadm init run on the first master.
InitFirstMaster(n) ==
  /\ Visit("init", n) /\ Leave(n)
  /\ kubeadmCfg' = [kubeadmCfg EXCEPT ![n] = run]
  /\ member' = [member EXCEPT ![n] = run]
  /\ procs' = [procs EXCEPT ![n] = run]
  /\ certKey' = run
  /\ secret' = [secret EXCEPT ![run] = run]
  /\ registered' = [registered EXCEPT ![run] = {n}]
  /\ IF Multi THEN \E d \in Ids : /\ EtcdQuorum(d, ca[n])
                                  /\ store' = [store EXCEPT ![run] = d]
              ELSE store' = [store EXCEPT ![run] = 0]
  /\ UNCHANGED <<pkg, conf, ca, data, etcd, need, rootCa, token>>

\* admin.conf becomes the kubeconfig of the user; Calico is applied.
AdminConf(n) ==
  /\ Visit("admin", n) /\ Leave(n)
  /\ conf' = [conf EXCEPT ![n] = member[n]]
  /\ UNCHANGED <<pkg, member, procs, kubeadmCfg, ca, data, etcd, clusterVars,
                 need, rootCa, certKey, token>>

TransferKubeconfig(n) ==
  /\ Visit("kubeconfig", n) /\ Leave(n)
  /\ conf' = [conf EXCEPT ![n] = conf[FirstMaster]]
  /\ UNCHANGED <<pkg, member, procs, kubeadmCfg, ca, data, etcd, clusterVars,
                 need, rootCa, certKey, token>>

SetEnv(n) ==
  /\ Visit("env", n) /\ Leave(n)
  /\ UNCHANGED <<nodeVars, clusterVars, need, rootCa, certKey, token>>

\* Faulty variant: the pods of all masters of the run are waited for.
PodsListed_AllMasters(n, at) == TargetMasters \subseteq registered[conf[at]]

\* The pods of a master exist in the cluster the node at hand talks to.
PodsListed(n, at) == n \in registered[conf[at]]

WaitPods(n) ==
  /\ Visit("waitPods", n) /\ Leave(n)
  /\ PodsListed(FirstMaster, n)
  /\ UNCHANGED <<nodeVars, clusterVars, need, rootCa, certKey, token>>

\* Faulty variant: a failing command's output is taken for the token.
CreateToken_ErrorText(n) ==
  /\ Visit("token", n) /\ Leave(n)
  /\ token' = -1
  /\ UNCHANGED <<nodeVars, clusterVars, need, rootCa, certKey>>

CreateToken(n) ==
  /\ Visit("token", n) /\ Leave(n)
  /\ token' = member[n]
  /\ UNCHANGED <<nodeVars, clusterVars, need, rootCa, certKey>>

Join(n, c) ==
  /\ member' = [member EXCEPT ![n] = c]
  /\ procs' = [procs EXCEPT ![n] = c]
  /\ registered' = [registered EXCEPT ![c] = @ \cup {n}]

JoinMaster(n) ==
  /\ Visit("joinMaster", n) /\ Join(n, token)
  /\ stage' = "settle" /\ todo' = todo
  /\ UNCHANGED <<pkg, conf, kubeadmCfg, ca, data, etcd, store, secret, need,
                 rootCa, certKey, token>>

\* Faulty variant: the joined master does not get its kubeconfig.
SettleMaster_NoConf(n) ==
  /\ Visit("settle", n)
  /\ PodsListed(n, remote)
  /\ stage' = "joinMaster" /\ todo' = todo \ {n}
  /\ UNCHANGED <<nodeVars, clusterVars, need, rootCa, certKey, token>>

\* The pods of the joined master are waited for, and its kubeconfig copied.
SettleMaster(n) ==
  /\ Visit("settle", n)
  /\ PodsListed(n, remote)
  /\ conf' = [conf EXCEPT ![n] = member[n]]
  /\ stage' = "joinMaster" /\ todo' = todo \ {n}
  /\ UNCHANGED <<pkg, member, procs, kubeadmCfg, ca, data, etcd, clusterVars,
                 need, rootCa, certKey, token>>

JoinWorker(n) ==
  /\ Visit("joinWorker", n) /\ Leave(n) /\ Join(n, member[FirstMaster])
  /\ UNCHANGED <<pkg, conf, kubeadmCfg, ca, data, etcd, store, secret, need,
                 rootCa, certKey, token>>

\* WaitUntilPodsRunning: an error counts as "not ready" and the loop goes on.
FinalWait(n) ==
  /\ Visit("finish", n) /\ Leave(n)
  /\ Alive(conf[n])
  /\ UNCHANGED <<nodeVars, clusterVars, need, rootCa, certKey, token>>

(* ------------------------------ the nodes ------------------------------ *)

\* A node is lost and replaced by an empty one with the same name.
Lose(n) ==
  /\ stage \in Idle /\ losses < MaxLosses
  /\ pkg' = [pkg EXCEPT ![n] = "none"]
  /\ member' = [member EXCEPT ![n] = 0] /\ procs' = [procs EXCEPT ![n] = 0]
  /\ conf' = [conf EXCEPT ![n] = 0] /\ kubeadmCfg' = [kubeadmCfg EXCEPT ![n] = 0]
  /\ ca' = [ca EXCEPT ![n] = 0] /\ data' = [data EXCEPT ![n] = 0]
  /\ etcd' = [etcd EXCEPT ![n] = 0]
  /\ losses' = losses + 1
  /\ UNCHANGED <<clusterVars, callVars, stage, todo, need, rootCa, certKey,
                 token, blame>>

(* -------------------------- the specification -------------------------- *)

OnNode(n) ==
  \/ ResetNode(n) \/ RemoveKubePackages(n) \/ InstallKubePackages(n)
  \/ DistributeCerts(n) \/ StopEtcd(n) \/ WipeEtcd(n) \/ StartEtcd(n)
  \/ CheckEtcd(n)
  \/ UploadCerts(n) \/ InitFirstMaster(n) \/ AdminConf(n)
  \/ TransferKubeconfig(n) \/ SetEnv(n) \/ WaitPods(n) \/ CreateToken(n)
  \/ JoinMaster(n) \/ SettleMaster(n) \/ JoinWorker(n) \/ FinalWait(n)
Program  == (\E n \in Node : OnNode(n)) \/ NextStage \/ CommandFails
Operator == StartInstall \/ StartAdd \/ StartRecover
Next     == Program \/ Operator \/ Interrupt \/ \E n \in Node : Lose(n)

Spec == Init /\ [][Next]_vars
\* The process runs its commands one after the other as long as it can.
FairSpec == Spec /\ WF_vars(Program)

(* ----------------------------- properties ------------------------------ *)

TypeOK ==
  /\ pkg \in [Node -> {"none", "other", "wanted"}]
  /\ member \in [Node -> Ids] /\ procs \in [Node -> Ids] /\ conf \in [Node -> Ids]
  /\ kubeadmCfg \in [Node -> Ids] /\ ca \in [Node -> Ids]
  /\ data \in [Node -> Ids] /\ etcd \in [Node -> Ids]
  /\ store \in [Ids -> Ids] /\ secret \in [Ids -> Ids]
  /\ registered \in [Ids -> SUBSET Node]
  /\ run \in Ids /\ cmd \in {"install", "add", "recover"}
  /\ targets \in SUBSET Node /\ remote \in Remotes
  /\ stage \in Stage /\ todo \in SUBSET Node /\ need \in SUBSET Node
  /\ rootCa \in Ids /\ certKey \in Ids /\ token \in Ids
  /\ blame \in {"nobody", "command", "outside"} /\ losses \in 0 .. MaxLosses

\* Containers of a cluster run only on nodes that still have kubeadm: the next
\* run can always reset them (removeKubePackagesIfNecessary resets a node
\* only if it finds kubeadm there, and removes kubeadm itself afterwards).
ResettableLeftovers == \A n \in Node : procs[n] # 0 => pkg[n] # "none"

\* Two etcd services of one configuration never run on the data of different
\* incarnations, whatever runs were cut short before: installEtcd stops and
\* wipes every master before it starts the first one.
EtcdOneIncarnation ==
  \A m, k \in Masters : etcd[m] # 0 /\ etcd[k] # 0 => data[m] = data[k]

\* A cluster is founded on etcd data of its own run, never on what an earlier
\* cluster left in /var/lib/etcd.
FreshStore == \A c \in Ids : registered[c] # {} => store[c] \in {0, c}

\* Two clusters of the same configuration never answer at the same time.
OneCluster == \A c, d \in Ids : Alive(c) /\ Alive(d) => c = d

\* install can be repeated after any history of cut-short runs, upgrades and
\* lost nodes: none of its commands fails because of what is on the nodes.
InstallRestartable == ~(stage = "failed" /\ blame = "command" /\ cmd = "install")

\* recover node: "Recover master node to the cluster".  None of its commands
\* fails while every other master is in the cluster, the cluster answers
\* without the master to recover, and the program's own node can reach it.
RecoverSucceeds ==
  stage = "failed" /\ blame = "command" /\ cmd = "recover" =>
    ~ \E c \in Ids : /\ AliveOn(c, Masters \ targets) /\ conf[remote] = c
                     /\ \A m \in Masters \ targets : member[m] = c

\* When a run ends well each of its nodes is in the cluster of the first
\* master, its kubeconfig leads there and the cluster answers.
RunOutcome ==
  [][stage # "done" /\ stage' = "done" =>
       \A n \in targets : /\ member[n] = member[First(Masters)] /\ conf[n] = member[n]
                          /\ Alive(member[n])]_vars

\* Adding or recovering a node never takes down a cluster that answers
\* without that node.
ClusterSurvives ==
  [][stage \notin Idle /\ cmd # "install" =>
       \A c \in Ids : AliveOn(c, Masters \ targets) => Alive(c)']_vars

\* The pipeline implements Membership: every step of every run leaves the
\* nodes' membership alone, or makes one node leave, found or join a cluster
\* under the conditions Membership puts on that.
Promise == INSTANCE Membership WITH
             Cluster <- Ids \ {0},
             founded <- {c \in Ids : registered[c] # {}}
MembershipKept == Promise!Spec

\* Every run comes to an end: no wait of the program lasts forever.
RunsEnd == stage \notin Idle ~> stage \in Idle

\* add node: "Add node to the cluster".  The node ends up in the cluster of
\* the other masters.
AddedNodeJoins ==
  stage = "done" /\ cmd = "add" =>
    \A n \in targets, m \in Masters \ targets :
      Alive(member[m]) => member[n] = member[m]
=============================================================================
