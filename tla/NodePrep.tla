------------------------------- MODULE NodePrep -------------------------------
(***************************************************************************)
(* What tkube sets on a node so that it can be a member of a cluster, and  *)
(* what is left of it after a reboot: names in /etc/hosts, swap, SELinux,  *)
(* kernel parameters, the services of kubelet and etcd (pkg/core/tkube.go: *)
(* addToEtcHosts, prepareNodes, the parts of Install, installEtcd and      *)
(* initKubernetes that touch these).  Many settings are made twice, for    *)
(* the running system and for the next boot, with a command each, and a    *)
(* node may reboot, or the run be cut short, between the two.              *)
(***************************************************************************)
EXTENDS Integers, Sequences, FiniteSetsExt

CONSTANTS
  Nodes, Masters,
  Calls,      \* what the operator runs: [config, targets, recovery]
  Installers, \* package managers of the nodes' distribution: apt, rpm
  SetSelinuxPermissive, \* of the configuration
  MaxRuns,    \* bound: runs of the program
  MaxReboots  \* bound: reboots of nodes

ASSUME NodePrepAssumption ==
  /\ Masters \subseteq Nodes /\ Masters # {} /\ Installers \subseteq {"apt", "rpm"}
  /\ Calls # {} /\ Calls \subseteq [config : SUBSET Nodes, targets : SUBSET Nodes, recovery : BOOLEAN]
  /\ \A c \in Calls : c.targets \subseteq c.config /\ c.config \cap Masters # {}
  /\ SetSelinuxPermissive \in BOOLEAN /\ MaxRuns \in Nat /\ MaxReboots \in Nat

VARIABLES
  installer, \* os.InstallerType
  disk,      \* the settings a node boots with
  live,      \* the settings it runs with
  hosts,     \* the nodes a node's /etc/hosts names
  cluster,   \* the cluster a node is a member of, named by its run; 0 is none
  store,     \* the etcd a master's API server uses: "service", "pod" or "none"
  conn,      \* nodes the run's connection to still stands
  call, loop, cmd, at, todo, \* the loop of Install, its command, its node, and the rest
  served,    \* history: nodes that have had etcd as a service
  booted,    \* history: nodes rebooted since they joined
  runs, reboots

node == <<disk, live, hosts, cluster, store>>
pcs  == <<loop, cmd, at, todo>>
vars == <<installer, node, conn, call, pcs, served, booted, runs, reboots>>

Settings ==
  [swap    : BOOLEAN,  \* in use / not commented out in /etc/fstab
   selinux : {"disabled", "permissive", "enforcing"},
   watches : BOOLEAN,  \* fs.inotify.max_user_watches raised
   forward : BOOLEAN,  \* net.ipv4.ip_forward and bridge-nf-call-iptables
   kubelet : BOOLEAN,  \* the service runs / is enabled
   etcd    : BOOLEAN]  \* the same of the etcd service

(* ------------------------------- the run ------------------------------- *)

\* at between two runs, where it means nothing.
None == CHOOSE n \in Nodes : TRUE

\* multiMasterDeployment: false as well in a run without masters.
Multi(c) == \/ c.recovery
            \/ Cardinality(c.targets \cap Masters) > 1

\* The loops of Install that touch the settings, in their order, with the
\* commands of each.
Loops == <<"hosts", "purge", "prepare", "packages", "etcd", "startEtcd", "join">>
Commands(l) ==
  CASE l = "prepare"   -> <<"sysctl", "swapoff", "fstab", "setenforce", "selinux">>
    [] l = "startEtcd" -> <<"enable", "start">>
    [] l = "join"      -> <<"conf", "load", "kubeadm">>
    [] OTHER           -> <<"all">>

\* Faulty variant: the names are written on the nodes of the run only.
NodesOf_HostsTargets(c, l) ==
  CASE l = "etcd"      -> c.targets \cap Masters
    [] l = "startEtcd" -> IF Multi(c) THEN c.targets \cap Masters ELSE {}
    [] OTHER           -> c.targets

NodesOf(c, l) ==
  CASE l = "hosts"     -> c.config
    [] l = "etcd"      -> c.targets \cap Masters
    [] l = "startEtcd" -> IF Multi(c) THEN c.targets \cap Masters ELSE {}
    [] OTHER           -> c.targets

\* The nodes of a loop in an order that is always the same, as that of the
\* configuration; masters join before workers.
Begin(l, S) ==
  LET heads == IF Loops[l] = "join" /\ S \cap Masters # {} THEN S \cap Masters ELSE S
      head  == CHOOSE n \in heads : TRUE
  IN loop' = l /\ cmd' = 1 /\ at' = head /\ todo' = S \ {head}

Over == loop' = 0 /\ cmd' = 1 /\ at' = None /\ todo' = {}

\* On to the next command, node or loop that there is.
Goon ==
  IF cmd < Len(Commands(Loops[loop])) THEN cmd' = cmd + 1 /\ UNCHANGED <<loop, at, todo>>
  ELSE IF todo # {} THEN Begin(loop, todo)
  ELSE LET later == {l \in loop + 1 .. Len(Loops) : NodesOf(call, Loops[l]) # {}}
       IN IF later = {} THEN Over ELSE Begin(Min(later), NodesOf(call, Loops[Min(later)]))

\* RunCommandOn: the command comes to its node only on a connection that
\* stands.  NewSession's error is dropped, so one that does not stand makes
\* the next command panic: the run is over (Interrupt), without Exit.
Command(l, c) ==
  /\ loop > 0 /\ Loops[loop] = l /\ Commands(l)[cmd] = c
  /\ at \in conn /\ Goon
  /\ UNCHANGED <<installer, conn, call, runs, reboots>>
Set(f, field, v) == f' = [f EXCEPT ![at][field] = v]

\* The nodes' distribution, with swap and SELinux as it may come.
Init ==
  /\ installer \in Installers
  /\ \E swap \in BOOLEAN,
        selinux \in IF installer = "apt" THEN {"disabled"}
                   ELSE {"disabled", "permissive", "enforcing"} :
       disk = [n \in Nodes |-> [swap |-> swap, selinux |-> selinux, watches |-> FALSE,
                                forward |-> FALSE, kubelet |-> FALSE, etcd |-> FALSE]]
  /\ live = disk /\ hosts = [n \in Nodes |-> {}]
  /\ cluster = [n \in Nodes |-> 0] /\ store = [n \in Nodes |-> "none"]
  /\ conn = {} /\ call = (CHOOSE c \in Calls : TRUE) /\ loop = 0 /\ cmd = 1 /\ at = None /\ todo = {}
  /\ served = {} /\ booted = {} /\ runs = 0 /\ reboots = 0

\* PreRun has connected to every node of the configuration.
Start ==
  /\ loop = 0 /\ runs < MaxRuns /\ runs' = runs + 1
  /\ call' \in Calls /\ conn' = call'.config
  /\ Begin(1, NodesOf(call', Loops[1]))
  /\ UNCHANGED <<installer, node, served, booted, reboots>>

\* Every node of the configuration gets a line for every one of them, also
\* where the run has nothing else to do.
AddToEtcHosts ==
  /\ Command("hosts", "all")
  /\ hosts' = [hosts EXCEPT ![at] = @ \cup call.config]
  /\ UNCHANGED <<disk, live, cluster, store, served, booted>>

\* removeKubePackagesIfNecessary: kubeadm reset, service kubelet stop
Purge ==
  /\ Command("purge", "all")
  /\ cluster' = [cluster EXCEPT ![at] = 0] /\ store' = [store EXCEPT ![at] = "none"]
  /\ Set(live, "kubelet", FALSE)
  /\ UNCHANGED <<disk, hosts, served, booted>>

\* sysctl -w: for the running system only
Watches ==
  /\ Command("prepare", "sysctl") /\ Set(live, "watches", TRUE)
  /\ UNCHANGED <<disk, hosts, cluster, store, served, booted>>

SwapOff ==
  /\ Command("prepare", "swapoff") /\ Set(live, "swap", FALSE)
  /\ UNCHANGED <<disk, hosts, cluster, store, served, booted>>

\* sed '/swap/ s/^[^#]/#&/' /etc/fstab
CommentFstab ==
  /\ Command("prepare", "fstab") /\ Set(disk, "swap", FALSE)
  /\ UNCHANGED <<live, hosts, cluster, store, served, booted>>

\* Faulty variant: asks for the mode, which a run that was cut short has
\* changed already.
IsSelinuxEnabled_Mode(n) == live[n].selinux = "enforcing"

\* "SELinux status: enabled", which it is in permissive mode, too.
IsSelinuxEnabled(n) == live[n].selinux # "disabled"

ToPermissive(n) == installer = "rpm" /\ SetSelinuxPermissive /\ IsSelinuxEnabled(n)

SetEnforce ==
  /\ Command("prepare", "setenforce")
  /\ IF ToPermissive(at) THEN Set(live, "selinux", "permissive") ELSE UNCHANGED live
  /\ UNCHANGED <<disk, hosts, cluster, store, served, booted>>

\* The answer of IsSelinuxEnabled is that of before setenforce.
SelinuxConfig ==
  /\ Command("prepare", "selinux")
  /\ IF ToPermissive(at) /\ disk[at].selinux = "enforcing"
     THEN Set(disk, "selinux", "permissive") ELSE UNCHANGED disk
  /\ UNCHANGED <<live, hosts, cluster, store, served, booted>>

\* The packages of apt enable their services, those of yum and dnf do not,
\* and neither does the program.
InstallKubePackages ==
  /\ Command("packages", "all")
  /\ IF installer = "apt" THEN Set(disk, "kubelet", TRUE) ELSE UNCHANGED disk
  /\ UNCHANGED <<live, hosts, cluster, store, served, booted>>

\* Faulty variant: a single master is taken to have no etcd service.
StopEtcd_MultiOnly ==
  /\ Command("etcd", "all")
  /\ IF Multi(call) THEN Set(live, "etcd", FALSE) ELSE UNCHANGED live
  /\ UNCHANGED <<disk, hosts, cluster, store, served, booted>>

\* service etcd stop || true, in a run for one master and for several.
StopEtcd ==
  /\ Command("etcd", "all") /\ Set(live, "etcd", FALSE)
  /\ UNCHANGED <<disk, hosts, cluster, store, served, booted>>

EnableEtcd ==
  /\ Command("startEtcd", "enable") /\ Set(disk, "etcd", TRUE)
  /\ served' = served \cup {at}
  /\ UNCHANGED <<live, hosts, cluster, store, booted>>

StartEtcd ==
  /\ Command("startEtcd", "start") /\ Set(live, "etcd", TRUE)
  /\ UNCHANGED <<disk, hosts, cluster, store, served, booted>>

\* Faulty variant: the parameters are set, not written.
KubernetesConf_NotWritten ==
  /\ Command("join", "conf") /\ Set(live, "forward", TRUE)
  /\ UNCHANGED <<disk, hosts, cluster, store, served, booted>>

\* /etc/sysctl.d/kubernetes.conf
KubernetesConf ==
  /\ Command("join", "conf") /\ Set(disk, "forward", TRUE)
  /\ UNCHANGED <<live, hosts, cluster, store, served, booted>>

\* sysctl --system sets what the files say.
LoadSysctl ==
  /\ Command("join", "load")
  /\ IF disk[at].forward THEN Set(live, "forward", TRUE) ELSE UNCHANGED live
  /\ UNCHANGED <<disk, hosts, cluster, store, served, booted>>

\* kubeadm init on the first master of a run with masters, which founds a
\* cluster; kubeadm join on all others, into the cluster of a master.
Founds == ~call.recovery /\ at \in Masters /\ \A m \in Masters : cluster[m] # runs
Joined == {cluster[m] : m \in (call.config \cap Masters) \ {at}} \ {0}

Kubeadm ==
  /\ Command("join", "kubeadm")
  /\ \E c \in IF Founds THEN {runs} ELSE Joined :
       /\ Founds \/ call.targets \cap Masters = {} \/ call.recovery \/ c = runs
       /\ cluster' = [cluster EXCEPT ![at] = c]
  /\ store' = [store EXCEPT ![at] = IF at \notin Masters THEN "none"
                                    ELSE IF Multi(call) THEN "service" ELSE "pod"]
  /\ Set(live, "kubelet", TRUE) /\ booted' = booted \ {at}
  /\ UNCHANGED <<disk, hosts, served>>

\* A command fails or panics, or the run is ended from outside.
Interrupt ==
  /\ loop > 0 /\ Over
  /\ UNCHANGED <<installer, node, conn, call, served, booted, runs, reboots>>

\* A node reboots, at any time; the run's connection to it breaks.
Reboot(n) ==
  /\ reboots < MaxReboots /\ reboots' = reboots + 1
  /\ live' = [live EXCEPT ![n] = disk[n]]
  /\ conn' = conn \ {n} /\ booted' = booted \cup {n}
  /\ UNCHANGED <<installer, disk, hosts, cluster, store, call, pcs, served, runs>>

Prepare == Watches \/ SwapOff \/ CommentFstab \/ SetEnforce \/ SelinuxConfig
Etcd    == StopEtcd \/ EnableEtcd \/ StartEtcd
Join    == KubernetesConf \/ LoadSysctl \/ Kubeadm
Program == Start \/ AddToEtcHosts \/ Purge \/ Prepare \/ InstallKubePackages \/ Etcd \/ Join

Next == Program \/ Interrupt \/ \E n \in Nodes : Reboot(n)

Spec == Init /\ [][Next]_vars

(* ----------------------------- properties ------------------------------ *)

TypeOK ==
  /\ installer \in Installers
  /\ disk \in [Nodes -> Settings] /\ live \in [Nodes -> Settings]
  /\ hosts \in [Nodes -> SUBSET Nodes] /\ cluster \in [Nodes -> 0 .. MaxRuns]
  /\ store \in [Nodes -> {"none", "service", "pod"}]
  /\ conn \subseteq Nodes /\ call \in Calls
  /\ loop \in 0 .. Len(Loops) /\ cmd \in 1 .. 5 /\ at \in Nodes /\ todo \subseteq Nodes
  /\ served \subseteq Nodes /\ booted \subseteq Nodes
  /\ runs \in 0 .. MaxRuns /\ reboots \in 0 .. MaxReboots

\* A member of a cluster has no swap, forwards packets, does not enforce
\* SELinux and runs kubelet, whenever it or another node has rebooted and
\* whatever run was cut short between the two halves of a setting.  The
\* exception: where packages do not enable their services, kubelet is off
\* after a reboot.
MembersBoot ==
  \A n \in Nodes : cluster[n] # 0 =>
    /\ ~live[n].swap /\ live[n].forward
    /\ (installer = "rpm" /\ SetSelinuxPermissive) => live[n].selinux # "enforcing"
    /\ (installer = "rpm" /\ n \in booted) \/ live[n].kubelet

\* One etcd per master, and the one its API server was set up for: the
\* service runs, also after a reboot, on the masters of a deployment with
\* several, and not on a single master.  The exception: nothing disables
\* the service, so a node that had it once starts it again when it reboots.
EtcdOfCluster ==
  \A n \in Nodes :
    /\ store[n] = "service" => live[n].etcd
    /\ (store[n] = "pod" /\ live[n].etcd) => n \in served \cap booted

\* Members of one cluster know each other by name, those that were there
\* before a node was added, too.
NamesKnown ==
  \A n, m \in Nodes : (cluster[n] = cluster[m] /\ cluster[n] # 0) => m \in hosts[n]

\* EtcdOfCluster, MembersBoot without their exceptions, and the raised
\* number of watches: the code does not keep these.
OneEtcd      == \A n \in Nodes : store[n] = "pod" => ~live[n].etcd
KubeletBoots == \A n \in Nodes : cluster[n] # 0 => live[n].kubelet
WatchesKept  == \A n \in Nodes : cluster[n] # 0 => live[n].watches
=============================================================================
