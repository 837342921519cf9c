# tkube in TLA+

This directory holds a formal model of tkube, the command line tool that
installs a Kubernetes cluster on a list of nodes over SSH. It consists of TLA+
modules translated from the Go source, configurations with which TLC checks
them on small instances, and proofs, checked by TLAPS, of the most important
invariants for instances of any size.

    tlc -workers 2 -config MCCluster.cfg MCCluster      # check an instance
    tlapm Cluster_proofs.tla                            # check the proofs

`PROJECT.json` lists the runs, the faulty variant that shows each property can
fail, the source lines behind each definition, and the findings.

## 1. The system

tkube is a sequential program. It reads a deployment configuration (a list of
masters and workers), connects to every node with SSH and runs a long list of
shell commands there, one after the other. A command that fails ends the program
through `os.Exit`, which cleans up first; SIGINT and SIGTERM end it at once,
without. It keeps no record of how far it came. All it can go by the next time
is what it finds on the nodes. So what is hard about tkube is not threads but
**histories**: what several runs, each cut short somewhere, for other versions,
other nodes or other options, add up to on machines that keep their state,
while kubelets, etcd members and an operator act on their own.

| Component (source) | State it keeps | Operations | Module |
|---|---|---|---|
| Cluster formation: `core.Install` for `install`, `add node`, `recover node` (`pkg/core/tkube.go`, `pkg/kube/kube.go`, `pkg/cmd`) | packages, kubelet and containers, `/etc/kubernetes`, `/etc/etcd/pki`, `/var/lib/etcd`, kubeconfigs of the nodes; in memory the certificate key and the join command | the loops of `Install`, from `removeKubePackagesIfNecessary` to the wait at the end of `initKubernetes` | `Cluster`, `Membership` |
| Temporary sudo and the end of the program (`pkg/os/os.go`, `pkg/core/core.go`, `main.go`) | `/etc/sudoers`, `policy-rc.d`, `sudoersPrevExistsMap` | `AddToSudoers`, `RemoveFromSudoers`, `Exit`, the signal handler | `Sudoers` |
| SSH connections and credentials (`pkg/connection`, `PreRun`, `RemoteRun`, `handleAuthMap`) | `sshConnections`, `Nodes`, the file of saved credentials | `CheckSSHConnection`, `CreateSshConnection`, `WriteSSHData`, `clearSSHDataForAddr` | `Connection`, `Credentials` |
| Preparation of nodes (`addToEtcHosts`, `prepareNodes`, service states) | `/etc/hosts`, `/etc/fstab`, SELinux, sysctl, enabled and running services | one or two commands per setting, node by node | `NodePrep` |
| Virtual address (`installKeepAliveD`, `pkg/config/templates`, `initKubernetes`) | files in `/etc/keepalived`, the running keepalived, who has the address | write, restart; then `kubeadm init` and `join` through the address | `Keepalived` |
| Distribution of etcd, helm and helmfile (`installEtcd`, `installHelm`, `installHelmfile`) | `/usr/bin`, temporary directories, the directory of resources | look, fetch, transfer, remove, install | `Distribute` |
| Deployment configuration (`pkg/config`) | `deployment.yaml`, `DeploymentCfg` | `ReadConfig`, `askDeploymentConfig`, the confirmation | `Config` |
| Container runtimes (`installDocker`, `installContainerd`, package functions) | packages, `daemon.json`, `/etc/containerd`, the daemons | remove, install, configure, restart | `Runtime` |
| Offline image and repositories (`Install` with `--iso`, `MountISO`, `AddRepository`, `addCustomRepos`) | the ISO file, its mount, package lists | transfer, mount, add repository, update | `IsoSetup` |
| Waiting for pods (`WaitUntilPodsRunning...`) | what the current pass has seen | one kubectl per pod, or one listing | `PodWait` |

How they interact: `PreRun` goes first (`Connection` and `Sudoers`; with `--iso`
the first half of `IsoSetup`), then `ReadConfig` (`Config`), then `Install` runs
the loops of `IsoSetup`, `Cluster`'s purge, `NodePrep`, `Runtime`, `Cluster`'s
packages and certificates, `Distribute`, `Cluster`'s etcd, `Keepalived`, and
`Cluster`'s kubeadm commands with `PodWait` in between; `Exit` (`Sudoers`) ends every run. They share no variables but the
nodes they work on: each module has the part of a node's state its commands
read and write, and a command that fails ends the run in every module. `Cluster`
is where the parts meet: an interruption of a run stands there for any failure
of any of the other parts.

### What is hard, and what makes each part correct

- **Cluster formation.** Runs that are cut short between two commands on one of
  several nodes; etcd members of an earlier incarnation that still run while new
  ones start; a join command taken from one cluster and used in another; nodes
  lost between runs. Correct is: nothing is left that the next run cannot clear,
  the members of etcd never mix, there is one cluster, `install` can always be
  repeated, adding and recovering spare the cluster that runs.
- **Sudo.** A line in `/etc/sudoers` that must go when the program ends, however
  it ends, unless it was the administrator's; one machine reached under two
  addresses; `Exit` calling itself when its own commands fail.
- **Connections.** Saved credentials that go stale, mistyped ones, a network that
  fails now and then, a file that cannot be written, and a result that is neither
  a connection nor an error.
- **Preparation.** Settings made with two commands, one for now and one for the
  next boot, and a node that reboots, or a run that ends, between the two;
  services that an earlier deployment of another kind has left enabled.
- **Virtual address.** Masters that all begin as its owner, while kubeadm waits
  for an API server behind it that it is only about to start.
- **Distribution.** A loop whose first round sets what the others use, but can be
  skipped; binaries copied one by one; archives left half downloaded.
- **Configuration.** Rewriting a file that a person edits too, with defaults that
  look like answers.
- **Runtimes.** Remove, install, configure, restart as separate commands; a
  `policy-rc.d` that survives the program and keeps daemons from starting.
- **Offline image.** Mounts that vanish, package lists moved away for good, files
  compared by a sum that is never computed.
- **Waiting.** Reading pods one by one while they change.

`PROJECT.json` lists these hazards at their lines, with the properties that
cover them.

## 2. The modules

Every module has one action per handler, loop body or command; the comments name
the functions, and the map in `PROJECT.json` their lines. "Faulty variants"
(`X_Something` beside `X`) are plausible bugs, used to see that the properties
notice them; they are not part of any specification.

### Cluster

A run is a pipeline of **stages** (`Succ`), each of them one loop of `Install`;
`todo` is what the loop has still to visit, in the order of the configuration.
Stages whose code is two commands per node between which a run can be cut short
have a second half: `reset`/`unpack` (reset and removal of packages),
`stopEtcd`/`wipeEtcd`, `joinMaster`/`settle` (join, and the wait and kubeconfig).
kubeadm, etcd and kubectl are not part of the repository: `Ready(s, n)` says when
the command of a stage succeeds on a node, from what the code relies on (kubeadm's
preflight, a quorum of etcd, a kubeconfig that leads to a cluster that answers,
the key the uploaded certificates are encrypted with). A command that is not ready fails
and ends the run (`CommandFails`), and any run may be ended from outside at any
moment (`Interrupt`). Whatever a run creates is named by the run's number: its
authority, its etcd incarnation, its cluster; 0 is none.

Abstracted: package versions to *none/other/wanted*; certificates to their
authority; Calico and the pods to whether a master's pods exist; the archives of
etcd (that is `Distribute`), the container runtimes (`Runtime`) and package
repositories (`IsoSetup`), whose failures are interruptions here. In particular
`InstallRestartable` and `RecoverSucceeds` speak of the kubeadm, etcd and kubectl
commands; that a recovery can fail for the archive of etcd is shown by `Distribute` (section 3).

### Membership

What `Cluster` promises, as a specification of its own with two variables: a node
leaves its cluster, the first master founds one when no master is in any, a node in no
cluster joins that of a master. `Cluster` instantiates it (`Promise`) with
`founded` mapped to the clusters that have registered nodes, and `MembershipKept`
says that every step of the pipeline is a step of it or leaves it alone.

### Sudoers

The whole life of the sudoers lines of a run: `Start`, `AddToSudoers`, the work
(any number of package installations with `policy-rc.d` in between), the ways into
`Exit` (end, failing command), `Exit`'s loop over the keys of the map in Go's
arbitrary order, and the signal that ends the process without it. Keys are
addresses; with `--iso` the host itself has the key of the nil address, and when
it is also a node, two keys name one machine. History variables: `orig` (the
administrator's lines) and `leaked` (machines where a killed run left its line,
which the next run cannot know are not the administrator's).

### Connection

`Dial` and `CreateSshConnection` with their three results *ok*, *err* and *nil*:
after saved credentials were refused and cleared, the function returns neither a
connection nor an error. Each run has its
options (`opt`): with `--iso` or not, with `--remote` or not, with `--auth-map` or not.
Credentials are a method and a version; nodes change
theirs between runs, operators mistype, the network fails. The file of saved
credentials outlives the runs; a write of it may fail or be cut short, which can
leave it as it was or empty (it is truncated first). A signal may end a run
anywhere. The branch of `CreateSshConnection` for credentials a node carries is
never taken, since `PreRun` and `RunCommandOn` dial with nodes of an address only,
and those of the configuration come in through the file. `fault` remembers that in this run somebody erred,
so that `RightAnswersWork` can say what happens when nobody did.

### Credentials

What the file promises to the runs that share it: credentials are saved after the
node has accepted them or as the configuration has them, forgotten when they are
refused, lost only by a fault, and a run that fails to authenticate leaves none
behind that the next one would use unasked. `Connection` instantiates it
(`Promise`); only `failed` is mapped, from how the last run ended.

### NodePrep

Each setting has a value a node runs with (`live`) and one it boots with
(`disk`); a reboot copies the second to the first and breaks the run's
connection, which makes the next command panic. The loops of `Install` that touch
the settings run in their order (`Loops`), each command of theirs a step. What
packages enable differs by package manager: those of apt enable their services,
those of rpm distributions do not. `store` says which etcd an API server was set
up for. History variables: `served` (had etcd as a service), `booted` (rebooted
since it joined).

### Keepalived

The commands of `installKeepAliveD`, one step each, since a run can be cut short
between the two files; then `kubeadm init`, which starts an API server and waits
for it under the virtual address. keepalived is modelled by what the written
files make it do: it begins as master with the address, its check decides after
some rounds, the priority goes down by the check's weight, and of two masters
that have the address one yields. The check asks the API server of the node, and
the virtual address as well where that is in the output of `ip addr`
(`Lookalikes` are nodes where it is, as a part of another address).

### Distribute

`installEtcd`, `installHelm` and `installHelmfile` are the same text but for the
names: one module in which the tool, its binaries and the order of removal, is chosen
at the start and kept, and each run chooses whether it has an ISO image. A
version is *wanted* or *old*, an archive absent, partial or complete; runs fail
(and clean up) or are killed (and do not) between any two commands, also between
the copies of `etcd` and `etcdctl`. The directory of resources exists only on the
machine the program is pointed at.

### Config

The record follows `model/deployment.go` for the settings that depend on answers,
conditions or each other; those whose only treatment is "empty becomes the
default" are one function. Every prompt is a step that may be aborted, also the
two whose error the code drops. The operator edits the file between runs and
while the confirmation is open.

### Runtime

One node, since the loops of `installDocker` and `installContainerd` do the same
to each and share nothing. A version is *wanted*, *alike* (contains the wanted
one as text, which is all the code compares) or *other*. Daemons remember the
configuration they have read, so that a missing restart shows. `password` says whether the
user needs the program's line in sudoers, which `Exit` takes away before it removes
`policy-rc.d`. What is not kept
is the image data that `--docker-prune` deletes.

### IsoSetup

The part of `Install` for `--iso` and the online counterpart `addCustomRepos`,
over runs with different files of the same name, with interruptions and reboots.
The machine the program runs on, or is pointed at, has the file; in the run it is the
first node of the configuration, but runs may be for any nodes, so that it need not be the
first of a run. `prev` is a taint: a node that had a file of that name before, or got
its file from such a node.

### PodWait

The two waits against pods that come, become ready, restart and finish between
any two kubectl commands, and an API server that comes and goes. In
`Cluster` a wait is one step, which is right exactly because of what `PodWait`
shows: it ends only after it has seen the pods.

## 3. The runs

The "violation" runs check one property that a comment, a help text or a message of the
program states and that the code does not keep.

| Run | Instance | Shows |
|---|---|---|
| `cluster` | 3 masters and a worker; install with or without workers, add of the worker, recovery of the second master; 3 runs; 1 node lost; program on m1 | `ResettableLeftovers`, `EtcdOneIncarnation`, `FreshStore`, `OneCluster`, `InstallRestartable`, `RecoverSucceeds`, `RunOutcome`, `ClusterSurvives`; the refinement `MembershipKept`; `RunsEnd` under fairness |
| `cluster_add_master` | `add node` of a master | violation of `AddedNodeJoins`: the node founds a cluster of its own |
| `cluster_recover_first` | recovery of the first master | violation of `RecoverSucceeds`: the second node has no `kubeadm-config.yaml` |
| `sudoers` | 2 nodes, the host being one of them, one node with a password that may be given wrong, the other without; 2 runs, 1 glitch | `AdminLineKept`, `SudoWorks`, `LineRemoved`, `PolicyCleared`; `ExitEnds` under fairness |
| `connection` | 2 nodes, credentials of one in the configuration; the operator's own host with or without `--iso`, or `--remote`; 3 runs, 2 changes, 1 failure of the network or the file | `NeverPanics`, `RightAnswersWork`, `WorkConnected`; the refinement `CredentialsKept` |
| `prepare` | 2 masters and a worker, or one master; install, add of the worker, recovery of the second master; apt and rpm, any state of swap and SELinux; 3 runs, 1 reboot | `MembersBoot`, `EtcdOfCluster`, `NamesKnown` |
| `keepalived` | 3 masters, or two of them in a later configuration; install and recovery; 2 runs, 1 reboot or failing API server | `HealthyKeepsVip`; `VipServes`, `InitReached` under fairness |
| `distribute` | etcd or helm on 3 masters, downloaded or from the image; 4 runs for all masters or the first | `ToolInstalled`, `RunRecovers` |
| `config` | 1 node, 2 registries, 3 runs, 2 edits | `Settled`, `WorksWithFile`, `KeepalivedGiven`, `OwnSettingsKept` |
| `runtime` | every combination of wishes, sudo by password or not, 3 runs | `DockerReady`, `ContainerdReady`, `ConfigNotLost`, `PolicyGone` |
| `iso_setup` | 3 nodes, runs for any of them, 3 runs | `MountedIso`, `ListsFound` |
| `pod_wait` | 2 named pods, a job | `WaitsSeen`; `WaitsEnd` under fairness |

`TypeOK` is checked in the run of `Cluster`, whose other proofs rest on it, and proved for
`Cluster` and `Sudoers`. The other modules state theirs; it can be added to any run.

### Disagreements that have no run

The modules state more properties that the code does not keep, and some
properties hold only with an exception. To see the counterexample, put the property (or
the formula without its exception) and the settings below into the configuration of the module's run.

| Property | Settings | What the code does |
|---|---|---|
| `RunsSucceed` (`Distribute`) | `Online = FALSE`, `Isos = {TRUE}` | `tkube.go:599`: the image is looked at only with the first master, and only if that is not skipped; when it has the wanted version, the other masters run `wget` without a connection |
| `RunsSucceed` (`Distribute`) | `Targets` with the second master alone, online | `tkube.go:625`: the archive is copied into a directory that exists only where the program is pointed at; a recovery of another master fails |
| `MirrorsKept` (`Config`) | as they are | `config.go:272`: the mirrors that were entered are appended to the other list and lost |
| `ContainerdVersionUsed` (`Runtime`) | `Wishes <- NoDocker` | `tkube.go:365`: containerd is installed without the version of `--containerd-version` |
| `SameIso` (`IsoSetup`) | as they are | `os.go:484`: the sum of the file is never printed, so what an interrupted transfer left is taken for the image |
| `IsoFound` (`IsoSetup`) | as they are | `tkube.go:99`: the first node of the list is taken for the one that has the file; with `add node` it is the new one |
| `UnreachableIsDown` (`Connection`) | an option `O(n1, TRUE, FALSE)` | `core.go:22`: with `--remote` and `--iso`, port 0 is asked, so a node that is up is reported as unreachable; `test.sh` uses this form |
| `NeverPanics` (`Connection`) | `Options <- WithAuthMap` | `tkube.go:197`: `--auth-map` in the form its comment documents (45) has three fields; the fourth is read |
| `NamedPodsRunning` (`PodWait`) | as they are | `kube.go:198`: for a pod that exists but is not ready nothing is appended, so the wait for "running" pods ends when they exist |
| `OneEtcd` (`NodePrep`) | as they are | `tkube.go:149-151`: a single-master run stops the etcd service of an earlier deployment but does not disable it, so the next boot starts it |
| `KubeletBoots` (`NodePrep`) | as they are | `tkube.go:470`: rpm packages do not enable kubelet, and nothing else does; after a reboot it is off |
| `WatchesKept` (`NodePrep`) | as they are | `tkube.go:215`: the limit is set for the running system only |
| `VipStays` (`Keepalived`) | as they are | `keepalived_conf.go:23`: a master that is set up again, or boots, begins with the address and takes it from a healthy one of lower address until its check fails |
| `InitReached` (`Keepalived`) | `Lookalikes = {m1}` | `check_apiserver_sh.go:17`: the virtual address is looked for by an unanchored pattern (`192.168.1.2` is in `192.168.1.255`), so the check of the only healthy master asks the address it does not have |
| `OwnSettingsKept` (`SettingsKept`) without `f.set["repo"] # ""` | as they are | `config.go:208-209`: docker that the operator enabled is switched off, and stays so, when the file has no address of docker's repository, although the same lines fill in the default address |
| `OwnSettingsKept` with the router id kept unconditionally | as they are | `config.go:192`: with keepalived off, the router id of the file becomes 1, and that is what keepalived has when it is switched on again; `config.go:162`: where the address is missing, the router id is asked anew whatever the file has |
| `OwnSettingsKept` without `f.nodes # {}` | as they are | `config.go:126`, `139`, `154`, `278`, `284`: in a file that names no nodes, keepalived's switch, SELinux, docker's daemon section with its registries, and the pods on masters are replaced by the answers and defaults |
| `InitReached` without its condition | as they are | `tkube.go:908`: a master that is not in the configuration any more keeps its keepalived and the address |
| `NeverPanics` without `at = opt.remote` | as they are | `os.go:123-130`: stale credentials of the `--remote` node give neither a connection nor an error, and `RemoteRun` uses that connection |
| `ExitEnds` without its condition | as they are | `os.go:199`: where `sudo` needs the password, a second pass of `Exit` or a wrong password makes `sudo awk` fail, and that calls `Exit` |
| `PolicyCleared` without its condition | as they are | `os.go:718-720`: `Exit` takes the program's line away first, and then `sudo rm` of `policy-rc.d` fails unheard |

**Bounds.** Runs of the program (`MaxRuns`) are bounded everywhere: two runs meet
everything one cut-short run can leave, the third meets what a cut-short run
makes of that. Three masters are the smallest number with a majority
that can survive one loss, hence `MaxLosses = 1` (a second loss leaves no majority, and every
property about recovery is then void), and with a node between the first and
the last of every loop. Two nodes suffice where loops share only maps keyed by
address (`Sudoers`, `Connection`). In `Keepalived` the first master has neither the highest
nor the lowest address, and the second run meets every state of keepalived the first can leave.
One reboot (`MaxReboots`, `MaxFaults`) falls between any two commands or runs; a second one
only repeats it, since it leaves a node as it boots. One edit between runs and one during the
confirmation (`MaxEdits = 2`) meet all orders `Config` distinguishes. `MaxGlitches = 1`
is one failure inside `Exit`, or of the network, on top of the ones the models cause
themselves. Where a module has no counter (`PodWait`) the state space is finite.

**Symmetry** is used for the registries of `config` only, which checks no
liveness property. Masters are not symmetric: the code treats the first one
differently everywhere.

**Deadlock** is not checked: the models stop when their bound on runs is
reached, and the program really ends.

**Fairness.** tkube is one process that executes its next command as soon as the
last one has returned, and nothing competes with it: weak fairness of the
program's own steps (`Program`, `Cleanup`, `Waiter`) is what its scheduler
gives. The operator, signals, losses, glitches, kubelets and the API server have
none, except in `Keepalived`, whose liveness is about them: keepalived runs its check every
three seconds and advertises every second, and kubelet restarts its pods, so both have weak
fairness there; failures, reboots and interruptions have none. `VipServes` is conditional on
an API server that stays up next to keepalived. `WaitsEnd` is conditional: *if* the pods become ready and stay so, the
waits end. `RunsEnd` is checked with the program run on, or pointed at, the
first master, as `test.sh` does; the waits ask the kubeconfig of that machine.

**Worth knowing when reading the results**: `ToolInstalled`, `RunRecovers`,
`LineRemoved`, `PolicyCleared`, `ExitEnds`, `PolicyGone`, `MountedIso`, `ListsFound`, `MembersBoot`,
`EtcdOfCluster`, `InitReached`, `HealthyKeepsVip` and `OwnSettingsKept` name their exceptions in the formula, most by a
history variable (`cut`, `leaked`, `prev`, `rebooted`, `noFile`, `booted`, `served`). The exceptions are real: a master
killed between the copies of `etcd` and `etcdctl` stays without `etcdctl` where
the first master has both; a killed run leaves its sudoers line for good; a node's package
lists moved to `.backup` never come back. `ConfigNotLost` holds for each run;
over two runs the operator's own containerd configuration is overwritten by the
second backup. `KeepalivedGiven` exempts the placeholder address of a file once
written with keepalived off. `OwnSettingsKept` is about the settings `Config` has, all of them:
docker without its repository's address, the router id with keepalived off or without an address, and
what the first questions decide where no nodes are named are its exceptions (table above). Settings the
code replaces together with one that is missing are abstracted into that one and are no part of what it
says: a repository's name, key and switch go with its address (`config.go:210-218`, `290-300`), the
rest of containerd's section with the sandbox image (202), keepalived's priority and password with
its address (167-171, 180), bash completion with the first questions (283).

## 4. What is proved

The proofs are for any set of nodes, any order, any bounds.

`Cluster_proofs`
- `TypeCorrect` (`TypeOK`), by `TypeInv`, which adds that a recovery has a target
  besides which there is another node. The assumptions used are `NodeAssumption`,
  `OrderAssumption` (positions are distinct and every nonempty set of nodes has a
  first one) and `BoundAssumption`.
- `Resettable` (`ResettableLeftovers`), by `ResetInv`: between the reset of a node and
  the removal of its packages nothing of a cluster runs there. Without it the removal
  step alone would break the property.
- `OneIncarnation` (`EtcdOneIncarnation`), by `EtcdInv`: while etcd is stopped and
  wiped, what is behind the loop is stopped and empty; when the first member starts,
  all masters of the run still to start are empty; so a member finds the others on one
  incarnation and bootstraps into it.

- Under the assumption `AddTargets \cap Masters = {}`, without which `cluster_add_master`
  refutes the first: `KeepsMembership` (`MembershipKept`), the refinement, where initial states map
  to initial states and each action is a step of `Membership` or none; `SingleCluster`
  (`OneCluster`); `OwnStore` (`FreshStore`). The invariant `MembersIn` has one named part per reason:
  `CallInv` (what each command is given), `LeftInv` (nodes behind the reset are in no cluster until
  `kubeadm init` or `join`), `TokenInv` (the join command leads into the first master's cluster),
  `FirstInv`, `FoundedInv` (a run founds under its own number, not used before), and
  `OneMembership` (the masters that are in a cluster are in the same one).
- `Survives` (`ClusterSurvives`), with no further assumption: a step of `add node` or
  `recover node` changes only nodes of its run (`LoopInv`), and what carries the run's number is on
  those nodes (`IdInv`), so the majority that answers without them is not touched.
- `Outcome` (`RunOutcome`), with workers only for `add node`: `RunInv` follows a run from `kubeadm
  init` on. Nodes still to join are in no cluster (`UnjoinedInv`), those that have joined are in one
  that answers (`AliveInv`), a founded cluster has the run's number on its first master and that
  master's kubeconfig on the workers (`FoundingInv`), and joined nodes are in the first
  master's cluster (`JoinedInv`); `ConfOwn` says that a master's kubeconfig leads to its own cluster.
- `Restartable` (`InstallRestartable`), with workers only for `add node`: what every command of
  install needs (`InstallReady`) follows from `PkgInv` (the wanted packages), `InstInv` (the
  authority and the etcd data of the run) and `FoundedInv`. Two assumptions on the setting:
  `FirstIsMaster`, the first node of the configuration is a master, as in all of
  `src/test/config/*.yaml`, and `RunOnFirst`, the program is pointed at the first master, as
  `src/test/test.sh` does; elsewhere it would wait with a kubeconfig the run has not made.
- `Recovers` (`RecoverSucceeds`), with workers only for `add node`, `FirstIsMaster` and
  `FirstStays`: the master to recover is not the first one, without which
  `cluster_recover_first` refutes it. `IntactBefore` says that a cluster that is intact after a step
  of the recovery was so before it, and `RecoverReady` that no command fails in one:
  by `TrustInv`, `GivenInv`, `PlacedInv` (whose authority the masters trust and the operator
  provides), `ConfigInv` (the first master has its kubeadm configuration), `ExternalInv` (several
  masters keep their cluster in an external etcd) and `KeyInv` (the key of the uploaded certificates).

`Sudoers_proofs`
- `TypeCorrect`, `LineKept` (`AdminLineKept`), `LinesRemoved` (`LineRemoved`), by
  `SudoersInv`: the map says *absent* only where the administrator has no line (`MapInv`),
  and every line of the run's own is known to the map and, inside `Exit`, still before the loop
  (`DirtyInv`). The two keys of one machine are the reason it is not obvious.
- `SudoAlwaysWorks` (`SudoWorks`), by `SudoInv`.
- `PolicyAlwaysCleared` (`PolicyCleared`), by `PolicyInv`: `Exit` leaves a key only when its
  machine is clean, and starts over with all keys whenever a command of its own fails; where the
  administrator has a line, which `LineKept` says stays, sudo works without the program's.

`Connection_proofs`
- `KeepsCredentials` (`CredentialsKept`): the refinement. `DialKeeps` says what each of the three
  answers of a dial does to the file, `DialStep` that this is a step of `Credentials`; the invariant
  `TypeInv` has only what these need (addresses, and that credentials have as many versions as
  there were changes).
- `AlwaysConnected` (`WorkConnected`), by `ConnInv`: while a run lasts the cached connections are
  those of the nodes in `Nodes`, and what the loop of `PreRun` has passed is connected. It would
  fail after a write that fails (`SaveFails`), if that did not end the run.
- `NoPanic` (`NeverPanics`), under the assumption that no run has `--auth-map`, without which it
  is refuted (section 3), and `RightAnswersSuffice` (`RightAnswersWork`), both by `EndInv`: where
  `CheckSSHConnection` let a node pass without a connection, nothing is saved for it any more, so
  that the dial of `whoami` asks, and answers with a connection or an error.

`Runtime_proofs`
- `DockerIsReady`, `ContainerdIsReady`, `ConfigKept`, `PolicyIsGone`, all by one invariant with a
  part per function: `DockerInv` (docker runs only where it is installed, and is given its
  configuration in place only if no package differs, which is why the branch that keeps docker need
  not install anything), `ContainerdInv` (where the configuration that was found is, step by step),
  `PolicyInv`.

`Distribute_proofs`
- `ToolIsInstalled` (`ToolInstalled`). A skipped master is judged by the version of its first
  binary, so the invariant has to say what that version tells of the others: `WholeInv`, with the
  master being copied to as the exception, `CopyInv` for how far the copy is, and `DoneInv` for the
  masters the loops have passed or skipped. `LeastOf` (a nonempty set of numbers has a
  least element, from the library's theorem on well-founded relations) is what makes the next master
  of a loop a master.
- `Recovers` (`RunRecovers`), under `OnFirst`, which its run has too: the nodes reach the
  internet and the program is pointed at the first master of every list; section 3 shows what
  happens otherwise. `TmpInv` and `ResInv` say that an archive cut off in the middle and a missing
  directory are there only until the `Exit` of the run that left them, `ReadyInv` that the first
  master, once skipped or done, has every binary to copy to the others.

`IsoSetup_proofs`
- `ImageMounted` (`MountedIso`), by `FileInv` (a node without a history has the image or no
  file) and `FirstInv` (the node that is copied from is done and keeps its file), and `ListsStay`
  (`ListsFound`), by `RepoInv` (a package list is written only where there is a file, and the file
  is mounted until a reboot or a run cut short).

`NodePrep_proofs`
- The three theorems speak through `Done(l, c, n)`: the run has passed command `c` of loop `l` on
  node `n`, whichever loop it is in now. That turns "what the program has done by here" into
  invariants with one line per command, and `PcInv` ties it to the program's position.
- `Boots` (`MembersBoot`), by `SetInv` (what the run has written on its nodes, and what it has set
  where it is still connected, so that the node has not rebooted since), `SelinuxInv` and `MemberInv` (a
  member has every setting twice: now and for the next boot).
- `OwnEtcd` (`EtcdOfCluster`), by `ServiceInv` (no API server runs on the masters of the run before they
  join, and the service is stopped, or enabled and started, by then) and `StoreInv` (the service an
  API server needs is there for the next boot).
- `Known` (`NamesKnown`), by `NameInv`: a member is a node of a configuration whose nodes all know each
  other. It needs `Nested`: of any two configurations one contains the other. Where the operator
  exchanges one worker for another, the old one stays a member and its `/etc/hosts` is updated no more.

`Components_proofs`, of three components whose theorems are few (it extends `PodWait` and `Config`,
which is why the specification of the first is called `WaitSpec`, and has an instance of `Keepalived`)
- `NoWaitEndsEarly` (`WaitsSeen` of `PodWait`), by `PassInv`: of the names the pass has come by,
  those not met are on the list. The assumption `PodWaitAssumption` says that the list of names is a
  nonempty sequence.
- `SettledFileStands` (`Settled`), `RunsOnFile` (`WorksWithFile`), `AddressGiven`
  (`KeepalivedGiven`) of `Config`, with no assumption, by
  `ConfInv`: until the run writes the file nobody touches it, and of what the operator has set there the
  run has what it will write back (`FileInv`); what has been asked by which prompt (`AskedInv`); where
  the placeholder address can come from (`PlaceholderInv`); and a file written by a whole run is
  `Complete`, which makes every step of the next run the identity (`SettledInv`).
  `FilledFillsIn` is the lemma about the defaults: they leave nothing empty, touch nothing else, and
  change nothing where nothing was empty.
- The action property `OwnSettings` (`OwnSettingsKept` of `Config`: of every setting in the file, the exceptions
  being those of section 3), by `ConfInv` and `KeptInv`: what the run has not asked for it has from the file
  (`FromFile`), and docker is off only where it was off or has no repository's address. `FinishKeeps` is the
  step that writes the file.
- `AnswersStay` (`AnswersKept` of `Config`), by `AnswerInv`. `MirrorsKept`, which reads alike, is
  false (section 3).
- `HealthyMasterKeepsVip` (the action property `HealthyKeepsVip` of `Keepalived`), by `VipInv`: who has
  the address has keepalived running. `YieldsToBetter` is the argument about priorities.

**Only model-checked:** the liveness properties (`RunsEnd`, `ExitEnds`, `WaitsEnd`, `VipServes`,
`InitReached`), which need fairness and ENABLED. Every invariant and every action property of the
passing runs is proved. Where a theorem has an assumption on the constants, the constants of
its run satisfy it, and the assumption is given above with the reason for it.

## 5. What is not modelled

- The text of `kubeadm-config.yaml` and of certificates (`pkg/kube/kubeadm.go`, `ca.go`,
  `csr.go`), but for the endpoint and the etcd that `Keepalived` and `Cluster` use: pure functions
  of the configuration.
- Of the preparation of nodes: helm plugins, bash completion, image loading, package holds and
  taints, idempotent commands whose result no other step reads.
- In `NodePrep`, nodes whose address changes (their old lines stay in `/etc/hosts`); in
  `Connection`, a file of credentials cut off in the middle (it is smaller than one write).
- A pattern of `RemoveFromSudoers` (`os.go:201`) that also matches a longer user name: `Sudoers`
  has one user per machine.
- Two tkube processes at the same time: the program takes no lock, and is meant for one operator.
- Of `pkg/kube/kube.go`, what no command calls: `GetNodes`, `GetPodNames`, `GetActiveNamespaces`, `Exec`,
  `Copy`, `CreateNamespace`, `isSecretExists`, the waits for deletion, and the deletion of volumes,
  secrets and stuck resources (`DeleteAllPvAndPvc` to `ForceDeleteAllPvc`).
- The encryption of the saved credentials, prompts, flags, spinners and logging.
- Kerberos and private keys in so far as they differ from a password only in the library
  that uses them.
- `offline/`, `test/`, `vendor/`: build scripts, scenarios and libraries.

## 6. Plan

Order of work, most important behaviour first. Done: 1 to 11.

1. `Cluster`: the pipeline over several runs, with its safety properties (`cluster`).
2. `Membership`: the abstract promise and the refinement (`cluster`).
3. `Sudoers`: what the program leaves on machines.
4. `Cluster_proofs`, `Sudoers_proofs`, `Connection_proofs`, `Runtime_proofs`,
   `Distribute_proofs`, `IsoSetup_proofs`, `NodePrep_proofs`, `Components_proofs`.
5. `Connection`.
6. `Distribute`.
7. `Runtime`.
8. `Config`, `IsoSetup`.
9. `PodWait`.
10. `NodePrep` and `Keepalived`: what nodes are left with for their next boot, and the address of
    the control plane.
11. `Credentials`: the abstract promise and the refinement by `Connection`.
12. Pure rules as functions: Calico's version from Kubernetes' (`getCalicoVersion`) and
    `GetCalicoExactUrl`, the API version of kubeadm's configuration, the cgroup driver of kubelet
    against that of its runtime, version comparison by prefix.
13. The order of masters and workers in the configuration; other machines than the first master
    for `RunsEnd`; an abstract specification of a node's packages, implemented by `Runtime`.
14. Proofs: the type invariants that are only stated or implied (`Connection`, `Distribute`,
    `Runtime`, `IsoSetup`, `NodePrep`, `Config`, `Keepalived`) as theorems, and what the abstract specification of 13
    is implemented by.
