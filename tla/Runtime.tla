-------------------------------- MODULE Runtime -------------------------------
(***************************************************************************)
(* The container runtimes of one node: installDocker and installContainerd *)
(* (pkg/core/tkube.go) with the package functions of pkg/os/os.go, over    *)
(* several runs with other wishes, each of which may be cut short by a     *)
(* failure or a signal.  The loops over the nodes do the same to every     *)
(* node and share nothing, so one node is enough.                          *)
(*                                                                         *)
(* A version of docker is "wanted", "alike" (another one whose text        *)
(* contains the wanted one, as 24.0.10 does 24.0.1) or "other".            *)
(***************************************************************************)
EXTENDS Integers

CONSTANTS
  Wishes,    \* what runs may be asked for, see Wish
  Passwords, \* whether Exit takes sudo away from the program, in one behaviour or another
  MaxRuns    \* bound: runs of the program

Wish == [docker: BOOLEAN,  \* kubernetes before 1.24, or docker.enabled
         cri: BOOLEAN,     \* kubernetes 1.24 or later: containerd is configured
         prune: BOOLEAN,   \* --docker-prune
         pin: BOOLEAN]     \* --containerd-version

ASSUME RuntimeAssumption ==
  Wishes \subseteq Wish /\ Wishes # {} /\ Passwords \subseteq BOOLEAN /\ MaxRuns \in Nat

Packages == {"docker-ce", "docker-ce-cli", "containerd.io"}
Versions == {"none", "other", "alike", "wanted"}
Configs  == {"none", "old", "new"}   \* "new": as this run's configuration says

VARIABLES
  pkg,      \* the installed version of a package
  json,     \* /etc/docker/daemon.json
  dockerd,  \* the daemon.json that the running daemon has read; "off": none runs
  toml,     \* /etc/containerd: "none", "old" or "new"
  bak,      \* /etc/containerd_bak
  containerd, \* the configuration the running containerd has read, or "off"
  policy,   \* /usr/sbin/policy-rc.d is there: packages start no services
  password, \* the node's sudoers line is the program's own: Exit takes it away
  wish, pc, end,
  before,   \* history: /etc/containerd when installContainerd began
  cut,      \* history: a run ended inside InstallPackageNoStart, uncleaned
  runs

node == <<pkg, json, dockerd, toml, bak, containerd, policy>>
vars == <<node, password, wish, pc, end, before, cut, runs>>

Running == Configs \cup {"off"}

Init ==
  /\ pkg \in [Packages -> {"none", "other", "alike"}]
  /\ (pkg["docker-ce"] # "none" =>
        pkg["docker-ce-cli"] # "none" /\ pkg["containerd.io"] # "none")
  /\ json \in {"none", "old"} /\ toml \in {"none", "old"} /\ bak = "none"
  /\ dockerd \in (IF pkg["docker-ce"] = "none" THEN {"off"} ELSE {"off", json})
  /\ containerd \in (IF pkg["containerd.io"] = "none" THEN {"off"} ELSE {"off", toml})
  /\ policy = FALSE /\ password \in Passwords
  /\ wish \in Wishes /\ pc = "idle" /\ end = "ok" /\ before = toml /\ cut = FALSE
  /\ runs = 0

(* ------------------------------ the steps ------------------------------ *)

Aged(c) == IF c = "new" THEN "old" ELSE c

\* installDocker returns at once for kubernetes 1.24 and docker not enabled.
\* The wanted version of a later run may be another one.
Start ==
  /\ pc = "idle" /\ runs < MaxRuns /\ runs' = runs + 1
  /\ wish' \in Wishes /\ pc' = IF wish'.docker THEN "look" ELSE "containerd"
  /\ json' = Aged(json) /\ dockerd' = Aged(dockerd)
  /\ toml' = Aged(toml) /\ bak' = Aged(bak) /\ containerd' = Aged(containerd)
  /\ UNCHANGED <<before, cut>>
  /\ \/ UNCHANGED pkg
     \/ pkg' = [p \in Packages |-> IF pkg[p] = "wanted" THEN "other" ELSE pkg[p]]
  /\ UNCHANGED <<policy, password, end>>

Goto(p) == pc' = p /\ UNCHANGED <<password, wish, end, before, cut, runs>>
Installed(p) == pkg[p] # "none"

\* Faulty variant: the client is not looked at.
DifferentDockerVer_Engine == pkg["docker-ce"] = "other"

\* strings.Contains, so "alike" passes.
DifferentDockerVer == "other" \in {pkg["docker-ce"], pkg["docker-ce-cli"]}

LookDocker ==
  /\ pc = "look"
  /\ Goto(IF wish.prune \/ DifferentDockerVer THEN "remove cli"
          ELSE IF dockerd = "off" THEN "clear" ELSE "stop")
  /\ UNCHANGED node

\* Removing a package removes those that depend on it, and stops its service.
Without(p) ==
  [q \in Packages |->
     IF q = p \/ (q = "docker-ce" /\ p # "docker-ce") THEN "none" ELSE pkg[q]]

\* The packages in the order of the code; those that are not there are skipped.
Remove(p, at, next) ==
  /\ pc = at /\ Goto(next)
  /\ IF Installed(p)
     THEN /\ pkg' = Without(p) /\ dockerd' = "off"
          /\ containerd' = IF p = "containerd.io" THEN "off" ELSE containerd
          /\ toml' \in (IF p = "containerd.io" THEN {"none", toml} ELSE {toml})
     ELSE UNCHANGED <<pkg, dockerd, containerd, toml>>
  /\ UNCHANGED <<json, bak, policy>>

RemovePackages ==
  \/ Remove("docker-ce-cli", "remove cli", "remove engine")
  \/ Remove("docker-ce", "remove engine", "remove containerd")
  \/ Remove("containerd.io", "remove containerd", "clear")

\* Docker is there and runs: it is given this run's daemon.json.
StopDocker ==
  /\ pc = "stop" /\ Goto("write") /\ dockerd' = "off"
  /\ UNCHANGED <<pkg, json, toml, bak, containerd, policy>>

\* createDockerDaemonCfgOn: a move of one file
DaemonCfg(at, next) ==
  /\ pc = at /\ Goto(next) /\ json' = "new"
  /\ UNCHANGED <<pkg, dockerd, toml, bak, containerd, policy>>

\* ChangeServiceStatus tries ten times, then gives up (see Fail).  Starting
\* docker starts containerd.
RestartDocker(at, next) ==
  /\ pc = at /\ Goto(next) /\ dockerd' = json
  /\ containerd' = IF containerd = "off" THEN toml ELSE containerd
  /\ UNCHANGED <<pkg, json, toml, bak, policy>>

BothInstalled == Installed("docker-ce") /\ Installed("docker-ce-cli")

Reconfigure ==
  \/ DaemonCfg("write", "restart")
  \/ RestartDocker("restart", IF BothInstalled THEN "containerd" ELSE "clear")

\* rm -rf /etc/docker/*, and with --docker-prune the images (not modelled)
ClearDocker ==
  /\ pc = "clear" /\ Goto("no start")
  /\ json' = "none" /\ UNCHANGED <<pkg, dockerd, toml, bak, containerd, policy>>

PolicyOn ==
  /\ pc = "no start" /\ Goto("install") /\ policy' = TRUE
  /\ UNCHANGED <<pkg, json, dockerd, toml, bak, containerd>>

Target(v) == IF v = "alike" THEN "alike" ELSE "wanted"

\* containerd.io comes along, pinned or as the newest one, and with it a
\* config.toml if there is none.
InstallDocker ==
  /\ pc = "install" /\ Goto("policy off")
  /\ pkg' = [p \in Packages |->
       IF p = "containerd.io"
       THEN IF wish.pin THEN "wanted" ELSE IF Installed(p) THEN pkg[p] ELSE "other"
       ELSE Target(pkg[p])]
  /\ toml' = IF toml = "none" THEN "old" ELSE toml
  /\ UNCHANGED <<json, dockerd, bak, containerd, policy>>

PolicyOff ==
  /\ pc = "policy off" /\ Goto("write new") /\ policy' = FALSE
  /\ UNCHANGED <<pkg, json, dockerd, toml, bak, containerd>>

Configure ==
  \/ DaemonCfg("write new", "restart new")
  \/ RestartDocker("restart new", "containerd")

(* ------------------------- installContainerd --------------------------- *)

\* InstallPackage leaves any version alone; --containerd-version has no part.
\* A fresh package starts its service unless policy-rc.d forbids it.
InstallContainerd ==
  /\ pc = "containerd" /\ pc' = IF wish.cri THEN "drop" ELSE "done"
  /\ IF Installed("containerd.io")
     THEN UNCHANGED <<pkg, toml, containerd>>
     ELSE /\ pkg' = [pkg EXCEPT !["containerd.io"] = "other"]
          /\ toml' = IF toml = "none" THEN "old" ELSE toml
          /\ containerd' = IF policy THEN "off" ELSE toml'
  /\ before' = toml'
  /\ UNCHANGED <<json, dockerd, bak, policy, password, wish, end, cut, runs>>

DropBackup ==
  /\ pc = "drop" /\ Goto("move") /\ bak' = "none"
  /\ UNCHANGED <<pkg, json, dockerd, toml, containerd, policy>>

\* Faulty variant: the old directory is deleted instead of moved.
MoveAway_Delete ==
  /\ pc = "move" /\ Goto("default") /\ toml' = "none"
  /\ UNCHANGED <<pkg, json, dockerd, bak, containerd, policy>>

MoveAway ==
  /\ pc = "move" /\ Goto("default") /\ bak' = toml /\ toml' = "none"
  /\ UNCHANGED <<pkg, json, dockerd, containerd, policy>>

\* containerd config default, then sed for cgroups, sandbox and registries
DefaultConfig ==
  /\ pc = "default" /\ Goto("edit") /\ toml' = "old"
  /\ UNCHANGED <<pkg, json, dockerd, bak, containerd, policy>>

EditConfig ==
  /\ pc = "edit" /\ Goto("start") /\ toml' = "new"
  /\ UNCHANGED <<pkg, json, dockerd, bak, containerd, policy>>

\* Faulty variant: systemctl start, which leaves a running containerd alone.
RestartContainerd_Start ==
  /\ pc = "start" /\ Goto("done")
  /\ containerd' = IF containerd = "off" THEN toml ELSE containerd
  /\ UNCHANGED <<pkg, json, dockerd, toml, bak, policy>>

RestartContainerd ==
  /\ pc = "start" /\ Goto("done") /\ containerd' = toml
  /\ UNCHANGED <<pkg, json, dockerd, toml, bak, policy>>

(* ------------------------------ the end -------------------------------- *)

End(how) == pc' = "idle" /\ end' = how /\ UNCHANGED <<password, wish, before, runs>>
NoStart == pc \in {"install", "policy off"}

\* Faulty variant: Exit forgets policy-rc.d.
Exit_KeepPolicy(how) ==
  /\ End(how) /\ cut' = (cut \/ (NoStart /\ password))
  /\ UNCHANGED node

\* Exit removes policy-rc.d, after it has taken its line out of sudoers: on a
\* node where sudo needs that line the "rm || true" does nothing.
Exit(how) ==
  /\ End(how)
  /\ policy' = (policy /\ password) /\ cut' = (cut \/ (NoStart /\ password))
  /\ UNCHANGED <<pkg, json, dockerd, toml, bak, containerd>>

Finish == pc = "done" /\ Exit("ok")

\* A command fails for an outside reason: no such version, no network, ...
Fail == pc \notin {"idle", "done"} /\ Exit("failed")

\* A signal, or the connection to the node is gone.
Killed ==
  /\ pc # "idle" /\ End("killed") /\ cut' = (cut \/ NoStart)
  /\ UNCHANGED node

Next ==
  \/ Start \/ LookDocker \/ RemovePackages \/ StopDocker \/ Reconfigure
  \/ ClearDocker \/ PolicyOn \/ InstallDocker \/ PolicyOff \/ Configure
  \/ InstallContainerd \/ DropBackup \/ MoveAway \/ DefaultConfig
  \/ EditConfig \/ RestartContainerd \/ Finish \/ Fail \/ Killed

Spec == Init /\ [][Next]_vars

(* ----------------------------- properties ------------------------------ *)

DockerSteps ==
  {"look", "remove cli", "remove engine", "remove containerd", "stop", "write",
   "restart", "clear", "no start", "install", "policy off", "write new", "restart new"}
ContainerdSteps == {"drop", "move", "default", "edit", "start", "done"}

TypeOK ==
  /\ pkg \in [Packages -> Versions] /\ {json, toml, bak} \subseteq Configs
  /\ {dockerd, containerd} \subseteq Running /\ policy \in BOOLEAN
  /\ password \in Passwords /\ wish \in Wishes /\ pc \in DockerSteps \cup ContainerdSteps \cup {"idle", "containerd"}
  /\ end \in {"ok", "failed", "killed"} /\ before \in Configs /\ cut \in BOOLEAN
  /\ runs \in 0 .. MaxRuns

\* Whatever earlier runs left behind, installDocker ends with both packages in
\* the wanted version (as far as text comparison tells) and a daemon that has
\* read this run's daemon.json; and it restarts docker only where it is.
DockerReady ==
  /\ pc \in {"restart", "restart new"} => Installed("docker-ce")
  /\ pc = "containerd" /\ wish.docker =>
       /\ {pkg["docker-ce"], pkg["docker-ce-cli"]} \subseteq {"alike", "wanted"}
       /\ dockerd = "new"

\* A run that ends well leaves a containerd that runs with this run's config.
ContainerdReady ==
  pc = "idle" /\ end = "ok" /\ runs > 0 =>
    Installed("containerd.io") /\ (wish.cri => containerd = "new")

\* Wherever installContainerd is cut short, the configuration it found is still
\* on the node, in its place or as the backup.
ConfigNotLost == pc \in ContainerdSteps => before \in {toml, bak}

\* policy-rc.d outlives the run that made it only if that was killed while the
\* packages were being installed, or failed then on a node where sudo needs a
\* password.
PolicyGone == pc = "idle" /\ policy => cut

\* A run that was asked for a version of containerd leaves that version.  The
\* code does not keep this where docker is not asked for.
ContainerdVersionUsed ==
  pc = "idle" /\ end = "ok" /\ runs > 0 /\ wish.pin => pkg["containerd.io"] = "wanted"
=============================================================================
