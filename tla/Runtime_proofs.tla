---------------------------- MODULE Runtime_proofs ----------------------------
(***************************************************************************)
(* What installDocker and installContainerd leave on a node, for any       *)
(* number of runs with any wishes, each of which may end at any step.      *)
(***************************************************************************)
EXTENDS Runtime, TLAPS

\* What the proofs need of the types.
TypeInv ==
  /\ pkg \in [Packages -> Versions] /\ policy \in BOOLEAN /\ password \in BOOLEAN
  /\ cut \in BOOLEAN /\ runs \in Nat

Wanted == {"alike", "wanted"}
Docker == {"docker-ce", "docker-ce-cli"}

\* A docker that runs is installed; it is given its configuration in place only
\* if no package has another version, and removed before it is set up anew.
DockerInv ==
  /\ dockerd # "off" => Installed("docker-ce")
  /\ pc \in {"stop", "write", "restart"} => Installed("docker-ce") /\ ~DifferentDockerVer
  /\ pc \in {"restart", "restart new"} => json = "new"
  /\ pc \in {"policy off", "write new", "restart new"} => \A p \in Docker : pkg[p] \in Wanted

\* Where the configuration that installContainerd found is, and when the new
\* one is complete.
ContainerdInv ==
  /\ pc \in ContainerdSteps => Installed("containerd.io")
  /\ pc \in {"drop", "move"} => before = toml
  /\ pc \in {"default", "edit", "start"} => before = bak
  /\ pc = "start" => toml = "new"
  /\ pc = "done" /\ wish.cri => containerd = "new"

\* policy-rc.d is there while the packages are installed, or was left behind.
PolicyInv == policy => cut \/ NoStart

IInv ==
  /\ TypeInv /\ DockerInv /\ ContainerdInv /\ PolicyInv
  /\ DockerReady /\ ContainerdReady /\ ConfigNotLost

LEMMA InitIInv == Init => IInv
<1> SUFFICES ASSUME Init PROVE IInv
  OBVIOUS
<1>1. TypeInv
  BY RuntimeAssumption DEF Init, TypeInv, Packages, Versions
<1>2. dockerd # "off" => Installed("docker-ce")
  BY DEF Init, Installed
<1>3. pc = "idle" /\ end = "ok" /\ runs = 0 /\ policy = FALSE
  BY DEF Init
<1> QED
  BY <1>1, <1>2, <1>3 DEF IInv, DockerInv, ContainerdInv, PolicyInv, DockerReady, ContainerdReady,
     ConfigNotLost, ContainerdSteps

\* A new run, perhaps of another version, makes what is there an old thing.
LEMMA StartKeeps == ASSUME IInv, Start PROVE IInv'
<1>1. /\ pc = "idle" /\ runs' = runs + 1 /\ pc' = (IF wish'.docker THEN "look" ELSE "containerd")
      /\ dockerd' = Aged(dockerd) /\ UNCHANGED <<policy, password, cut>>
      /\ \/ UNCHANGED pkg
         \/ pkg' = [p \in Packages |-> IF pkg[p] = "wanted" THEN "other" ELSE pkg[p]]
  BY DEF Start
<1>2. TypeInv' /\ \A p \in Packages : pkg[p] # "none" <=> pkg'[p] # "none"
  BY <1>1 DEF IInv, TypeInv, Versions
<1>3. DockerInv'
  BY <1>1, <1>2 DEF IInv, DockerInv, Aged, Installed, Packages
<1>4. ContainerdInv' /\ ConfigNotLost' /\ ContainerdReady'
  BY <1>1 DEF ContainerdInv, ConfigNotLost, ContainerdReady, ContainerdSteps
<1>5. DockerReady' /\ PolicyInv'
  BY <1>1 DEF IInv, DockerReady, PolicyInv, NoStart
<1> QED
  BY <1>2, <1>3, <1>4, <1>5 DEF IInv

(* ---------------------------- installDocker ---------------------------- *)

LEMMA LookKeeps == ASSUME IInv, LookDocker PROVE IInv'
<1>1. /\ pc = "look" /\ UNCHANGED <<node, password, wish, end, before, cut, runs>>
      /\ \/ pc' \in {"remove cli", "clear"}
         \/ pc' = "stop" /\ dockerd # "off" /\ ~DifferentDockerVer
  BY DEF LookDocker, Goto
<1>2. TypeInv' /\ PolicyInv'
  BY <1>1 DEF IInv, TypeInv, PolicyInv, NoStart, node
<1>3. DockerInv'
  BY <1>1 DEF IInv, DockerInv, Installed, DifferentDockerVer, node
<1>4. ContainerdInv' /\ DockerReady' /\ ContainerdReady' /\ ConfigNotLost'
  BY <1>1 DEF ContainerdInv, DockerReady, ContainerdReady, ConfigNotLost, ContainerdSteps
<1> QED
  BY <1>2, <1>3, <1>4 DEF IInv

\* Whatever package is removed, docker does not run afterwards.
LEMMA RemoveKeeps == ASSUME IInv, RemovePackages PROVE IInv'
<1>1. PICK p \in Packages,
           from \in {"remove cli", "remove engine", "remove containerd"},
           next \in {"remove engine", "remove containerd", "clear"} : Remove(p, from, next)
  BY DEF RemovePackages, Packages
<1>2. /\ pc = from /\ pc' = next /\ UNCHANGED <<policy, password, cut, runs>>
      /\ \/ pkg' = Without(p) /\ dockerd' = "off"
         \/ UNCHANGED <<pkg, dockerd>>
  BY <1>1 DEF Remove, Goto
<1>3. TypeInv'
  BY <1>2 DEF IInv, TypeInv, Without, Versions
<1>4. DockerInv'
  BY <1>2 DEF IInv, DockerInv, Installed
<1>5. ContainerdInv' /\ PolicyInv' /\ DockerReady' /\ ContainerdReady' /\ ConfigNotLost'
  BY <1>2 DEF IInv, ContainerdInv, PolicyInv, NoStart, DockerReady, ContainerdReady,
     ConfigNotLost, ContainerdSteps
<1> QED
  BY <1>3, <1>4, <1>5 DEF IInv

\* The branch that keeps docker: stop, write, restart.
LEMMA KeepDockerKeeps == ASSUME IInv, StopDocker \/ Reconfigure PROVE IInv'
<1>1. /\ pc \in {"stop", "write", "restart"} /\ UNCHANGED <<pkg, policy, password, cut, runs, wish>>
      /\ Installed("docker-ce") /\ ~DifferentDockerVer
  BY DEF StopDocker, Reconfigure, DaemonCfg, RestartDocker, Goto, IInv, DockerInv
<1>2. \/ pc' = "write"
      \/ pc' = "restart" /\ json' = "new"
      \/ pc' = "clear"
      \/ pc' = "containerd" /\ dockerd' = json /\ json = "new" /\ Installed("docker-ce-cli")
  BY DEF StopDocker, Reconfigure, DaemonCfg, RestartDocker, Goto, IInv, DockerInv, BothInstalled
<1>3. pc' = "containerd" => {pkg["docker-ce"], pkg["docker-ce-cli"]} \subseteq Wanted
  BY <1>1, <1>2 DEF IInv, TypeInv, Installed, DifferentDockerVer, Versions, Packages, Wanted
<1>4. TypeInv' /\ PolicyInv'
  BY <1>1, <1>2 DEF IInv, TypeInv, PolicyInv, NoStart
<1>5. DockerInv' /\ DockerReady'
  BY <1>1, <1>2, <1>3 DEF DockerInv, DockerReady, Installed, DifferentDockerVer, Wanted
<1>6. ContainerdInv' /\ ContainerdReady' /\ ConfigNotLost'
  BY <1>2 DEF ContainerdInv, ContainerdReady, ConfigNotLost, ContainerdSteps
<1> QED
  BY <1>4, <1>5, <1>6 DEF IInv

\* The branch that installs docker while packages may start no services.
LEMMA NewDockerKeeps ==
  ASSUME IInv, ClearDocker \/ PolicyOn \/ InstallDocker \/ PolicyOff \/ Configure
  PROVE  IInv'
<1>1. UNCHANGED <<password, cut, runs, wish>>
  BY DEF ClearDocker, PolicyOn, InstallDocker, PolicyOff, Configure, DaemonCfg, RestartDocker, Goto
<1>2. CASE ClearDocker
  <2>1. pc = "clear" /\ pc' = "no start" /\ UNCHANGED <<pkg, dockerd, policy>>
    BY <1>2 DEF ClearDocker, Goto
  <2>2. TypeInv' /\ PolicyInv'
    BY <1>1, <2>1 DEF IInv, TypeInv, PolicyInv, NoStart
  <2>3. DockerInv' /\ DockerReady'
    BY <2>1 DEF IInv, DockerInv, DockerReady, Installed
  <2> QED
    BY <2>1, <2>2, <2>3 DEF IInv, ContainerdInv, ContainerdReady, ConfigNotLost, ContainerdSteps
<1>3. CASE PolicyOn
  BY <1>1, <1>3 DEF PolicyOn, Goto, IInv, TypeInv, DockerInv, ContainerdInv, PolicyInv, NoStart,
     DockerReady, ContainerdReady, ConfigNotLost, ContainerdSteps, Installed
<1>4. CASE InstallDocker
  <2>1. pc = "install" /\ pc' = "policy off" /\ UNCHANGED <<policy, dockerd>>
    BY <1>4 DEF InstallDocker, Goto
  <2>2. /\ pkg' \in [Packages -> Versions]
        /\ \A p \in Docker : pkg'[p] \in Wanted /\ pkg'[p] # "none"
    BY <1>4 DEF InstallDocker, IInv, TypeInv, Target, Packages, Versions, Wanted, Docker
  <2>3. TypeInv' /\ PolicyInv'
    BY <1>1, <2>1, <2>2 DEF IInv, TypeInv, PolicyInv, NoStart
  <2>4. DockerInv'
    BY <2>1, <2>2 DEF DockerInv, Installed, Docker
  <2> QED
    BY <2>1, <2>3, <2>4 DEF IInv, ContainerdInv, DockerReady, ContainerdReady, ConfigNotLost,
       ContainerdSteps
<1>5. CASE PolicyOff
  BY <1>1, <1>5 DEF PolicyOff, Goto, IInv, TypeInv, DockerInv, ContainerdInv, PolicyInv, NoStart,
     DockerReady, ContainerdReady, ConfigNotLost, ContainerdSteps, Installed
<1>6. CASE Configure
  <2>1. /\ pc \in {"write new", "restart new"} /\ UNCHANGED <<pkg, policy>>
        /\ \A p \in Docker : pkg[p] \in Wanted
    BY <1>6 DEF Configure, DaemonCfg, RestartDocker, Goto, IInv, DockerInv
  <2>2. \/ pc' = "restart new" /\ json' = "new" /\ UNCHANGED dockerd
        \/ pc' = "containerd" /\ dockerd' = "new"
    BY <1>6 DEF Configure, DaemonCfg, RestartDocker, Goto, IInv, DockerInv
  <2>3. TypeInv' /\ PolicyInv'
    BY <1>1, <2>1, <2>2 DEF IInv, TypeInv, PolicyInv, NoStart
  <2>4. DockerInv' /\ DockerReady'
    BY <2>1, <2>2 DEF DockerInv, DockerReady, Installed, Docker, Wanted
  <2> QED
    BY <2>2, <2>3, <2>4 DEF IInv, ContainerdInv, ContainerdReady, ConfigNotLost, ContainerdSteps
<1> QED
  BY <1>2, <1>3, <1>4, <1>5, <1>6

(* -------------------------- installContainerd -------------------------- *)

LEMMA InstallContainerdKeeps == ASSUME IInv, InstallContainerd PROVE IInv'
<1>1. /\ pc = "containerd" /\ pc' = (IF wish.cri THEN "drop" ELSE "done") /\ before' = toml'
      /\ UNCHANGED <<json, dockerd, policy, password, wish, end, cut, runs>>
  BY DEF InstallContainerd
<1>2. /\ pkg' \in [Packages -> Versions] /\ pkg'["containerd.io"] # "none"
      /\ pkg'["docker-ce"] = pkg["docker-ce"]
  BY DEF InstallContainerd, Installed, IInv, TypeInv, Packages, Versions
<1>3. TypeInv' /\ PolicyInv'
  BY <1>1, <1>2 DEF IInv, TypeInv, PolicyInv, NoStart
<1>4. DockerInv' /\ DockerReady'
  BY <1>1, <1>2 DEF IInv, DockerInv, DockerReady, Installed
<1>5. ContainerdInv' /\ ContainerdReady' /\ ConfigNotLost'
  BY <1>1, <1>2 DEF ContainerdInv, ContainerdReady, ConfigNotLost, Installed
<1> QED
  BY <1>3, <1>4, <1>5 DEF IInv

\* The old configuration becomes the backup before the new one is written.
LEMMA ConfigureContainerdKeeps ==
  ASSUME IInv, DropBackup \/ MoveAway \/ DefaultConfig \/ EditConfig \/ RestartContainerd
  PROVE  IInv'
<1>1. /\ UNCHANGED <<pkg, json, dockerd, policy, password, wish, end, before, cut, runs>>
      /\ pc \in {"drop", "move", "default", "edit", "start"}
      /\ pc' \in {"move", "default", "edit", "start", "done"}
  BY DEF DropBackup, MoveAway, DefaultConfig, EditConfig, RestartContainerd, Goto
<1>2. TypeInv' /\ PolicyInv'
  BY <1>1 DEF IInv, TypeInv, PolicyInv, NoStart
<1>3. DockerInv' /\ DockerReady'
  BY <1>1 DEF IInv, DockerInv, DockerReady, Installed
<1>4. ContainerdReady'
  BY <1>1 DEF ContainerdReady
<1>5. ContainerdInv' /\ ConfigNotLost'
  BY <1>1 DEF DropBackup, MoveAway, DefaultConfig, EditConfig, RestartContainerd, Goto,
     IInv, ContainerdInv, ConfigNotLost, ContainerdSteps, Installed
<1> QED
  BY <1>2, <1>3, <1>4, <1>5 DEF IInv

(* ------------------------------- the end ------------------------------- *)

LEMMA EndKeeps == ASSUME IInv, Finish \/ Fail \/ Killed PROVE IInv'
<1>1. /\ pc' = "idle" /\ UNCHANGED <<pkg, dockerd, containerd, password, wish, runs>>
      /\ policy' \in BOOLEAN /\ cut' \in BOOLEAN /\ (policy' => cut')
  <2>1. policy \in BOOLEAN /\ password \in BOOLEAN /\ cut \in BOOLEAN /\ (policy => cut \/ NoStart)
    BY DEF IInv, TypeInv, PolicyInv
  <2>2. CASE Killed
    BY <2>1, <2>2 DEF Killed, End, NoStart, node
  <2>3. CASE Finish \/ Fail
    <3>1. PICK how \in {"ok", "failed"} : Exit(how)
      BY <2>3 DEF Finish, Fail
    <3> QED
      BY <2>1, <3>1 DEF Exit, End, NoStart
  <2> QED
    BY <2>2, <2>3
<1>2. end' = "ok" => pc = "done"
  BY DEF Finish, Fail, Killed, Exit, End
<1>3. TypeInv' /\ PolicyInv'
  BY <1>1 DEF IInv, TypeInv, PolicyInv
<1>4. DockerInv' /\ DockerReady'
  BY <1>1 DEF IInv, DockerInv, DockerReady, Installed
<1>5. ContainerdReady'
  BY <1>1, <1>2 DEF IInv, ContainerdInv, ContainerdReady, ContainerdSteps, Installed
<1>6. ContainerdInv' /\ ConfigNotLost'
  BY <1>1 DEF ContainerdInv, ConfigNotLost, ContainerdSteps
<1> QED
  BY <1>3, <1>4, <1>5, <1>6 DEF IInv

LEMMA NextKeeps == IInv /\ [Next]_vars => IInv'
<1>1. IInv /\ Next => IInv'
  BY StartKeeps, LookKeeps, RemoveKeeps, KeepDockerKeeps, NewDockerKeeps,
     InstallContainerdKeeps, ConfigureContainerdKeeps, EndKeeps DEF Next
<1>2. IInv /\ UNCHANGED vars => IInv'
  <2> SUFFICES ASSUME IInv, UNCHANGED vars PROVE IInv'
    OBVIOUS
  <2>1. TypeInv' /\ PolicyInv'
    BY DEF IInv, TypeInv, PolicyInv, NoStart, vars, node
  <2>2. DockerInv' /\ DockerReady'
    BY DEF IInv, DockerInv, DockerReady, Installed, DifferentDockerVer, vars, node
  <2>3. ContainerdInv' /\ ContainerdReady' /\ ConfigNotLost'
    BY DEF IInv, ContainerdInv, ContainerdReady, ConfigNotLost, ContainerdSteps, Installed, vars, node
  <2> QED
    BY <2>1, <2>2, <2>3 DEF IInv
<1> QED
  BY <1>1, <1>2

LEMMA Invariant == Spec => []IInv
BY InitIInv, NextKeeps, PTL DEF Spec

\* installDocker ends with the wanted packages and a daemon that has read this
\* run's daemon.json, whatever the runs before it left behind.
THEOREM DockerIsReady == Spec => []DockerReady
<1>1. IInv => DockerReady
  BY DEF IInv
<1> QED
  BY Invariant, <1>1, PTL

\* A run that ends well leaves a containerd that runs with this run's
\* configuration (installContainerd).
THEOREM ContainerdIsReady == Spec => []ContainerdReady
<1>1. IInv => ContainerdReady
  BY DEF IInv
<1> QED
  BY Invariant, <1>1, PTL

\* Wherever installContainerd is cut short the configuration it found is in
\* /etc/containerd or in the backup.
THEOREM ConfigKept == Spec => []ConfigNotLost
<1>1. IInv => ConfigNotLost
  BY DEF IInv
<1> QED
  BY Invariant, <1>1, PTL

\* policy-rc.d outlives only a run that was killed while packages were being
\* installed, or failed then where sudo needs a password (InstallPackageNoStart,
\* Exit).
THEOREM PolicyIsGone == Spec => []PolicyGone
<1>1. IInv => PolicyGone
  BY DEF IInv, PolicyInv, PolicyGone, NoStart
<1> QED
  BY Invariant, <1>1, PTL
=============================================================================
