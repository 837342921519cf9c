-------------------------------- MODULE Config --------------------------------
(***************************************************************************)
(* The deployment configuration (pkg/config/config.go): ReadConfig reads   *)
(* the file, asks for what is missing, fills in defaults, writes the file  *)
(* when that changed anything, and has the operator confirm.  Between the  *)
(* runs, and while a run waits for the confirmation, the operator edits    *)
(* the file.                                                               *)
(*                                                                         *)
(* Settings whose only treatment is "empty becomes the default" are one    *)
(* function, cfg.set; the rest of the record follows model/deployment.go.  *)
(***************************************************************************)
EXTENDS Integers

CONSTANTS
  Hosts,       \* nodes the operator may enter
  Registries,  \* registries the operator may enter
  Rpm,         \* DetectOS found CentOS, Rocky or Red Hat
  MaxRuns,     \* bound: runs of the program
  MaxEdits     \* bound: edits of the file by the operator

ASSUME ConfigAssumption ==
  /\ Hosts # {} /\ Rpm \in BOOLEAN /\ MaxRuns \in Nat /\ MaxEdits \in Nat

\* "sandbox" is containerd's image, "repo" docker's repository, "other" stands
\* for etcd, helm, helmfile, packages, kubernetes and the custom repositories.
Plain   == {"sandbox", "repo", "calico", "other"}
Id      == {0, 1, 7}    \* 0 is none; 7 is what the operator enters
Vips    == {"none", "local", "given"}

Config ==
  [nodes: SUBSET Hosts, selinux: BOOLEAN, set: [Plain -> {"", "default", "custom"}],
   calicoUrl: {"", "custom"}, keepalived: BOOLEAN, vip: Vips, routerId: Id,
   docker: BOOLEAN, insecure: SUBSET Registries, mirrors: SUBSET Registries,
   daemon: {"none", "default", "custom"}, schedule: BOOLEAN]

Empty ==
  [nodes |-> {}, selinux |-> FALSE, set |-> [p \in Plain |-> ""], calicoUrl |-> "",
   keepalived |-> FALSE, vip |-> "none", routerId |-> 0, docker |-> FALSE,
   insecure |-> {}, mirrors |-> {}, daemon |-> "none", schedule |-> FALSE]

VARIABLES
  file,      \* the deployment file; Empty when there is none
  cfg,       \* DeploymentCfg of the process
  prev,      \* prevBytes: cfg as it was read
  pc,        \* the prompt or step the run is at; "idle" between runs
  firstAsk,
  toInsecure, toMirror,  \* insecureRegistriesToAdd, registryMirrorsToAdd
  said,      \* history: what the operator answered in this run
  settled,   \* history: a whole run wrote the file and nobody has edited it since
  aborted,   \* history: a prompt of this run was aborted and the run went on
  stale,     \* history: the file was edited while the run waited
  wasOff,    \* history: a file was written with keepalived off
  runs, edits

run  == <<cfg, prev, pc, firstAsk, toInsecure, toMirror, said, aborted, stale>>
vars == <<file, run, settled, wasOff, runs, edits>>

Prompts == {"nodes", "more", "keepalived", "vip", "routerId", "insecure",
            "mirror", "schedule", "confirm"}
Nothing == [nodes |-> {}, insecure |-> {}, mirrors |-> {}]

Init ==
  /\ file = Empty /\ cfg = Empty /\ prev = Empty /\ pc = "idle"
  /\ firstAsk = FALSE /\ toInsecure = {} /\ toMirror = {} /\ said = Nothing
  /\ settled = FALSE /\ aborted = FALSE /\ stale = FALSE /\ wasOff = FALSE
  /\ runs = 0 /\ edits = 0

(* --------------------------- the operator ------------------------------ *)

\* One setting is changed; what is removed from the file reads as empty.
Edited(f) ==
  {[f EXCEPT !.nodes = s] : s \in SUBSET Hosts}
  \cup {[f EXCEPT !.set[p] = ""] : p \in Plain} \cup {[f EXCEPT !.set[p] = "custom"] : p \in Plain}
  \cup {[f EXCEPT !.calicoUrl = "custom"], [f EXCEPT !.docker = TRUE],
        [f EXCEPT !.keepalived = ~f.keepalived],
        [f EXCEPT !.routerId = 0], [f EXCEPT !.routerId = 7],
        [f EXCEPT !.vip = "given"], [f EXCEPT !.vip = "none"],
        [f EXCEPT !.daemon = "custom"], [f EXCEPT !.schedule = TRUE]}

Edit ==
  /\ pc \in {"idle", "confirm"} /\ edits < MaxEdits /\ edits' = edits + 1
  /\ file' \in Edited(file) \ {file} /\ settled' = FALSE
  /\ stale' = (pc = "confirm")
  /\ UNCHANGED <<cfg, prev, pc, firstAsk, toInsecure, toMirror, said, aborted,
                 wasOff, runs>>

(* ------------------------ readDeploymentConfig ------------------------- *)

Start ==
  /\ pc = "idle" /\ runs < MaxRuns /\ runs' = runs + 1
  /\ cfg' = file /\ prev' = file /\ firstAsk' = (file.nodes = {})
  /\ pc' = IF file.nodes = {} THEN "nodes" ELSE "keepalived"
  /\ toInsecure' = {} /\ toMirror' = {} /\ said' = Nothing
  /\ aborted' = FALSE /\ stale' = FALSE
  /\ UNCHANGED <<file, settled, wasOff, edits>>

\* A step of the run that leaves the file and the histories alone.
Quiet == UNCHANGED <<file, prev, firstAsk, settled, stale, wasOff, runs, edits>>

AskNode(h) ==
  /\ pc = "nodes" /\ pc' = "more"
  /\ said' = [said EXCEPT !.nodes = @ \cup {h}]
  /\ UNCHANGED <<cfg, toInsecure, toMirror, aborted>> /\ Quiet

\* "Do you want to add another node?"
AskMore(yes) ==
  /\ pc = "more"
  /\ IF yes THEN pc' = "nodes" /\ UNCHANGED cfg
            ELSE /\ pc' = "keepalived"
                 /\ cfg' = [cfg EXCEPT !.nodes = said.nodes, !.selinux = Rpm \/ @]
  /\ UNCHANGED <<said, toInsecure, toMirror, aborted>> /\ Quiet

\* The placeholder is 127.0.0.1; an address that is there stays.
KeepalivedOff(c) ==
  [c EXCEPT !.vip = IF @ = "none" THEN "local" ELSE @, !.routerId = 1]

\* The error of the prompt is dropped, so an aborted prompt is a "no".
AskKeepalived(yes, abort) ==
  /\ pc = "keepalived" /\ (abort => ~yes /\ firstAsk)
  /\ aborted' = (aborted \/ abort)
  /\ LET c == IF firstAsk THEN [cfg EXCEPT !.keepalived = yes]
                          ELSE cfg
     IN /\ firstAsk \/ yes = cfg.keepalived
        /\ IF c.keepalived
           THEN /\ cfg' = c
                /\ pc' = IF c.vip = "none" THEN "vip"
                         ELSE IF c.routerId = 0 THEN "routerId" ELSE "docker"
           ELSE cfg' = KeepalivedOff(c) /\ pc' = "docker"
  /\ UNCHANGED <<said, toInsecure, toMirror>> /\ Quiet

\* Faulty variant: the router id that was entered is lost.
AskVip_NoId ==
  /\ pc = "vip" /\ pc' = "docker"
  /\ cfg' = [cfg EXCEPT !.vip = "given"]
  /\ UNCHANGED <<said, toInsecure, toMirror, aborted>> /\ Quiet

\* Faulty variant: the error of an aborted prompt is dropped here as well.
AskVip_ErrorDropped ==
  /\ pc = "vip" /\ pc' = "docker"
  /\ \E vip \in {"none", "given"} : cfg' = [cfg EXCEPT !.vip = vip, !.routerId = 7]
  /\ UNCHANGED <<said, toInsecure, toMirror, aborted>> /\ Quiet

\* Virtual IP, router id, priority and password, one prompt after the other.
AskVip ==
  /\ pc = "vip" /\ pc' = "docker"
  /\ cfg' = [cfg EXCEPT !.vip = "given", !.routerId = 7]
  /\ UNCHANGED <<said, toInsecure, toMirror, aborted>> /\ Quiet

\* The error is dropped and Atoi("") is 0.
AskRouterId(abort) ==
  /\ pc = "routerId" /\ pc' = "docker" /\ aborted' = (aborted \/ abort)
  /\ cfg' = [cfg EXCEPT !.routerId = IF abort THEN 0 ELSE 7]
  /\ UNCHANGED <<said, toInsecure, toMirror>> /\ Quiet

\* Without a repository address docker is switched off.
DockerDefaults ==
  /\ pc = "docker"
  /\ cfg' = [cfg EXCEPT !.docker = @ /\ cfg.set["repo"] # ""]
  /\ pc' = IF firstAsk THEN "insecure" ELSE "finish"
  /\ UNCHANGED <<said, toInsecure, toMirror, aborted>> /\ Quiet

\* An insecure registry, and whether it is a mirror as well.
AskInsecure(r, mirror) ==
  /\ pc = "insecure" /\ r \notin toInsecure
  /\ toInsecure' = toInsecure \cup {r}
  /\ toMirror' = IF mirror THEN toMirror \cup {r} ELSE toMirror
  /\ said' = [said EXCEPT !.insecure = @ \cup {r},
                          !.mirrors = IF mirror THEN @ \cup {r} ELSE @]
  /\ UNCHANGED <<cfg, pc, aborted>> /\ Quiet

NoMoreInsecure ==
  /\ pc = "insecure" /\ pc' = "mirror"
  /\ cfg' = [cfg EXCEPT !.insecure = toInsecure]
  /\ UNCHANGED <<said, toInsecure, toMirror, aborted>> /\ Quiet

\* The answer goes to insecureRegistriesToAdd, which has been used already.
AskMirror(r) ==
  /\ pc = "mirror" /\ r \notin said.mirrors
  /\ toInsecure' = toInsecure \cup {r} /\ said' = [said EXCEPT !.mirrors = @ \cup {r}]
  /\ UNCHANGED <<cfg, pc, toMirror, aborted>> /\ Quiet

\* Docker.Daemon = defDockerDaemonCfg
NoMoreMirrors ==
  /\ pc = "mirror" /\ pc' = "schedule"
  /\ cfg' = [cfg EXCEPT !.mirrors = toMirror, !.daemon = "default"]
  /\ UNCHANGED <<said, toInsecure, toMirror, aborted>> /\ Quiet

AskSchedule(yes) ==
  /\ pc = "schedule" /\ pc' = "finish"
  /\ cfg' = [cfg EXCEPT !.schedule = yes]
  /\ UNCHANGED <<said, toInsecure, toMirror, aborted>> /\ Quiet

\* Faulty variant: the deprecated setting wins over its successor.
Filled_CalicoUrl(c) ==
  [c EXCEPT !.set = [p \in Plain |->
               IF p = "calico" /\ c.calicoUrl # "" THEN "default"
               ELSE IF c.set[p] # "" THEN c.set[p] ELSE "default"],
            !.calicoUrl = ""]

\* Every empty setting gets its default, calico's the deprecated calicoUrl.
Filled(c) ==
  [c EXCEPT !.set = [p \in Plain |->
               IF c.set[p] # "" THEN c.set[p]
               ELSE IF p = "calico" /\ c.calicoUrl # "" THEN c.calicoUrl
               ELSE "default"],
            !.calicoUrl = IF c.set["calico"] = "" THEN "" ELSE @]

\* Faulty variant: the defaults are filled in after the comparison.
Finish_DefaultsLate ==
  /\ pc = "finish" /\ cfg' = Filled(cfg)
  /\ IF cfg = prev
     THEN pc' = "work" /\ UNCHANGED <<file, settled, wasOff>>
     ELSE /\ pc' = "confirm" /\ file' = cfg' /\ settled' = ~aborted
          /\ wasOff' = (wasOff \/ ~cfg'.keepalived)
  /\ UNCHANGED <<prev, firstAsk, toInsecure, toMirror, said, aborted, stale, runs, edits>>

\* The file is written if anything changed, and only then confirmed.
Finish ==
  /\ pc = "finish" /\ cfg' = Filled(cfg)
  /\ IF cfg' = prev
     THEN pc' = "work" /\ UNCHANGED <<file, settled, wasOff>>
     ELSE /\ pc' = "confirm" /\ file' = cfg' /\ settled' = ~aborted
          /\ wasOff' = (wasOff \/ ~cfg'.keepalived)
  /\ UNCHANGED <<prev, firstAsk, toInsecure, toMirror, said, aborted, stale, runs, edits>>

Confirm ==
  /\ pc = "confirm" /\ pc' = "work"
  /\ UNCHANGED <<cfg, said, toInsecure, toMirror, aborted>> /\ Quiet

\* "no" at the end, an aborted prompt elsewhere, or the process is killed.
Stop ==
  /\ pc # "idle" /\ pc' = "idle"
  /\ UNCHANGED <<cfg, said, toInsecure, toMirror, aborted>> /\ Quiet

Next ==
  \/ Edit \/ Start
  \/ \E h \in Hosts : AskNode(h)
  \/ \E yes \in BOOLEAN : AskMore(yes)
  \/ \E yes, abort \in BOOLEAN : AskKeepalived(yes, abort)
  \/ AskVip
  \/ \E abort \in BOOLEAN : AskRouterId(abort)
  \/ DockerDefaults
  \/ \E r \in Registries, mirror \in BOOLEAN : AskInsecure(r, mirror)
  \/ NoMoreInsecure
  \/ \E r \in Registries : AskMirror(r)
  \/ NoMoreMirrors
  \/ \E yes \in BOOLEAN : AskSchedule(yes)
  \/ Finish \/ Confirm \/ Stop

Spec == Init /\ [][Next]_vars

(* ----------------------------- properties ------------------------------ *)

TypeOK ==
  /\ {file, cfg, prev} \subseteq Config
  /\ pc \in {"idle", "docker", "finish", "work"} \cup Prompts
  /\ firstAsk \in BOOLEAN /\ toInsecure \subseteq Registries /\ toMirror \subseteq Registries
  /\ said \in [nodes: SUBSET Hosts, insecure: SUBSET Registries,
               mirrors: SUBSET Registries]
  /\ {settled, aborted, stale, wasOff} \subseteq BOOLEAN
  /\ runs \in 0 .. MaxRuns /\ edits \in 0 .. MaxEdits

\* A run over a file that a whole run wrote and nobody edited asks nothing and
\* writes nothing: what askDeploymentConfig produces it leaves alone.
Settled ==
  settled /\ prev = file /\ pc # "idle" => pc \notin Prompts \ {"keepalived"} /\ ~firstAsk

\* What a run works with is what the file says, unless the file was edited
\* while the run waited for the confirmation.
WorksWithFile == pc = "work" /\ ~stale => cfg = file

\* Nodes and registries that were entered are in the configuration of the run.
AnswersKept ==
  pc = "work" /\ firstAsk => cfg.nodes = said.nodes /\ cfg.insecure = said.insecure

\* All mirrors that were entered are in the configuration of the run.  The code
\* does not keep this: askDeploymentConfig appends them to the other list.
MirrorsKept == pc = "work" /\ firstAsk => cfg.mirrors = said.mirrors

\* A run works with keepalived only on an address the operator gave; the one
\* way to the placeholder is a file once written with keepalived off.
KeepalivedGiven == pc = "work" /\ cfg.keepalived => cfg.vip = "given" \/ wasOff

\* What g keeps of the operator's file f.  It loses
\*   - docker, if the address of its repository is not set,
\*   - the router id, if keepalived is off or has no address yet,
\*   - without nodes, what the first questions decide: keepalived, SELinux,
\*     docker's daemon and its registries, pods on masters.
SettingsKept(f, g) ==
  /\ \A p \in Plain : f.set[p] = "custom" => g.set[p] = "custom"
  /\ f.calicoUrl = "custom" => "custom" \in {g.calicoUrl, g.set["calico"]}
  /\ f.vip = "given" => g.vip = "given"
  /\ f.docker /\ f.set["repo"] # "" => g.docker
  /\ f.nodes # {} =>
       /\ f.nodes = g.nodes /\ f.selinux = g.selinux /\ f.keepalived = g.keepalived
       /\ f.daemon = g.daemon /\ f.insecure = g.insecure /\ f.mirrors = g.mirrors
       /\ f.schedule = g.schedule
       /\ f.keepalived /\ f.vip # "none" /\ f.routerId # 0 => f.routerId = g.routerId

\* The run that rewrites the file, whatever it has asked before, keeps every
\* setting the operator may have made there but for those named above.
OwnSettingsKept == [][pc = "finish" => SettingsKept(file, file')]_vars
=============================================================================
