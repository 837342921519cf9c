------------------------------- MODULE Sudoers -------------------------------
(***************************************************************************)
(* Passwordless sudo for the time of a run (pkg/os/os.go, pkg/core/core.go,*)
(* main.go).  PreRun appends "<user> ALL=NOPASSWD: ALL" to /etc/sudoers of *)
(* the nodes, remembering where the line was there before; the run then    *)
(* uses sudo everywhere; Exit removes the lines the run has added, the     *)
(* file policy-rc.d and the temporary directory, and ends the process.     *)
(* RunCommandOn calls Exit when a command fails, Exit's own commands       *)
(* included.  SIGINT ends the process without calling Exit.                *)
(*                                                                         *)
(* The map of remembered lines is keyed by address.  With --iso the host   *)
(* the program runs on is prepared first, under the key of a nil address;  *)
(* when the host is also a node of the configuration it has two keys.      *)
(***************************************************************************)
EXTENDS Integers, FiniteSets

CONSTANTS
  Node,        \* machines
  KubeNodes,   \* those of the deployment configuration
  Host,        \* the machine the program runs on
  Local,       \* the key of a nil address
  NoPass,      \* nodes where the user may sudo without a password anyway
  WrongPass,   \* nodes whose sudo password may be given wrong
  MaxRuns,     \* bound: runs of the program
  MaxGlitches  \* bound: commands of Exit that fail for an outside reason

ASSUME SudoersAssumption ==
  /\ KubeNodes \subseteq Node /\ Host \in Node /\ Local \notin Node
  /\ NoPass \subseteq Node /\ WrongPass \subseteq Node
  /\ MaxRuns \in Nat /\ MaxGlitches \in Nat

Key        == KubeNodes \cup {Local}
Machine(k) == IF k = Local THEN Host ELSE k

VARIABLES
  entry,    \* the line is in /etc/sudoers
  policy,   \* /usr/sbin/policy-rc.d exists
  prev,     \* sudoersPrevExistsMap: "unknown" where the map has no key
  wrong,    \* nodes whose sudo password is wrong in this run
  pc, todo, at,
  runs, glitches,
  orig,     \* history: the line was there before the first run
  leaked    \* history: nodes where a killed run has left its line

vars == <<entry, policy, prev, wrong, pc, todo, at, runs, glitches, orig, leaked>>
Over == {"ended", "killed"}
Exiting == {"exit", "remove", "policy", "tmp"}

CanSudo(n) == n \in NoPass \/ entry[n]
Known      == {k \in Key : prev[k] # "unknown"}

Init ==
  /\ orig \in [Node -> BOOLEAN] /\ entry = orig
  /\ policy = [n \in Node |-> FALSE] /\ prev = [k \in Key |-> "unknown"]
  /\ wrong = {} /\ pc = "ended" /\ todo = {} /\ at = Local
  /\ runs = 0 /\ glitches = 0 /\ leaked = {}

\* PreRun: with --iso the host comes first, on its own.
Start ==
  /\ pc \in Over /\ runs < MaxRuns /\ runs' = runs + 1
  /\ prev' = [k \in Key |-> "unknown"]
  /\ wrong' \in SUBSET WrongPass
  /\ \/ pc' = "iso" /\ todo' = {Local}
     \/ pc' = "add" /\ todo' = KubeNodes
  /\ at' = Local
  /\ UNCHANGED <<entry, policy, glitches, orig, leaked>>

\* Faulty variant: Exit goes over all machines, not over the keys of the map.
CallExit_Machines(S) == pc' = "exit" /\ todo' = Node

\* Exit is called: it goes over the keys of the map, in any order.
CallExit(S) == pc' = "exit" /\ todo' = S

\* Faulty variant: the answer of grep is not looked at.
AddToSudoers_NoCheck(k) ==
  /\ pc \in {"iso", "add"} /\ k \in todo
  /\ prev' = [prev EXCEPT ![k] = "absent"]
  /\ entry' = [entry EXCEPT ![Machine(k)] = TRUE]
  /\ UNCHANGED pc /\ todo' = todo \ {k}
  /\ UNCHANGED <<policy, wrong, at, runs, glitches, orig, leaked>>

\* The map is set before the line is appended: a wrong password makes grep
\* answer "not exist" and the append fail.
AddToSudoers(k) ==
  /\ pc \in {"iso", "add"} /\ k \in todo
  /\ IF entry[Machine(k)]
     THEN /\ prev' = [prev EXCEPT ![k] = "present"] /\ UNCHANGED <<entry, pc>>
          /\ todo' = todo \ {k}
     ELSE /\ prev' = [prev EXCEPT ![k] = "absent"]
          /\ IF Machine(k) \in wrong \ NoPass
             THEN UNCHANGED entry /\ CallExit(Known \cup {k})
             ELSE /\ entry' = [entry EXCEPT ![Machine(k)] = TRUE]
                  /\ UNCHANGED pc /\ todo' = todo \ {k}
  /\ UNCHANGED <<policy, wrong, at, runs, glitches, orig, leaked>>

\* Faulty variant: after --iso the nodes of the configuration are skipped.
Prepared_IsoOnly ==
  /\ pc \in {"iso", "add"} /\ todo = {}
  /\ pc' = "work" /\ todo' = {}
  /\ UNCHANGED <<entry, policy, prev, wrong, at, runs, glitches, orig, leaked>>

Prepared ==
  /\ pc \in {"iso", "add"} /\ todo = {}
  /\ IF pc = "iso" THEN pc' = "add" /\ todo' = KubeNodes
                   ELSE pc' = "work" /\ todo' = {}
  /\ UNCHANGED <<entry, policy, prev, wrong, at, runs, glitches, orig, leaked>>

\* InstallPackageNoStart: policy-rc.d keeps services from starting while a
\* package is installed.
ForbidStart(n) ==
  /\ pc = "work"
  /\ policy' = [policy EXCEPT ![n] = TRUE] /\ at' = n /\ pc' = "install"
  /\ UNCHANGED <<entry, prev, wrong, todo, runs, glitches, orig, leaked>>
AllowStart ==
  /\ pc = "install"
  /\ policy' = [policy EXCEPT ![at] = FALSE] /\ pc' = "work"
  /\ UNCHANGED <<entry, prev, wrong, todo, at, runs, glitches, orig, leaked>>

\* main: the command is over, Exit("", 0).
Finish ==
  /\ pc = "work" /\ CallExit(Known)
  /\ UNCHANGED <<entry, policy, prev, wrong, at, runs, glitches, orig, leaked>>

\* A command of the run fails: Exit(err.Error(), 1).
Fail ==
  /\ pc \in {"iso", "add", "work", "install"} /\ CallExit(Known)
  /\ UNCHANGED <<entry, policy, prev, wrong, at, runs, glitches, orig, leaked>>

(* --------------------------------- Exit -------------------------------- *)

ExitNode(k) ==
  /\ pc = "exit" /\ k \in todo
  /\ at' = k /\ pc' = IF prev[k] = "absent" THEN "remove" ELSE "policy"
  /\ UNCHANGED <<entry, policy, prev, wrong, todo, runs, glitches, orig, leaked>>

\* Faulty variant: awk does not match the line, which stays.
RemoveFromSudoers_NoMatch ==
  /\ pc = "remove" /\ pc' = "policy"
  /\ UNCHANGED <<entry, policy, prev, wrong, todo, at, runs, glitches, orig, leaked>>

\* Where sudo asks for a password, sudo awk fails: RunCommandOn calls Exit,
\* which starts over with all keys.
RemoveFromSudoers ==
  /\ pc = "remove"
  /\ IF CanSudo(Machine(at))
     THEN /\ entry' = [entry EXCEPT ![Machine(at)] = FALSE]
          /\ pc' = "policy" /\ UNCHANGED todo
     ELSE UNCHANGED entry /\ CallExit(Known)
  /\ UNCHANGED <<policy, prev, wrong, at, runs, glitches, orig, leaked>>

\* Faulty variant: policy-rc.d is removed only where the line was removed.
RemovePolicy_IfAbsent ==
  /\ pc = "policy" /\ pc' = "tmp"
  /\ policy' = [policy EXCEPT ![Machine(at)] = @ /\ prev[at] # "absent"]
  /\ UNCHANGED <<entry, prev, wrong, todo, at, runs, glitches, orig, leaked>>

\* sudo rm -f policy-rc.d || true: without sudo the file stays, silently.
RemovePolicy ==
  /\ pc = "policy" /\ pc' = "tmp"
  /\ policy' = [policy EXCEPT ![Machine(at)] = @ /\ ~CanSudo(Machine(at))]
  /\ UNCHANGED <<entry, prev, wrong, todo, at, runs, glitches, orig, leaked>>

\* Faulty variant: each node of the map starts the loop over.
RemoveTmp_StartOver ==
  /\ pc = "tmp" /\ CallExit(Known)
  /\ UNCHANGED <<entry, policy, prev, wrong, at, runs, glitches, orig, leaked>>

RemoveTmp ==
  /\ pc = "tmp" /\ pc' = "exit" /\ todo' = todo \ {at}
  /\ UNCHANGED <<entry, policy, prev, wrong, at, runs, glitches, orig, leaked>>

\* A command of Exit fails for an outside reason: Exit is called from Exit.
Glitch ==
  /\ pc \in {"remove", "tmp"} /\ glitches < MaxGlitches
  /\ glitches' = glitches + 1 /\ CallExit(Known)
  /\ UNCHANGED <<entry, policy, prev, wrong, at, runs, orig, leaked>>

\* os.Exit(code)
EndProcess ==
  /\ pc = "exit" /\ todo = {} /\ pc' = "ended"
  /\ UNCHANGED <<entry, policy, prev, wrong, todo, at, runs, glitches, orig, leaked>>

\* The signal goroutine: os.Exit(1), nothing is cleaned up.
Signal ==
  /\ pc \notin Over /\ pc' = "killed" /\ todo' = {}
  /\ leaked' = leaked \cup {Machine(k) : k \in {j \in Key : prev[j] = "absent"}}
  /\ UNCHANGED <<entry, policy, prev, wrong, at, runs, glitches, orig>>

Cleanup == \/ \E k \in Key : ExitNode(k)
           \/ RemoveFromSudoers \/ RemovePolicy \/ RemoveTmp \/ EndProcess
Next ==
  \/ Start \/ (\E k \in Key : AddToSudoers(k)) \/ Prepared
  \/ (\E n \in KubeNodes : ForbidStart(n)) \/ AllowStart
  \/ Finish \/ Fail \/ Cleanup \/ Glitch \/ Signal

Spec     == Init /\ [][Next]_vars
\* Exit runs its commands one after the other.
FairSpec == Spec /\ WF_vars(Cleanup)

(* ----------------------------- properties ------------------------------ *)

TypeOK ==
  /\ entry \in [Node -> BOOLEAN] /\ policy \in [Node -> BOOLEAN]
  /\ prev \in [Key -> {"unknown", "absent", "present"}]
  /\ wrong \subseteq Node /\ todo \subseteq Key /\ at \in Key
  /\ pc \in {"iso", "add", "work", "install"} \cup Exiting \cup Over
  /\ runs \in 0 .. MaxRuns /\ glitches \in 0 .. MaxGlitches
  /\ orig \in [Node -> BOOLEAN] /\ leaked \subseteq Node

\* A line the administrator had put there survives every sequence of runs,
\* failures and signals.
AdminLineKept == \A n \in Node : orig[n] => entry[n]

\* While the run works every node of the configuration lets it use sudo
\* without a password.
SudoWorks == pc \in {"work", "install"} => \A n \in KubeNodes : CanSudo(n)

\* A run that ends through Exit leaves /etc/sudoers as the first run found it,
\* except on nodes where an earlier run was killed: the map knows whether the
\* line was there before ("ip: prevExist").
LineRemoved ==
  pc = "ended" => \A n \in Node : entry[n] = orig[n] \/ n \in leaked

\* After Exit no node it went over is left unable to start services, where the
\* user can use sudo without the line of the program.
PolicyCleared ==
  pc = "ended" =>
    \A k \in Known : orig[Machine(k)] \/ Machine(k) \in NoPass => ~policy[Machine(k)]

\* Exit ends the process, provided that the users of the nodes it removes the
\* line from may use sudo without it.  Elsewhere it need not: a second call of
\* Exit, or one after a wrong password, fails at "sudo awk" and calls Exit.
ExitEnds ==
  (pc \in Exiting /\ \A k \in Known : prev[k] = "absent" => Machine(k) \in NoPass)
    ~> pc \in Over
=============================================================================
