-------------------------------- MODULE PodWait -------------------------------
(***************************************************************************)
(* How the program waits for kubernetes (pkg/kube/kube.go): once for the   *)
(* pods of a new master, by name and one kubectl per pod                   *)
(* (WaitUntilPodsRunningWithName), and once, at the end, for all pods of a *)
(* namespace from one listing (WaitUntilPodsRunning).  Meanwhile the pods  *)
(* come, become ready, fail and finish as they like, and the API server    *)
(* comes and goes.  Components_proofs extends this module beside Config,   *)
(* so the names of a specification have the prefix Wait.                   *)
(***************************************************************************)
EXTENDS Integers, Sequences

CONSTANTS
  PodNames,  \* the sequence of pods waited for by name
  Others,    \* other pods of the namespace
  Jobs       \* pods that may finish: they stay listed as 0/1 Completed

Named == {PodNames[i] : i \in 1 .. Len(PodNames)}
Pod   == Named \cup Others

ASSUME PodWaitAssumption ==
  PodNames \in Seq(Named) /\ PodNames # <<>> /\ Jobs \subseteq Others

VARIABLES
  pod,   \* "absent", "starting" (0/1), "ready" (1/1), "completed" (0/1)
  api,   \* the API server answers
  wait,  \* "names", "count", "done", or "failed": the run was ended
  at,    \* position in podNames
  notRunning,
  seen,  \* history: what the current pass of the loop, or the listing, saw
  last   \* history: seen when the wait that ended last ended

waitVars == <<pod, api, wait, at, notRunning, seen, last>>

Blank == [p \in Pod |-> "absent"]

WaitInit ==
  /\ pod = Blank /\ api = TRUE /\ wait = "names" /\ at = 1
  /\ notRunning = {} /\ seen = Blank /\ last = Blank

(* ----------------------------- kubernetes ------------------------------ *)

Becomes(p, from, to) ==
  pod[p] \in from /\ pod' = [pod EXCEPT ![p] = to]
  /\ UNCHANGED <<api, wait, at, notRunning, seen, last>>

Kubelet ==
  \E p \in Pod :
    \/ Becomes(p, {"absent"}, "starting")
    \/ Becomes(p, {"starting"}, "ready")
    \/ Becomes(p, {"ready"}, "starting")
    \/ Becomes(p, {"ready", "starting"}, "absent")
    \/ p \in Jobs /\ Becomes(p, {"ready", "starting"}, "completed")

Api == api' = ~api /\ UNCHANGED <<pod, wait, at, notRunning, seen, last>>

(* -------------------- WaitUntilPodsRunningWithName --------------------- *)

\* Faulty variant: the list is made anew for every pod instead of every pass.
Missing_OnlyLast(p) == IF pod[p] = "absent" THEN {p} ELSE {}

\* No line means the pod is not there.  A pod that is not ready appends
\* nothing: append(notRunning) is notRunning.
Missing(p) == notRunning \cup (IF pod[p] = "absent" THEN {p} ELSE {})

\* Faulty variant: the list is not emptied before a pass.
GetPod_KeepMissing ==
  /\ wait = "names" /\ api
  /\ seen' = [seen EXCEPT ![PodNames[at]] = pod[PodNames[at]]]
  /\ notRunning' = Missing(PodNames[at])
  /\ IF at < Len(PodNames)
     THEN at' = at + 1 /\ UNCHANGED <<wait, last>>
     ELSE /\ at' = 1
          /\ IF notRunning' = {} THEN wait' = "count" /\ last' = seen'
                                 ELSE UNCHANGED <<wait, last>>
  /\ UNCHANGED <<pod, api>>

\* One kubectl; its failure ends the program.
GetPod ==
  /\ wait = "names" /\ api
  /\ seen' = [seen EXCEPT ![PodNames[at]] = pod[PodNames[at]]]
  /\ LET missing == Missing(PodNames[at])
     IN IF at < Len(PodNames)
        THEN at' = at + 1 /\ notRunning' = missing /\ UNCHANGED <<wait, last>>
        ELSE /\ at' = 1 /\ notRunning' = {}
             /\ IF missing = {} THEN wait' = "count" /\ last' = seen'
                                ELSE UNCHANGED <<wait, last>>
  /\ UNCHANGED <<pod, api>>

GetPodFails ==
  /\ wait = "names" /\ ~api /\ wait' = "failed"
  /\ UNCHANGED <<pod, api, at, notRunning, seen, last>>

(* ------------------------ WaitUntilPodsRunning ------------------------- *)

\* Pods whose "r/t" differs; the status is not looked at.  An error, or a
\* listing without a line of the namespace, is -1.
NotReadyPods == {p \in Pod : pod[p] \in {"starting", "completed"}}
Listing      == api /\ \E p \in Pod : pod[p] # "absent"

\* Faulty variant: an error is taken for a count of zero.
ListPods_ErrorIsZero ==
  /\ wait = "count" /\ seen' = pod
  /\ IF ~Listing \/ NotReadyPods = {} THEN wait' = "done" /\ last' = pod ELSE UNCHANGED <<wait, last>>
  /\ UNCHANGED <<pod, api, at, notRunning>>

\* Every five seconds, until the count is 0.
ListPods ==
  /\ wait = "count" /\ seen' = pod
  /\ IF Listing /\ NotReadyPods = {} THEN wait' = "done" /\ last' = pod
                                     ELSE UNCHANGED <<wait, last>>
  /\ UNCHANGED <<pod, api, at, notRunning>>

Waiter == GetPod \/ GetPodFails \/ ListPods

WaitNext == Kubelet \/ Api \/ Waiter

\* The program sleeps between its attempts and then goes on.
WaitSpec == WaitInit /\ [][WaitNext]_waitVars /\ WF_waitVars(Waiter)

(* ----------------------------- properties ------------------------------ *)

WaitTypeOK ==
  /\ {pod, seen, last} \subseteq [Pod -> {"absent", "starting", "ready", "completed"}]
  /\ api \in BOOLEAN /\ wait \in {"names", "count", "done", "failed"}
  /\ at \in 1 .. Len(PodNames) /\ notRunning \subseteq Named

\* The first wait ends only after a pass that has met every one of the pods,
\* each at its own moment; pods of an earlier pass may be gone by then.
NamedPodsSeen == wait = "count" => \A p \in Named : last[p] # "absent"

\* The second wait ends only on a listing of the namespace in which there are
\* pods and all of them are ready, never on an error.
AllPodsReady ==
  wait = "done" => /\ \A p \in Pod : last[p] \in {"absent", "ready"}
                   /\ \E p \in Pod : last[p] = "ready"

\* No wait ends on less than it was meant to see, whatever the pods and the API
\* server did while it looked.
WaitsSeen == NamedPodsSeen /\ AllPodsReady

\* Once all pods are ready and stay so the waits end.
WaitsEnd ==
  <>[](api /\ \A p \in Pod : pod[p] = "ready") => <>(wait \in {"done", "failed"})

\* The pods waited for by name were all running when the first wait ended.
NamedPodsRunning == wait = "count" => \A p \in Named : last[p] = "ready"
=============================================================================
