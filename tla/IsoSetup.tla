------------------------------- MODULE IsoSetup -------------------------------
(***************************************************************************)
(* How an offline installation gets the ISO file and its package           *)
(* repository to the nodes: PreRun (pkg/core/core.go) and the first part   *)
(* of Install (pkg/core/tkube.go), and what an online run afterwards meets *)
(* in addCustomRepos.  Runs with other ISO files of the same path follow   *)
(* each other; any may be cut short, and nodes reboot between them.        *)
(***************************************************************************)
EXTENDS Integers, FiniteSetsExt

CONSTANTS
  N,         \* nodes of the configuration, numbered in its order
  Remote,    \* the machine the program is pointed at; 0 is none of the nodes
  Targets,   \* the sets of nodes the operator runs the program for
  Strangers, \* nodes that may have a file of that name from the start
  Ubuntu,    \* the distribution's package lists are moved out of the way
  Online,    \* runs without --iso happen as well
  MaxRuns    \* bound: runs of the program

Node    == 1 .. N
Machine == 0 .. N

ASSUME IsoSetupAssumption ==
  /\ N \in Nat \ {0} /\ Remote \in Machine /\ Strangers \subseteq Node
  /\ Targets \subseteq (SUBSET Node) \ {{}}
  /\ Ubuntu \in BOOLEAN /\ Online \in BOOLEAN /\ MaxRuns \in Nat

VARIABLES
  iso,      \* the file at IsoPath on a machine
  mounted,  \* the image mounted at the mount directory
  repo,     \* nodes whose package manager reads the mounted image
  backup,   \* nodes whose own package lists were renamed to .backup
  targets, useIso, pc, todo,
  end,      \* how the last run ended
  prev,     \* history: nodes with a file of that name before this ISO was used,
            \* and those that got theirs from such a node or from one in cut
  cut,      \* history: nodes a run was cut short on
  noFile,   \* history: nodes a run with --iso found no file on
  rebooted, \* history: nodes rebooted since
  runs

nodes == <<iso, mounted, repo, backup>>
vars  == <<nodes, targets, useIso, pc, todo, end, prev, cut, noFile, rebooted, runs>>

Images == {"none", "part", "old", "wanted"}
First  == Min(targets)
At     == Min(todo)

\* The operator has put the file on the machine the program is pointed at.
Init ==
  /\ \E old \in SUBSET (Strangers \ {Remote}) :
       iso = [m \in Machine |-> IF m = Remote THEN "wanted"
                                ELSE IF m \in old THEN "old" ELSE "none"]
  /\ mounted = [m \in Machine |-> "none"] /\ repo = {} /\ backup = {}
  /\ targets \in Targets /\ useIso = TRUE /\ pc = "idle" /\ todo = {}
  /\ end = "ok" /\ prev = {m \in Node : iso[m] = "old"} /\ cut = {} /\ noFile = {} /\ rebooted = {}
  /\ runs = 0

Aged(x) == IF x = "wanted" THEN "old" ELSE x

\* A run with --iso, perhaps with a newer file at the same path, or without.
Start ==
  /\ pc = "idle" /\ runs < MaxRuns /\ runs' = runs + 1
  /\ targets' \in Targets /\ todo' = targets'
  /\ \/ /\ useIso' = TRUE /\ pc' = "mount" /\ UNCHANGED <<iso, mounted, prev>>
     \/ /\ useIso' = TRUE /\ pc' = "mount"
        /\ iso' = [m \in Machine |-> IF m = Remote THEN "wanted" ELSE Aged(iso[m])]
        /\ mounted' = [m \in Machine |-> Aged(mounted[m])]
        /\ prev' = {m \in Node : m # Remote /\ iso[m] # "none"}
     \/ Online /\ useIso' = FALSE /\ pc' = "online" /\ UNCHANGED <<iso, mounted, prev>>
  /\ UNCHANGED <<repo, backup, end, cut, noFile, rebooted>>

End(how) == pc' = "idle" /\ end' = how /\ UNCHANGED <<targets, useIso, todo, prev, runs>>
Goto(p)  == pc' = p /\ UNCHANGED <<targets, useIso, end, prev, cut, noFile, rebooted, runs>>

\* Faulty variant: what is mounted stays.
Mount_KeepOld(m) ==
  mounted' = [mounted EXCEPT ![m] = IF @ = "none" THEN iso[m] ELSE @]

\* UmountISO, MountISO
Mount(m) == mounted' = [mounted EXCEPT ![m] = iso[m]]

\* PreRun mounts the image to read the versions from it.
MountRemote ==
  /\ pc = "mount" /\ Goto("first") /\ Mount(Remote)
  /\ UNCHANGED <<iso, repo, backup, todo>>

(* ------------------------- the package lists --------------------------- *)

\* AddRepository writes the list; UpdateRepos reads what the lists name.
AddRepository(n) == repo' = repo \cup {n}

\* Faulty variant: the lists of all nodes are moved at once.
SetupFirst_MoveAll ==
  /\ pc = "first" /\ iso[First] # "none"
  /\ backup' = IF Ubuntu THEN backup \cup targets ELSE backup
  /\ Mount(First) /\ AddRepository(First)
  /\ todo' = targets \ {First} /\ Goto("others") /\ UNCHANGED iso

\* Install's loop, i = 0: nothing brings the file to this node.
SetupFirst ==
  /\ pc = "first" /\ iso[First] # "none"
  /\ backup' = IF Ubuntu THEN backup \cup {First} ELSE backup
  /\ Mount(First) /\ AddRepository(First)
  /\ todo' = targets \ {First} /\ Goto("others")
  /\ UNCHANGED iso

\* Faulty variant: the list is written before the image is mounted.
NoIso_ListFirst ==
  /\ pc = "first" /\ iso[First] = "none" /\ End("mount") /\ AddRepository(First)
  /\ mounted' = [mounted EXCEPT ![First] = "none"] /\ noFile' = noFile \cup {First}
  /\ UNCHANGED <<iso, backup, cut, rebooted>>

\* mount: no such file
NoIso ==
  /\ pc = "first" /\ iso[First] = "none" /\ End("mount")
  /\ backup' = IF Ubuntu THEN backup \cup {First} ELSE backup
  /\ mounted' = [mounted EXCEPT ![First] = "none"] /\ noFile' = noFile \cup {First}
  /\ UNCHANGED <<iso, repo, cut, rebooted>>

\* GetMd5On assigns the sum to a shell variable and prints nothing, so it
\* returns "", and IsFileExistsOn compares no sums then: any file will do.
HasIso(n) == iso[n] # "none"

Transfer ==
  /\ pc = "others" /\ todo # {} /\ ~HasIso(At)
  /\ iso' = [iso EXCEPT ![At] = iso[First]]
  /\ prev' = IF First \in prev \cup cut THEN prev \cup {At} ELSE prev
  /\ UNCHANGED <<mounted, repo, backup, todo, targets, useIso, pc, end, cut, noFile, rebooted, runs>>

SetupOther ==
  /\ pc = "others" /\ todo # {} /\ HasIso(At) /\ Goto("others")
  /\ Mount(At) /\ AddRepository(At) /\ todo' = todo \ {At}
  /\ UNCHANGED <<iso, backup>>

Finish ==
  /\ pc \in {"others", "online"} /\ todo = {} /\ End("ok")
  /\ UNCHANGED <<nodes, cut, noFile, rebooted>>

\* addCustomRepos: the lists of docker and kubernetes are removed, that of the
\* image is not, and the package manager reads all that are there.
Readable(n) == n \in repo => mounted[n] # "none"

UpdateRepos ==
  /\ pc = "online" /\ todo # {} /\ Readable(At)
  /\ todo' = todo \ {At} /\ Goto("online") /\ UNCHANGED nodes

UpdateFails ==
  /\ pc = "online" /\ todo # {} /\ ~Readable(At)
  /\ End("update") /\ UNCHANGED <<nodes, cut, noFile, rebooted>>

(* ------------------------------ cut short ------------------------------ *)

\* The machine the run is at.
Busy == IF pc = "mount" THEN Remote ELSE IF pc = "first" \/ todo = {} THEN First ELSE At

\* A command fails, or a signal: between two nodes, during the transfer of the
\* file, or after the package lists were moved and the old image unmounted.
CutShort ==
  /\ pc # "idle" /\ End("cut")
  /\ \/ UNCHANGED <<nodes, cut>>
     \/ /\ pc = "others" /\ todo # {} /\ ~HasIso(At)
        /\ iso' = [iso EXCEPT ![At] = "part"] /\ cut' = cut \cup {At}
        /\ UNCHANGED <<mounted, repo, backup>>
     \/ /\ pc # "online"
        /\ mounted' = [mounted EXCEPT ![Busy] = "none"] /\ cut' = cut \cup {Busy}
        /\ backup' = IF Ubuntu /\ pc = "first" THEN backup \cup {First} ELSE backup
        /\ UNCHANGED <<iso, repo>>
  /\ UNCHANGED <<noFile, rebooted>>

Reboot(m) ==
  /\ pc = "idle" /\ mounted[m] # "none"
  /\ mounted' = [mounted EXCEPT ![m] = "none"] /\ rebooted' = rebooted \cup {m}
  /\ UNCHANGED <<iso, repo, backup, targets, useIso, pc, todo, end, prev, cut, noFile, runs>>

Next ==
  \/ Start \/ MountRemote \/ SetupFirst \/ NoIso \/ Transfer \/ SetupOther
  \/ Finish \/ UpdateRepos \/ UpdateFails \/ CutShort
  \/ \E m \in Machine : Reboot(m)

Spec == Init /\ [][Next]_vars

(* ----------------------------- properties ------------------------------ *)

TypeOK ==
  /\ iso \in [Machine -> Images] /\ mounted \in [Machine -> Images]
  /\ repo \subseteq Node /\ backup \subseteq Node
  /\ targets \in Targets /\ todo \subseteq targets /\ useIso \in BOOLEAN
  /\ pc \in {"idle", "mount", "first", "others", "online"}
  /\ end \in {"ok", "mount", "update", "cut"}
  /\ {prev, noFile} \subseteq SUBSET Node /\ {cut, rebooted} \subseteq SUBSET Machine /\ runs \in 0 .. MaxRuns

\* A run with --iso leaves on each of its nodes the image it was given mounted,
\* over any sequence of runs, but for nodes that had a file of that name before
\* or from a run cut short, or got theirs from such a node: these mount that.
MountedIso ==
  pc = "others" =>
    \A n \in targets \ todo :
      mounted[n] # "none" /\ (n \in prev \cup cut \/ mounted[n] = "wanted")

\* An online run's package manager stumbles over what an offline run left only
\* on a node that has rebooted since, or where a run was cut short.
OnlineUpdates == pc = "idle" /\ end = "update" => At \in rebooted \cup cut

\* A node whose own package lists were moved away has the image's list, unless
\* a run was cut short there or found no file.
SomeSource == pc = "idle" => backup \subseteq repo \cup cut \cup noFile

\* Package managers find their lists: an online run those of before the image,
\* a run with --iso the image's.
ListsFound == OnlineUpdates /\ SomeSource

\* All nodes of a run get the image the run was given.  The code does not keep
\* this: GetMd5On prints no sum, so that any file of the name will do.
SameIso == pc = "others" => \A n \in targets \ todo : mounted[n] = "wanted"

\* A run with --iso finds the image where it looks for it.  The code does not
\* keep this for nodes that are added.
IsoFound == end # "mount"
=============================================================================
