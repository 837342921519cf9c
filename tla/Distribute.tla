------------------------------ MODULE Distribute ------------------------------
(***************************************************************************)
(* How the archive of a tool gets to the masters and its binaries into     *)
(* /usr/bin: the first half of installEtcd, installHelm and installHelmfile*)
(* (pkg/core/tkube.go).  The three functions are the same text but for the *)
(* names; etcd has two binaries and removes the old ones on all masters    *)
(* before it installs the new ones on any, the others do so node by node.  *)
(*                                                                         *)
(* Several runs follow each other, with other versions and other masters;  *)
(* a run may be cut short by a failure outside the program, after which    *)
(* Exit removes the temporary directories, or by a signal, after which     *)
(* nothing is removed.  The masters are numbered as in the configuration.  *)
(***************************************************************************)
EXTENDS Integers, Sequences, FiniteSetsExt

CONSTANTS
  N,           \* masters of the configuration
  Remote,      \* the node the program is pointed at; 0 is none of the masters
  Tools,       \* the tools that may be installed, see Tool
  Targets,     \* the sets of masters the operator runs the program for
  Online,      \* the nodes reach the internet
  Isos,        \* whether a run may have --iso, or not: the archive is in the image
  MaxRuns      \* bound: runs of the program

Node    == 1 .. N
Machine == 0 .. N

\* bins: the binaries in the order cp copies them; cleanFirst: the old ones are
\* removed on all masters before anything is installed (etcd)
IsTool(t) == Len(t.bins) \in Nat \ {0} /\ t.cleanFirst \in BOOLEAN

ASSUME DistributeAssumption ==
  /\ N \in Nat \ {0} /\ Remote \in Machine /\ MaxRuns \in Nat
  /\ Targets \subseteq (SUBSET Node) \ {{}}
  /\ (\A t \in Tools : IsTool(t)) /\ Online \in BOOLEAN /\ Isos \subseteq BOOLEAN

VARIABLES
  tool,   \* the tool this is about
  bin,    \* the binaries of a machine: "none", "old" or the "wanted" version
  tmp,    \* the wanted archive in a node's temporary directory
  res,    \* the directory "resources" exists on a machine
  targets, iso, pc, todo, copied,
  skip,   \* skipInstallEtcd: masters that have the wanted version already
  have,   \* etcdFileExists: the first master has the archive
  end,    \* how the last run ended
  prev,   \* history: how the run before ended
  cut,    \* history: nodes where a run was cut short between two binaries
  runs

process == <<targets, iso, pc, todo, copied, skip, have>>
vars == <<tool, bin, tmp, res, process, end, prev, cut, runs>>

First == Min(targets)
At    == Min(todo)
Bins  == tool.bins
Bin   == {Bins[i] : i \in 1 .. Len(Bins)}
Bare  == [b \in Bin |-> "none"]

Init ==
  /\ tool \in Tools /\ iso \in Isos
  /\ bin = [m \in Machine |-> Bare] /\ tmp = [n \in Node |-> "none"]
  /\ res = [m \in Machine |-> FALSE]
  /\ targets \in Targets /\ pc = "idle" /\ todo = {} /\ copied = 0
  /\ skip = {} /\ have = FALSE /\ end = "ok" /\ prev = "ok" /\ cut = {} /\ runs = 0

\* PreRun makes the directory on the machine the program is pointed at.  The
\* archive of another version has another name.
Start ==
  /\ pc = "idle" /\ runs < MaxRuns /\ runs' = runs + 1
  /\ targets' \in Targets /\ iso' \in Isos /\ todo' = targets' /\ pc' = "fetch"
  /\ skip' = {} /\ have' = FALSE /\ copied' = 0
  /\ res' = [res EXCEPT ![Remote] = TRUE] /\ prev' = end /\ UNCHANGED <<tool, end, cut>>
  /\ \/ UNCHANGED <<bin, tmp>>
     \/ /\ bin' = [m \in Machine |-> [b \in Bin |->
                     IF bin[m][b] = "wanted" THEN "old" ELSE bin[m][b]]]
        /\ tmp' = [n \in Node |-> "none"]

\* The process ends; todo is where it was.
End(how) == pc' = "idle" /\ end' = how /\ UNCHANGED <<tool, iso, prev, runs, res>>

\* Faulty variant: only the nodes the loop is done with are cleaned.
CleanTmp_Visited == tmp' = [n \in Node |-> IF n \in todo THEN tmp[n] ELSE "none"]

\* Exit removes the temporary directory of every node PreRun has prepared.
CleanTmp == tmp' = [n \in Node |-> "none"]

(* --------------------------- the archive ------------------------------- *)

\* Faulty variant: the version of what is installed is not compared.
Installed_AnyVersion(n) == \A b \in Bin : bin[Remote][b] # "none"

\* CommandExists looks on the remote node, the version is asked of the node.
Installed(n) ==
  /\ \A b \in Bin : bin[Remote][b] # "none"
  /\ bin[n][Bins[1]] = "wanted"

NextNode == todo' = todo \ {At} /\ UNCHANGED <<tool, targets, iso, pc, copied>>

Skip ==
  /\ pc = "fetch" /\ todo # {} /\ Installed(At)
  /\ skip' = skip \cup {At} /\ NextNode
  /\ UNCHANGED <<bin, tmp, res, have, end, prev, cut, runs>>

\* filePath is looked at for the first master only, if that is not skipped.
HasFile == IF At = First THEN iso \/ tmp[At] # "none" ELSE have
Fetching == pc = "fetch" /\ todo # {} /\ ~Installed(At)

\* From the first master's image; its own temporary directory is the place
\* the archive is copied to as well, and cp refuses to copy a file to itself.
Transfer ==
  /\ Fetching /\ HasFile /\ iso
  /\ tmp' = [tmp EXCEPT ![At] = "whole"] /\ have' = HasFile /\ NextNode
  /\ UNCHANGED <<bin, res, skip, end, prev, cut, runs>>

\* The first master keeps a copy in the directory that PreRun made on Remote.
DownloadRuns == Online /\ (At = First => res[At])

\* wget -nc leaves a file alone that is there.
Download ==
  /\ Fetching /\ ~HasFile /\ DownloadRuns
  /\ tmp' = [tmp EXCEPT ![At] = IF @ = "none" THEN "whole" ELSE @]
  /\ have' = HasFile /\ NextNode
  /\ UNCHANGED <<bin, res, skip, end, prev, cut, runs>>

\* Releases of wget differ in what -nc answers when the file is there.
FetchFails ==
  /\ Fetching
  /\ \/ HasFile /\ ~iso
     \/ ~HasFile /\ ~DownloadRuns
     \/ ~HasFile /\ tmp[At] # "none"
  /\ End("command") /\ CleanTmp
  /\ UNCHANGED <<bin, targets, todo, copied, skip, have, cut>>

\* Faulty variant: the masters of the configuration instead of the run's.
Fetched_AllMasters ==
  /\ pc = "fetch" /\ todo = {}
  /\ pc' = (IF tool.cleanFirst THEN "clean" ELSE "unpack") /\ todo' = Node
  /\ UNCHANGED <<tool, bin, tmp, res, targets, iso, copied, skip, have, end, prev, cut, runs>>

Fetched ==
  /\ pc = "fetch" /\ todo = {}
  /\ pc' = IF tool.cleanFirst THEN "clean" ELSE "unpack"
  /\ todo' = IF tool.cleanFirst THEN targets ELSE targets \ skip
  /\ UNCHANGED <<tool, bin, tmp, res, targets, iso, copied, skip, have, end, prev, cut, runs>>

(* --------------------------- the binaries ------------------------------ *)

\* which etcd, rm; which etcdctl, rm
RemoveOld ==
  /\ pc = "clean" /\ todo # {}
  /\ bin' = IF At \in skip THEN bin ELSE [bin EXCEPT ![At] = Bare]
  /\ NextNode
  /\ UNCHANGED <<tmp, res, skip, have, end, prev, cut, runs>>

Removed ==
  /\ pc = "clean" /\ todo = {}
  /\ pc' = "unpack" /\ todo' = targets \ skip
  /\ UNCHANGED <<tool, bin, tmp, res, targets, iso, copied, skip, have, end, prev, cut, runs>>

\* tar -zxf fails on an archive that is not whole; helm removes the old
\* binary before.
Unpack ==
  /\ pc = "unpack" /\ todo # {}
  /\ bin' = IF tool.cleanFirst THEN bin ELSE [bin EXCEPT ![At] = Bare]
  /\ IF tmp[At] = "whole"
     THEN /\ pc' = "copy" /\ copied' = 0
          /\ UNCHANGED <<tool, iso, tmp, end, prev, runs, res>>
     ELSE End("command") /\ CleanTmp /\ UNCHANGED copied
  /\ UNCHANGED <<targets, todo, skip, have, cut>>

\* sudo cp .../etcd* /usr/bin/, one file after the other
CopyBin ==
  /\ pc = "copy" /\ copied' = copied + 1
  /\ bin' = [bin EXCEPT ![At][Bins[copied + 1]] = "wanted"]
  /\ IF copied + 1 = Len(Bins) THEN pc' = "unpack" /\ todo' = todo \ {At}
                               ELSE UNCHANGED <<pc, todo>>
  /\ UNCHANGED <<tool, tmp, res, targets, iso, skip, have, end, prev, cut, runs>>

\* The tool is used on the first node of the run (etcdctl member list).
Use ==
  /\ pc = "unpack" /\ todo = {}
  /\ End(IF \A b \in Bin : bin[First][b] # "none" THEN "ok" ELSE "command")
  /\ CleanTmp
  /\ UNCHANGED <<bin, targets, todo, copied, skip, have, cut>>

(* ------------------------------ cut short ------------------------------ *)

\* A command fails for an outside reason: Exit.
OutsideFailure ==
  /\ pc # "idle" /\ End("outside") /\ CleanTmp
  /\ cut' = IF pc = "copy" THEN cut \cup {At} ELSE cut
  /\ UNCHANGED <<bin, targets, todo, copied, skip, have>>

\* A signal, in the middle of a transfer or download or between two commands.
Killed ==
  /\ pc # "idle" /\ End("killed")
  /\ \/ UNCHANGED tmp
     \/ Fetching /\ tmp[At] = "none" /\ tmp' = [tmp EXCEPT ![At] = "part"]
  /\ cut' = IF pc = "copy" THEN cut \cup {At} ELSE cut
  /\ UNCHANGED <<bin, targets, todo, copied, skip, have>>

Next ==
  \/ Start \/ Skip \/ Transfer \/ Download \/ FetchFails \/ Fetched
  \/ RemoveOld \/ Removed \/ Unpack \/ CopyBin \/ Use
  \/ OutsideFailure \/ Killed

Spec == Init /\ [][Next]_vars

(* ----------------------------- properties ------------------------------ *)

TypeOK ==
  /\ tool \in Tools /\ iso \in Isos /\ bin \in [Machine -> [Bin -> {"none", "old", "wanted"}]]
  /\ tmp \in [Node -> {"none", "part", "whole"}] /\ res \in [Machine -> BOOLEAN]
  /\ targets \in Targets /\ todo \subseteq targets /\ skip \subseteq targets
  /\ pc \in {"idle", "fetch", "clean", "unpack", "copy"}
  /\ copied \in 0 .. Len(Bins) /\ have \in BOOLEAN
  /\ end \in {"ok", "command", "outside", "killed"}
  /\ prev \in {"ok", "command", "outside", "killed"}
  /\ cut \subseteq Node /\ runs \in 0 .. MaxRuns

\* After a run that ends well each of its masters has all binaries in the
\* wanted version, unless it was cut short between two binaries there once:
\* only the first one is asked for its version.
ToolInstalled ==
  pc = "idle" /\ end = "ok" /\ runs > 0 =>
    \A n \in targets : /\ bin[n][Bins[1]] = "wanted"
                       /\ n \in cut \/ \A b \in Bin : bin[n][b] = "wanted"

\* Whatever a killed run leaves behind, the run after the next does not stumble
\* over it: a run fails of itself only right after one that was killed.
RunRecovers == pc = "idle" /\ end = "command" => prev = "killed"

\* No run fails for what it finds on the nodes.  The code does not keep this:
\* the first master alone looks at the image, and has the directory of resources.
RunsSucceed == end # "command"
=============================================================================
