--------------------------- MODULE Distribute_proofs --------------------------
(***************************************************************************)
(* What the distribution of a tool leaves on the masters, for any number   *)
(* of masters, any tools and runs, and failures at any step; and that a    *)
(* run fails by itself only right after one that was killed.               *)
(***************************************************************************)
EXTENDS Distribute, TLAPS, WellFoundedInduction

\* A set of numbers that is not empty has a least one.
LEMMA LeastOf ==
  ASSUME NEW S, S \subseteq Nat, S # {}
  PROVE  Min(S) \in S
<1> DEFINE Less == {ss \in Nat \X Nat : ss[1] < ss[2]}
<1>1. IsWellFoundedOn(Less, Nat)
  BY NatLessThanWellFounded DEF OpToRel
<1>2. PICK x \in S : \A y \in S : <<y, x>> \notin Less
  <2> HIDE DEF Less
  <2> QED
    BY <1>1, WFMin
<1>3. ASSUME NEW y \in S PROVE x =< y
  <2>1. y \in Nat /\ x \in Nat
    OBVIOUS
  <2>2. y < x => <<y, x>> \in Less
    BY <2>1
  <2> QED
    BY <1>2, <2>1, <2>2
<1> QED
  BY <1>3 DEF Min

Count == Len(Bins)

\* What the proofs need of the types.
TypeInv ==
  /\ tool \in Tools /\ bin \in [Machine -> [Bin -> {"none", "old", "wanted"}]]
  /\ targets \in Targets /\ todo \subseteq targets /\ skip \subseteq targets
  /\ copied \in Nat /\ cut \subseteq Node
  /\ pc \in {"idle", "fetch", "clean", "unpack", "copy"}
  /\ pc = "copy" => todo # {} /\ copied < Count

HasFirst(n) == bin[n][Bins[1]] = "wanted"
HasAll(n)   == n \in cut \/ \A b \in Bin : bin[n][b] = "wanted"
Good(n)     == HasFirst(n) /\ HasAll(n)

\* A node with the wanted first binary has them all, or was cut short; only the
\* node that is being copied to is on its way there.
WholeInv == \A n \in Node : HasFirst(n) => HasAll(n) \/ (pc = "copy" /\ n = At)

\* On its way: the binaries up to "copied" are there.
CopyInv == pc = "copy" => \A i \in 1 .. copied : bin[At][Bins[i]] = "wanted"

\* What is skipped needs nothing, and what the last loop is done with has all.
DoneInv ==
  /\ pc \in {"fetch", "clean"} => \A n \in skip : Good(n)
  /\ pc \in {"unpack", "copy"} => \A n \in targets \ todo : Good(n)

IInv == TypeInv /\ WholeInv /\ CopyInv /\ DoneInv /\ ToolInstalled

LEMMA NodesOf ==
  ASSUME TypeInv
  PROVE  /\ targets \subseteq Node /\ Node \subseteq Machine
         /\ First \in targets
         /\ todo # {} => At \in todo /\ At \in Node
         /\ Count \in Nat /\ Count > 0 /\ Bins[1] \in Bin
<1>1. Node \subseteq Nat /\ Node \subseteq Machine
  BY DistributeAssumption DEF Node, Machine
<1>2. targets \subseteq Node /\ targets # {}
  BY DistributeAssumption DEF TypeInv
<1>3. First \in targets
  BY <1>1, <1>2, LeastOf DEF First
<1>4. ASSUME todo # {} PROVE At \in todo
  BY <1>1, <1>2, <1>4, LeastOf DEF At, TypeInv
<1>5. Count \in Nat /\ Count > 0
  BY DistributeAssumption DEF TypeInv, IsTool, Count, Bins
<1>6. Bins[1] \in Bin
  BY <1>5 DEF Bin, Count
<1> QED
  BY <1>1, <1>2, <1>3, <1>4, <1>5, <1>6 DEF TypeInv

LEMMA InitIInv == Init => IInv
<1> SUFFICES ASSUME Init PROVE IInv
  OBVIOUS
<1>1. /\ pc = "idle" /\ todo = {} /\ skip = {} /\ copied = 0 /\ cut = {} /\ runs = 0
      /\ tool \in Tools /\ targets \in Targets /\ bin = [m \in Machine |-> Bare]
  BY DEF Init
<1>2. TypeInv
  BY <1>1 DEF TypeInv, Bare
<1>3. WholeInv
  BY <1>1, <1>2, NodesOf DEF WholeInv, HasFirst, Bare
<1> QED
  BY <1>1, <1>2, <1>3 DEF IInv, CopyInv, DoneInv, ToolInstalled

\* A step that leaves the binaries alone, or takes some away, keeps what is
\* known of every node it leaves alone.
LEMMA StartKeeps == ASSUME IInv, Start PROVE IInv'
<1> USE NodesOf DEF IInv
<1>1. /\ pc = "idle" /\ pc' = "fetch" /\ targets' \in Targets /\ todo' = targets' /\ skip' = {}
      /\ copied' = 0 /\ UNCHANGED <<tool, cut>>
      /\ \/ UNCHANGED bin
         \/ bin' = [m \in Machine |-> [b \in Bin |->
                      IF bin[m][b] = "wanted" THEN "old" ELSE bin[m][b]]]
  BY DEF Start
<1>2. Bin' = Bin /\ Bins' = Bins
  BY <1>1 DEF Bin, Bins
<1>3. TypeInv'
  BY <1>1, <1>2 DEF TypeInv
<1>4. WholeInv'
  <2>1. CASE UNCHANGED bin
    BY <1>1, <1>2, <2>1 DEF WholeInv, HasFirst, HasAll
  <2>2. CASE bin' = [m \in Machine |-> [b \in Bin |->
                       IF bin[m][b] = "wanted" THEN "old" ELSE bin[m][b]]]
    BY <1>2, <2>2 DEF WholeInv, HasFirst, TypeInv
  <2> QED
    BY <1>1, <2>1, <2>2
<1> QED
  BY <1>1, <1>3, <1>4 DEF CopyInv, DoneInv, ToolInstalled

(* ---------------------------- the archive ------------------------------ *)

LEMMA SkipKeeps == ASSUME IInv, Skip PROVE IInv'
<1> USE NodesOf DEF IInv
<1>1. /\ pc = "fetch" /\ todo # {} /\ HasFirst(At) /\ skip' = skip \cup {At} /\ todo' = todo \ {At}
      /\ UNCHANGED <<tool, targets, pc, copied, bin, cut>>
  BY DEF Skip, Installed, NextNode, HasFirst
<1>2. Bin' = Bin /\ Bins' = Bins /\ Good(At)
  BY <1>1 DEF Bin, Bins, WholeInv, Good
<1>3. TypeInv' /\ WholeInv' /\ CopyInv'
  BY <1>1, <1>2 DEF TypeInv, WholeInv, CopyInv, HasFirst, HasAll
<1>4. DoneInv'
  BY <1>1, <1>2 DEF DoneInv, Good, HasFirst, HasAll
<1> QED
  BY <1>1, <1>3, <1>4 DEF ToolInstalled

LEMMA FetchKeeps == ASSUME IInv, Transfer \/ Download PROVE IInv'
<1> USE NodesOf DEF IInv
<1>1. /\ pc = "fetch" /\ todo' \subseteq todo
      /\ UNCHANGED <<tool, targets, pc, copied, bin, skip, cut>>
  BY DEF Transfer, Download, Fetching, NextNode
<1>2. Bin' = Bin /\ Bins' = Bins
  BY <1>1 DEF Bin, Bins
<1>3. TypeInv' /\ WholeInv' /\ CopyInv'
  BY <1>1, <1>2 DEF TypeInv, WholeInv, CopyInv, HasFirst, HasAll
<1>4. DoneInv'
  BY <1>1, <1>2 DEF DoneInv, Good, HasFirst, HasAll
<1> QED
  BY <1>1, <1>3, <1>4 DEF ToolInstalled

\* The masters that are skipped are those the loops that follow leave out.
LEMMA FetchedKeeps == ASSUME IInv, Fetched \/ Removed PROVE IInv'
<1> USE NodesOf DEF IInv
<1>1. /\ pc \in {"fetch", "clean"} /\ UNCHANGED <<tool, targets, copied, bin, skip, cut>>
      /\ \/ pc' = "clean" /\ todo' = targets
         \/ pc' = "unpack" /\ todo' = targets \ skip
  BY DistributeAssumption DEF Fetched, Removed, TypeInv, IsTool
<1>2. Bin' = Bin /\ Bins' = Bins
  BY <1>1 DEF Bin, Bins
<1>3. TypeInv' /\ WholeInv' /\ CopyInv'
  BY <1>1, <1>2 DEF TypeInv, WholeInv, CopyInv, HasFirst, HasAll
<1>4. DoneInv'
  BY <1>1, <1>2 DEF DoneInv, Good, HasFirst, HasAll
<1> QED
  BY <1>1, <1>3, <1>4 DEF ToolInstalled

(* ---------------------------- the binaries ----------------------------- *)

\* Removing the binaries of a node says nothing of the other nodes.
LEMMA BareNode ==
  ASSUME TypeInv, NEW m \in Node, bin' = [bin EXCEPT ![m] = Bare], UNCHANGED <<tool, cut>>
  PROVE  /\ bin' \in [Machine -> [Bin' -> {"none", "old", "wanted"}]]
         /\ ~HasFirst(m)' /\ Bin' = Bin
         /\ \A n \in Node : n # m => (HasFirst(n)' <=> HasFirst(n)) /\ (HasAll(n)' <=> HasAll(n))
<1>1. Bin' = Bin /\ Bins' = Bins /\ m \in Machine /\ Bins[1] \in Bin
  BY NodesOf DEF Bin, Bins
<1>2. bin'[m] = Bare /\ Bare \in [Bin -> {"none", "old", "wanted"}]
  BY <1>1 DEF TypeInv, Bare
<1>3. ~HasFirst(m)'
  BY <1>1, <1>2 DEF HasFirst, Bare
<1>4. \A n \in Node : n # m => bin'[n] = bin[n]
  BY NodesOf DEF TypeInv
<1> QED
  BY <1>1, <1>2, <1>3, <1>4 DEF TypeInv, HasFirst, HasAll

LEMMA RemoveOldKeeps == ASSUME IInv, RemoveOld PROVE IInv'
<1> USE NodesOf DEF IInv
<1>1. /\ pc = "clean" /\ todo # {} /\ todo' = todo \ {At} /\ At \in Node
      /\ UNCHANGED <<tool, targets, pc, copied, skip, cut>>
      /\ \/ UNCHANGED bin
         \/ At \notin skip /\ bin' = [bin EXCEPT ![At] = Bare]
  BY DEF RemoveOld, NextNode
<1>2. CopyInv' /\ ToolInstalled'
  BY <1>1 DEF CopyInv, ToolInstalled
<1>3. CASE UNCHANGED bin
  <2>1. Bin' = Bin /\ Bins' = Bins
    BY <1>1 DEF Bin, Bins
  <2> QED
    BY <1>1, <1>2, <1>3, <2>1 DEF TypeInv, WholeInv, DoneInv, Good, HasFirst, HasAll
<1>4. CASE At \notin skip /\ bin' = [bin EXCEPT ![At] = Bare]
  <2>1. TypeInv'
    BY <1>1, <1>4, BareNode DEF TypeInv
  <2>2. WholeInv'
    BY <1>1, <1>4, BareNode DEF WholeInv
  <2>3. DoneInv'
    BY <1>1, <1>4, BareNode DEF DoneInv, Good, TypeInv
  <2> QED
    BY <1>2, <2>1, <2>2, <2>3
<1> QED
  BY <1>1, <1>3, <1>4

LEMMA UnpackKeeps == ASSUME IInv, Unpack PROVE IInv'
<1> USE NodesOf DEF IInv
<1>1. /\ pc = "unpack" /\ todo # {} /\ At \in todo /\ At \in Node
      /\ UNCHANGED <<tool, targets, todo, skip, cut>>
      /\ \/ UNCHANGED bin
         \/ bin' = [bin EXCEPT ![At] = Bare]
      /\ \/ pc' = "copy" /\ copied' = 0
         \/ pc' = "idle" /\ end' = "command" /\ UNCHANGED copied
  BY DEF Unpack, End
<1>2. Bin' = Bin /\ Bins' = Bins /\ At' = At /\ Count' = Count
  BY <1>1 DEF Bin, Bins, At, Count
<1>3. CopyInv' /\ ToolInstalled'
  BY <1>1 DEF CopyInv, ToolInstalled
<1>4. CASE UNCHANGED bin
  <2>1. TypeInv'
    BY <1>1, <1>2, <1>4 DEF TypeInv
  <2> QED
    BY <1>1, <1>2, <1>3, <1>4, <2>1 DEF WholeInv, DoneInv, Good, HasFirst, HasAll
<1>5. CASE bin' = [bin EXCEPT ![At] = Bare]
  <2>1. TypeInv'
    <3>1. bin' \in [Machine -> [Bin' -> {"none", "old", "wanted"}]]
      BY <1>1, <1>5, BareNode
    <3> QED
      BY <1>1, <1>2, <3>1 DEF TypeInv
  <2>2. WholeInv'
    BY <1>1, <1>2, <1>5, BareNode DEF WholeInv
  <2>3. DoneInv'
    BY <1>1, <1>5, BareNode DEF DoneInv, Good
  <2> QED
    BY <1>3, <2>1, <2>2, <2>3
<1> QED
  BY <1>1, <1>4, <1>5

\* One more binary; with the last one the node has all of them.
LEMMA CopyBinKeeps == ASSUME IInv, CopyBin PROVE IInv'
<1> USE NodesOf DEF IInv
<1> DEFINE b == Bins[copied + 1]
<1>1. /\ pc = "copy" /\ copied' = copied + 1 /\ bin' = [bin EXCEPT ![At][b] = "wanted"]
      /\ UNCHANGED <<tool, targets, skip, cut>>
      /\ \/ copied + 1 = Count /\ pc' = "unpack" /\ todo' = todo \ {At}
         \/ copied + 1 # Count /\ UNCHANGED <<pc, todo>>
  BY DEF CopyBin, Count
<1>2. /\ At \in todo /\ At \in Node /\ At \in Machine
      /\ b \in Bin /\ Bin' = Bin /\ Bins' = Bins /\ Count' = Count
      /\ copied \in Nat /\ copied + 1 \in 1 .. Count
  <2>1. At \in todo /\ At \in Node /\ At \in Machine /\ copied \in Nat /\ copied < Count
    BY <1>1 DEF TypeInv
  <2>2. copied + 1 \in 1 .. Count
    BY <2>1
  <2>3. b \in Bin
    BY <2>2 DEF Bin, Count
  <2> QED
    BY <1>1, <2>1, <2>2, <2>3 DEF Bin, Bins, Count
<1>3. /\ bin' \in [Machine -> [Bin -> {"none", "old", "wanted"}]]
      /\ bin'[At][b] = "wanted"
      /\ \A c \in Bin : bin[At][c] = "wanted" => bin'[At][c] = "wanted"
      /\ \A n \in Node : n # At => bin'[n] = bin[n]
  BY <1>1, <1>2 DEF TypeInv
<1>4. \A i \in 1 .. copied + 1 : bin'[At][Bins[i]] = "wanted"
  <2> TAKE i \in 1 .. copied + 1
  <2>1. CASE i = copied + 1
    BY <1>3, <2>1
  <2>2. CASE i # copied + 1
    <3>1. i \in 1 .. copied /\ Bins[i] \in Bin
      BY <1>2, <2>2 DEF Bin, Count
    <3> QED
      BY <1>1, <1>3, <3>1 DEF CopyInv
  <2> QED
    BY <2>1, <2>2
<1>5. \A n \in Node : n # At => (HasFirst(n)' <=> HasFirst(n)) /\ (HasAll(n)' <=> HasAll(n))
  BY <1>1, <1>2, <1>3 DEF HasFirst, HasAll
<1>6. CASE copied + 1 = Count /\ pc' = "unpack" /\ todo' = todo \ {At}
  <2>1. \A c \in Bin : bin'[At][c] = "wanted"
    BY <1>4, <1>6 DEF Bin, Count
  <2>2. ASSUME NEW n, n = At PROVE Good(n)'
    BY <1>2, <2>1, <2>2 DEF Good, HasFirst, HasAll
  <2>3. TypeInv'
    BY <1>1, <1>2, <1>3, <1>6 DEF TypeInv
  <2>4. WholeInv'
    BY <1>1, <1>2, <1>5, <2>2 DEF WholeInv, Good
  <2>5. DoneInv'
    BY <1>1, <1>2, <1>5, <1>6, <2>2 DEF DoneInv, Good, TypeInv
  <2> QED
    BY <1>6, <2>3, <2>4, <2>5 DEF CopyInv, ToolInstalled
<1>7. CASE copied + 1 # Count /\ UNCHANGED <<pc, todo>>
  <2>1. At' = At
    BY <1>7 DEF At
  <2>2. TypeInv'
    BY <1>1, <1>2, <1>3, <1>7 DEF TypeInv
  <2>3. WholeInv'
    BY <1>1, <1>5, <1>7, <2>1 DEF WholeInv
  <2>4. CopyInv'
    BY <1>1, <1>2, <1>4, <2>1 DEF CopyInv
  <2>5. DoneInv'
    BY <1>1, <1>2, <1>5, <1>7 DEF DoneInv, Good, TypeInv
  <2> QED
    BY <1>1, <1>7, <2>2, <2>3, <2>4, <2>5 DEF ToolInstalled
<1> QED
  BY <1>1, <1>6, <1>7

(* ------------------------------ the ends ------------------------------- *)

\* However a run ends, a node it was copying to is remembered as cut short.
LEMMA EndKeeps ==
  ASSUME IInv, FetchFails \/ Use \/ OutsideFailure \/ Killed
  PROVE  IInv'
<1> USE NodesOf DEF IInv
<1>1. /\ pc' = "idle" /\ UNCHANGED <<tool, bin, targets, todo, skip, copied>>
      /\ cut' = (IF pc = "copy" THEN cut \cup {At} ELSE cut)
      /\ end' = "ok" => pc = "unpack" /\ todo = {}
  BY DEF FetchFails, Use, OutsideFailure, Killed, End, Fetching
<1>2. Bin' = Bin /\ Bins' = Bins
  BY <1>1 DEF Bin, Bins
<1>3. TypeInv'
  BY <1>1, <1>2 DEF TypeInv
<1>4. \A n \in Node : /\ HasFirst(n)' <=> HasFirst(n)
                      /\ HasAll(n) => HasAll(n)'
                      /\ pc = "copy" /\ n = At => HasAll(n)'
  BY <1>1, <1>2 DEF HasFirst, HasAll
<1>5. WholeInv'
  BY <1>4 DEF WholeInv
<1>6. ToolInstalled'
  <2> SUFFICES ASSUME end' = "ok", NEW n \in targets
               PROVE  HasFirst(n)' /\ HasAll(n)'
    BY <1>1 DEF ToolInstalled, HasFirst, HasAll
  <2>1. Good(n)
    BY <1>1 DEF DoneInv
  <2> QED
    BY <1>4, <2>1 DEF Good
<1> QED
  BY <1>1, <1>3, <1>5, <1>6 DEF CopyInv, DoneInv

LEMMA NextKeeps == IInv /\ [Next]_vars => IInv'
<1>1. IInv /\ Next => IInv'
  BY StartKeeps, SkipKeeps, FetchKeeps, FetchedKeeps, RemoveOldKeeps, UnpackKeeps, CopyBinKeeps,
     EndKeeps DEF Next
<1>2. IInv /\ UNCHANGED vars => IInv'
  <2> SUFFICES ASSUME IInv, UNCHANGED vars PROVE IInv'
    OBVIOUS
  <2>1. /\ UNCHANGED <<tool, bin, targets, todo, skip, copied, pc, end, cut, runs>>
        /\ Bin' = Bin /\ Bins' = Bins /\ At' = At /\ Count' = Count
    BY DEF vars, process, Bin, Bins, At, Count
  <2>2. TypeInv' /\ ToolInstalled'
    BY <2>1 DEF IInv, TypeInv, ToolInstalled
  <2>3. WholeInv' /\ CopyInv'
    BY <2>1 DEF IInv, WholeInv, CopyInv, HasFirst, HasAll
  <2>4. DoneInv'
    BY <2>1 DEF IInv, DoneInv, Good, HasFirst, HasAll
  <2> QED
    BY <2>2, <2>3, <2>4 DEF IInv
<1> QED
  BY <1>1, <1>2

\* A run that ends well leaves on each of its masters all binaries in the wanted
\* version, unless a run was once cut short between two of them there: what is
\* skipped was looked at by the first binary's version (installEtcd, installHelm,
\* installHelmfile).
THEOREM ToolIsInstalled == Spec => []ToolInstalled
<1>1. IInv => ToolInstalled
  BY DEF IInv
<1> QED
  BY InitIInv, NextKeeps, <1>1, PTL DEF Spec

(* ------------------- the run after the next recovers ------------------- *)

\* The nodes reach the internet, and the program runs on, or is pointed at, the
\* first master of every run: only there does it find the directory it keeps
\* the archive in, so that other settings fail by themselves (RunsSucceed).
OnFirst == Online /\ \A T \in Targets : Min(T) = Remote

Clean(S) == \A n \in S : tmp[n] = "none"
Whole(S) == \A n \in S : tmp[n] = "whole"

\* What the temporary directories hold unless the run before was killed.
TmpInv ==
  /\ tmp \in [Node -> {"none", "part", "whole"}]
  /\ pc = "idle" /\ end # "killed" => Clean(Node)
  /\ pc = "fetch" /\ prev # "killed" => Clean(todo) /\ Whole(targets \ (todo \cup skip))
  /\ pc = "clean" /\ prev # "killed" => Whole(targets \ skip)
  /\ pc \in {"unpack", "copy"} /\ prev # "killed" => Whole(todo)

\* The directory of resources, and where the archive is said to be.
ResInv ==
  /\ res \in [Machine -> BOOLEAN]
  /\ pc # "idle" => res[Remote]
  /\ have => iso

\* The first master has every binary as soon as it is skipped or done.
Equipped(n) == \A b \in Bin : bin[n][b] # "none"
ReadyInv ==
  /\ pc \in {"fetch", "clean"} /\ First \in skip => Equipped(First)
  /\ pc \in {"unpack", "copy"} /\ First \notin todo => Equipped(First)

RInv == TmpInv /\ ResInv /\ ReadyInv /\ RunRecovers

LEMMA InitRInv == Init => RInv
BY DistributeAssumption DEF Init, RInv, TmpInv, ResInv, ReadyInv, RunRecovers, Clean, process

LEMMA StartRecovers == ASSUME OnFirst, IInv, RInv, Start PROVE RInv'
<1>1. /\ pc = "idle" /\ pc' = "fetch" /\ todo' = targets' /\ skip' = {} /\ have' = FALSE /\ prev' = end
      /\ res' = [res EXCEPT ![Remote] = TRUE] /\ UNCHANGED <<tool, end>>
      /\ tmp' = tmp \/ tmp' = [n \in Node |-> "none"]
      /\ targets' \in Targets
  BY DEF Start
<1>2. targets' \subseteq Node /\ Remote \in Machine
  BY <1>1, DistributeAssumption
<1>3. TmpInv'
  BY <1>1, <1>2 DEF RInv, TmpInv, Clean, Whole
<1>4. ResInv'
  BY <1>1, <1>2 DEF RInv, ResInv
<1> QED
  BY <1>1, <1>3, <1>4 DEF RInv, ReadyInv, RunRecovers

\* A master is skipped only where the program's own node has every binary,
\* and that is the first master.
LEMMA SkipRecovers == ASSUME OnFirst, IInv, RInv, Skip PROVE RInv'
<1> USE NodesOf DEF IInv, RInv
<1>1. /\ pc = "fetch" /\ todo # {} /\ Installed(At) /\ skip' = skip \cup {At} /\ todo' = todo \ {At}
      /\ UNCHANGED <<tool, targets, iso, pc, bin, tmp, res, have, end, prev>>
  BY DEF Skip, NextNode
<1>2. First' = First /\ Bin' = Bin
  BY <1>1 DEF First, Bin, Bins
<1>3. At \in targets
  BY <1>1 DEF TypeInv
<1>4. TmpInv'
  BY <1>1, <1>3 DEF TmpInv, Clean, Whole
<1>5. ReadyInv'
  <2>1. First = Remote
    BY DEF OnFirst, First, TypeInv
  <2>2. Equipped(First)
    BY <1>1, <2>1 DEF Installed, Equipped
  <2> QED
    BY <1>1, <1>2, <2>2 DEF ReadyInv, Equipped
<1> QED
  BY <1>1, <1>4, <1>5 DEF ResInv, RunRecovers

LEMMA FetchRecovers == ASSUME OnFirst, IInv, RInv, Transfer \/ Download PROVE RInv'
<1> USE NodesOf DEF IInv, RInv
<1>1. /\ pc = "fetch" /\ todo # {} /\ todo' = todo \ {At}
      /\ UNCHANGED <<tool, targets, iso, pc, bin, res, skip, end, prev>>
      /\ \/ tmp' = [tmp EXCEPT ![At] = "whole"] /\ iso
         \/ tmp' = [tmp EXCEPT ![At] = IF @ = "none" THEN "whole" ELSE @] /\ ~have'
  BY DEF Transfer, Download, Fetching, NextNode
<1>2. First' = First /\ Bin' = Bin /\ At \in Node /\ At \in todo
  BY <1>1 DEF First, Bin, Bins
<1>3. tmp' \in [Node -> {"none", "part", "whole"}] /\ \A n \in Node : n # At => tmp'[n] = tmp[n]
  BY <1>1, <1>2 DEF TmpInv
<1>4. prev # "killed" => tmp'[At] = "whole"
  BY <1>1, <1>2 DEF TmpInv, Clean
<1>5. TmpInv'
  <2>1. prev # "killed" => Clean(todo) /\ Whole(targets \ (todo \cup skip))
    BY <1>1 DEF TmpInv
  <2>2. targets \subseteq Node /\ todo \subseteq targets
    BY DEF TypeInv
  <2>3. prev # "killed" => Clean(todo)'
    BY <1>1, <1>3, <2>1, <2>2 DEF Clean
  <2>4. prev # "killed" => Whole(targets \ (todo \cup skip))'
    BY <1>1, <1>3, <1>4, <2>1, <2>2 DEF Whole
  <2> QED
    BY <1>1, <1>3, <2>3, <2>4 DEF TmpInv
<1>6. ReadyInv'
  BY <1>1, <1>2 DEF ReadyInv, Equipped
<1>7. ResInv'
  BY <1>1 DEF ResInv
<1> QED
  BY <1>1, <1>5, <1>6, <1>7 DEF RunRecovers

LEMMA FetchedRecovers == ASSUME OnFirst, IInv, RInv, Fetched \/ Removed PROVE RInv'
<1> USE NodesOf DEF IInv, RInv
<1>1. /\ pc \in {"fetch", "clean"} /\ todo = {}
      /\ UNCHANGED <<tool, bin, tmp, res, targets, iso, copied, skip, have, end, prev>>
      /\ \/ pc' = "clean" /\ todo' = targets
         \/ pc' = "unpack" /\ todo' = targets \ skip
  BY DistributeAssumption DEF Fetched, Removed, TypeInv, IsTool
<1>2. First' = First /\ Bin' = Bin
  BY <1>1 DEF First, Bin, Bins
<1>3. TmpInv'
  BY <1>1 DEF TmpInv, Whole
<1>4. ReadyInv'
  BY <1>1, <1>2 DEF ReadyInv, Equipped
<1> QED
  BY <1>1, <1>3, <1>4 DEF ResInv, RunRecovers

\* Only masters that were not skipped lose their old binaries.
LEMMA RemoveOldRecovers == ASSUME OnFirst, IInv, RInv, RemoveOld PROVE RInv'
<1> USE NodesOf DEF IInv, RInv
<1>1. /\ pc = "clean" /\ todo # {} /\ At \in Node
      /\ bin' = (IF At \in skip THEN bin ELSE [bin EXCEPT ![At] = Bare])
      /\ UNCHANGED <<tool, targets, iso, pc, tmp, res, skip, have, end, prev>>
  BY DEF RemoveOld, NextNode
<1>2. First' = First /\ Bin' = Bin /\ First \in Machine
  BY <1>1 DEF First, Bin, Bins
<1>3. First \in skip => bin'[First] = bin[First]
  BY <1>1, <1>2 DEF TypeInv
<1>4. ReadyInv'
  BY <1>1, <1>2, <1>3 DEF ReadyInv, Equipped
<1> QED
  BY <1>1, <1>4 DEF TmpInv, ResInv, RunRecovers, Clean, Whole

\* The archive is whole, unless the run before this one was killed.
LEMMA UnpackRecovers == ASSUME OnFirst, IInv, RInv, Unpack PROVE RInv'
<1> USE NodesOf DEF IInv, RInv
<1>1. /\ pc = "unpack" /\ todo # {} /\ At \in todo /\ At \in Node
      /\ bin' = (IF tool.cleanFirst THEN bin ELSE [bin EXCEPT ![At] = Bare])
      /\ UNCHANGED <<tool, targets, iso, res, todo, skip, have, prev>>
  BY DEF Unpack, End
<1>2. \/ tmp[At] = "whole" /\ pc' = "copy" /\ UNCHANGED <<tmp, end>>
      \/ tmp[At] # "whole" /\ pc' = "idle" /\ end' = "command" /\ tmp' = [n \in Node |-> "none"]
  BY DEF Unpack, End, CleanTmp
<1>3. First' = First /\ Bin' = Bin /\ First \in Machine
  BY <1>1 DEF First, Bin, Bins
<1>4. First \notin todo => bin'[First] = bin[First]
  BY <1>1, <1>3 DEF TypeInv
<1>5. ReadyInv'
  BY <1>1, <1>2, <1>3, <1>4 DEF ReadyInv, Equipped
<1>6. prev # "killed" => tmp[At] = "whole"
  BY <1>1 DEF TmpInv, Whole
<1>7. TmpInv'
  BY <1>1, <1>2 DEF TmpInv, Clean, Whole
<1>8. RunRecovers'
  BY <1>1, <1>2, <1>6 DEF RunRecovers
<1> QED
  BY <1>1, <1>2, <1>5, <1>7, <1>8 DEF ResInv

\* With the last binary a master has all of them.
LEMMA CopyBinRecovers == ASSUME OnFirst, IInv, RInv, CopyBin PROVE RInv'
<1> USE NodesOf DEF IInv, RInv
<1> DEFINE b == Bins[copied + 1]
<1>1. /\ pc = "copy" /\ bin' = [bin EXCEPT ![At][b] = "wanted"] /\ copied' = copied + 1
      /\ UNCHANGED <<tool, targets, iso, tmp, res, skip, have, end, prev>>
      /\ \/ copied + 1 = Count /\ pc' = "unpack" /\ todo' = todo \ {At}
         \/ copied + 1 # Count /\ UNCHANGED <<pc, todo>>
  BY DEF CopyBin, Count
<1>2. /\ At \in todo /\ At \in Machine /\ First \in Machine /\ First' = First
      /\ Bin' = Bin /\ copied \in Nat /\ copied < Count
  BY <1>1 DEF TypeInv, First, Bin, Bins
<1>3. b \in Bin
  BY <1>2 DEF Bin, Count
<1>4. bin'[At] = [bin[At] EXCEPT ![b] = "wanted"] /\ \A m \in Machine : m # At => bin'[m] = bin[m]
  BY <1>1, <1>2 DEF TypeInv
<1>5. copied + 1 = Count => \A c \in Bin : bin'[At][c] = "wanted"
  <2> SUFFICES ASSUME copied + 1 = Count, NEW c \in Bin PROVE bin'[At][c] = "wanted"
    OBVIOUS
  <2>1. bin[At] \in [Bin -> {"none", "old", "wanted"}]
    BY <1>2 DEF TypeInv
  <2>2. PICK i \in 1 .. Count : c = Bins[i]
    BY DEF Bin, Count
  <2>3. CASE i = copied + 1
    BY <1>3, <1>4, <2>1, <2>2, <2>3
  <2>4. CASE i # copied + 1
    <3>1. bin[At][c] = "wanted"
      BY <1>1, <1>2, <2>2, <2>4 DEF CopyInv
    <3> QED
      BY <1>4, <2>1, <3>1
  <2> QED
    BY <2>3, <2>4
<1>6. ReadyInv'
  <2> SUFFICES ASSUME First \notin todo', NEW c \in Bin PROVE bin'[First][c] # "none"
    BY <1>1, <1>2 DEF ReadyInv, Equipped
  <2>1. CASE First = At
    BY <1>1, <1>2, <1>5, <2>1
  <2>2. CASE First # At
    BY <1>1, <1>2, <1>4, <2>2 DEF ReadyInv, Equipped
  <2> QED
    BY <2>1, <2>2
<1>7. TmpInv'
  BY <1>1 DEF TmpInv, Clean, Whole
<1> QED
  BY <1>1, <1>6, <1>7 DEF ResInv, RunRecovers

\* An archive that is where it is looked for, or that can be downloaded, and a
\* first master with every binary: after a run that was not killed neither the
\* fetching nor the use of the tool fails.
LEMMA EndRecovers ==
  ASSUME OnFirst, IInv, RInv, FetchFails \/ Use \/ OutsideFailure \/ Killed
  PROVE  RInv'
<1> USE NodesOf DEF IInv, RInv
<1>1. /\ pc # "idle" /\ pc' = "idle" /\ UNCHANGED <<tool, iso, prev, res, have>>
      /\ tmp' = [n \in Node |-> "none"] \/ end' = "killed"
  BY DEF FetchFails, Use, OutsideFailure, Killed, End, CleanTmp, Fetching
<1>2. tmp' \in [Node -> {"none", "part", "whole"}]
  BY <1>1 DEF FetchFails, Use, OutsideFailure, Killed, CleanTmp, Fetching, TmpInv
<1>3. TmpInv' /\ ReadyInv' /\ ResInv'
  BY <1>1, <1>2 DEF TmpInv, ReadyInv, ResInv, Clean
<1>4. ASSUME FetchFails PROVE prev = "killed"
  <2>1. /\ pc = "fetch" /\ todo # {} /\ At \in todo
        /\ \/ HasFile /\ ~iso
           \/ ~HasFile /\ ~DownloadRuns
           \/ ~HasFile /\ tmp[At] # "none"
    BY <1>4 DEF FetchFails, Fetching
  <2>2. First = Remote
    BY DEF OnFirst, First, TypeInv
  <2>3. DownloadRuns
    BY <1>1, <2>2 DEF DownloadRuns, OnFirst, ResInv
  <2>4. HasFile /\ ~iso => tmp[At] # "none"
    BY DEF HasFile, ResInv
  <2> QED
    BY <2>1, <2>3, <2>4 DEF TmpInv, Clean
<1>5. ASSUME Use PROVE end' = "ok"
  <2>1. pc = "unpack" /\ todo = {} /\ end' = (IF Equipped(First) THEN "ok" ELSE "command")
    BY <1>5 DEF Use, End, Equipped
  <2> QED
    BY <2>1 DEF ReadyInv
<1>6. RunRecovers'
  BY <1>1, <1>4, <1>5 DEF RunRecovers, OutsideFailure, Killed, End
<1> QED
  BY <1>3, <1>6

\* Whatever a killed run leaves behind, a run fails of itself only right after
\* one that was killed: Exit of the failed run has removed the rests, so that
\* wget -nc finds nothing to keep (installEtcd, installHelm, installHelmfile).
THEOREM Recovers == ASSUME OnFirst PROVE Spec => []RunRecovers
<1>1. IInv /\ RInv /\ [Next]_vars => RInv'
  <2>1. IInv /\ RInv /\ Next => RInv'
    BY StartRecovers, SkipRecovers, FetchRecovers, FetchedRecovers, RemoveOldRecovers,
       UnpackRecovers, CopyBinRecovers, EndRecovers DEF Next
  <2>2. RInv /\ UNCHANGED vars => RInv'
    BY DEF vars, process, RInv, TmpInv, ResInv, ReadyInv, RunRecovers, Clean, Whole, Equipped,
           First, Bin, Bins
  <2> QED
    BY <2>1, <2>2
<1>2. Spec => []IInv
  BY InitIInv, NextKeeps, PTL DEF Spec
<1>3. RInv => RunRecovers
  BY DEF RInv
<1> QED
  BY InitRInv, <1>1, <1>2, <1>3, PTL DEF Spec
=============================================================================
