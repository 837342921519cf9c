---------------------------- MODULE IsoSetup_proofs ---------------------------
(***************************************************************************)
(* What an offline installation leaves on the nodes, for any number of     *)
(* nodes, any sets of them a run is for, and any number of runs, failures  *)
(* and reboots.                                                            *)
(***************************************************************************)
EXTENDS IsoSetup, TLAPS, WellFoundedInduction

\* A set of numbers that is not empty has a least one.
LEMMA MinOf ==
  ASSUME NEW S, S \subseteq Nat, S # {}
  PROVE  Min(S) \in S
<1> DEFINE Less == {ss \in Nat \X Nat : ss[1] < ss[2]}
<1>1. IsWellFoundedOn(Less, Nat)
  BY NatLessThanWellFounded DEF OpToRel
<1>2. PICK x \in S : \A y \in S : <<y, x>> \notin Less
  <2> HIDE DEF Less
  <2> QED
    BY <1>1, WFMin
<1>3. ASSUME NEW y \in S PROVE x =< y
  <2>1. y \in Nat /\ x \in Nat
    OBVIOUS
  <2>2. y < x => <<y, x>> \in Less
    BY <2>1
  <2> QED
    BY <1>2, <2>1, <2>2
<1> QED
  BY <1>3 DEF Min

TypeInv ==
  /\ DOMAIN iso = Machine /\ DOMAIN mounted = Machine
  /\ repo \subseteq Node
  /\ targets \in Targets /\ todo \subseteq targets

\* The least of a run's nodes is one of them, and so is the least of those left.
LEMMA NodesOf ==
  ASSUME TypeInv
  PROVE  /\ First \in targets /\ First \in Node /\ Node \subseteq Machine /\ Remote \in Machine
         /\ targets \subseteq Node
         /\ todo # {} => At \in todo /\ At \in Node
<1>1. Node \subseteq Nat /\ Node \subseteq Machine /\ Remote \in Machine
  BY IsoSetupAssumption DEF Node, Machine
<1>2. targets \subseteq Node /\ targets # {}
  BY IsoSetupAssumption DEF TypeInv
<1>3. First \in targets
  BY <1>1, <1>2, MinOf DEF First
<1>4. ASSUME todo # {} PROVE At \in todo
  BY <1>1, <1>2, <1>4, MinOf DEF At, TypeInv
<1> QED
  BY <1>1, <1>2, <1>3, <1>4 DEF TypeInv

\* Where files come from: the machine the program is pointed at has the image,
\* and a node without a history has that or nothing.
FileInv ==
  /\ iso[Remote] = "wanted"
  /\ \A n \in Node : n \in prev \cup cut \/ iso[n] \in {"none", "wanted"}

\* A list is written only where there is a file, and the file is mounted then.
RepoInv ==
  \A n \in repo : iso[n] # "none" /\ (mounted[n] # "none" \/ n \in rebooted \cup cut)

\* While the others are served the first node is done, and has the file that is
\* copied to them.
FirstInv == pc = "others" => First \notin todo /\ iso[First] # "none"

Sources == backup \subseteq repo \cup cut \cup noFile

IInv ==
  TypeInv /\ FileInv /\ RepoInv /\ FirstInv /\ MountedIso /\ OnlineUpdates /\ Sources

LEMMA InitIInv == Init => IInv
<1> SUFFICES ASSUME Init PROVE IInv
  OBVIOUS
<1>1. Remote \in Machine /\ Node \subseteq Machine
  BY IsoSetupAssumption DEF Node, Machine
<1>2. /\ DOMAIN iso = Machine /\ iso[Remote] = "wanted"
      /\ \A n \in Node : iso[n] \in {"wanted", "old", "none"}
  BY <1>1 DEF Init
<1>3. /\ DOMAIN mounted = Machine /\ targets \in Targets /\ pc = "idle" /\ end = "ok"
      /\ repo = {} /\ backup = {} /\ todo = {} /\ prev = {n \in Node : iso[n] = "old"}
  BY DEF Init
<1>4. TypeInv /\ FileInv
  BY <1>2, <1>3 DEF TypeInv, FileInv
<1>5. RepoInv /\ FirstInv /\ MountedIso /\ OnlineUpdates /\ Sources
  BY <1>3 DEF RepoInv, FirstInv, MountedIso, OnlineUpdates, Sources
<1> QED
  BY <1>4, <1>5 DEF IInv

(* --------------- the steps that bring a file to a machine -------------- *)

\* A newer file at the same path makes every other file of the name an old one.
LEMMA StartKeeps == ASSUME IInv, Start PROVE IInv'
<1> USE NodesOf DEF IInv
<1>1. /\ targets' \in Targets /\ todo' = targets' /\ pc' \in {"mount", "online"}
      /\ UNCHANGED <<repo, backup, end, cut, noFile, rebooted>>
  BY DEF Start
<1>2. FirstInv' /\ MountedIso' /\ OnlineUpdates' /\ Sources'
  BY <1>1 DEF FirstInv, MountedIso, OnlineUpdates, Sources
<1>3. CASE UNCHANGED <<iso, mounted, prev>>
  BY <1>1, <1>2, <1>3 DEF TypeInv, FileInv, RepoInv
<1>4. CASE /\ iso' = [m \in Machine |-> IF m = Remote THEN "wanted" ELSE Aged(iso[m])]
           /\ mounted' = [m \in Machine |-> Aged(mounted[m])]
           /\ prev' = {m \in Node : m # Remote /\ iso[m] # "none"}
  <2>1. TypeInv'
    BY <1>1, <1>4 DEF TypeInv
  <2>2. FileInv'
    BY <1>4 DEF FileInv, Aged
  <2>3. RepoInv'
    <3> SUFFICES ASSUME NEW n \in repo
                 PROVE  iso'[n] # "none" /\ (mounted'[n] # "none" \/ n \in rebooted \cup cut)
      BY <1>1 DEF RepoInv
    <3>1. n \in Machine /\ iso[n] # "none" /\ (mounted[n] # "none" \/ n \in rebooted \cup cut)
      BY DEF RepoInv, TypeInv
    <3> QED
      BY <1>4, <3>1 DEF Aged
  <2> QED
    BY <1>2, <2>1, <2>2, <2>3
<1> QED
  BY <1>3, <1>4 DEF Start

\* A node without a file gets the first node's, and its history with it.
LEMMA TransferKeeps == ASSUME IInv, Transfer PROVE IInv'
<1> USE NodesOf DEF IInv
<1>1. /\ pc = "others" /\ todo # {} /\ iso[At] = "none" /\ At \in Node /\ At # First
      /\ iso' = [iso EXCEPT ![At] = iso[First]]
      /\ prev' = IF First \in prev \cup cut THEN prev \cup {At} ELSE prev
      /\ UNCHANGED <<mounted, repo, backup, todo, targets, pc, end, cut, noFile, rebooted>>
  BY DEF Transfer, HasIso, FirstInv
<1>2. /\ DOMAIN iso' = Machine /\ iso'[At] = iso[First] /\ iso[First] # "none"
      /\ \A m \in Machine : m # At => iso'[m] = iso[m]
  BY <1>1 DEF TypeInv, FirstInv
<1>3. TypeInv' /\ First' = First
  BY <1>1, <1>2 DEF TypeInv, First
<1>4. FileInv'
  <2>1. At # Remote
    BY <1>1 DEF FileInv
  <2>2. ASSUME NEW n \in Node, n \notin prev' \cup cut' PROVE iso'[n] \in {"none", "wanted"}
    <3>1. CASE n = At
      BY <1>1, <1>2, <2>2, <3>1 DEF FileInv
    <3>2. CASE n # At
      BY <1>1, <1>2, <2>2, <3>2 DEF FileInv
    <3> QED
      BY <3>1, <3>2
  <2> QED
    BY <1>2, <2>1, <2>2 DEF FileInv
<1>5. RepoInv' /\ FirstInv'
  BY <1>1, <1>2, <1>3 DEF RepoInv, FirstInv, TypeInv
<1>6. MountedIso'
  BY <1>1 DEF MountedIso
<1>7. OnlineUpdates' /\ Sources'
  BY <1>1 DEF OnlineUpdates, Sources, At
<1> QED
  BY <1>3, <1>4, <1>5, <1>6, <1>7

(* ------------------- the steps that mount the image -------------------- *)

LEMMA MountRemoteKeeps == ASSUME IInv, MountRemote PROVE IInv'
<1> USE NodesOf DEF IInv
<1>1. /\ mounted' = [mounted EXCEPT ![Remote] = iso[Remote]] /\ pc' = "first"
      /\ UNCHANGED <<iso, repo, backup, todo, targets, end, prev, cut, noFile, rebooted>>
  BY DEF MountRemote, Mount, Goto
<1>2. DOMAIN mounted' = Machine /\ \A m \in Machine : mounted'[m] # mounted[m] => mounted'[m] = "wanted"
  BY <1>1 DEF TypeInv, FileInv
<1>3. TypeInv' /\ FileInv' /\ RepoInv'
  BY <1>1, <1>2 DEF TypeInv, FileInv, RepoInv
<1> QED
  BY <1>1, <1>3 DEF FirstInv, MountedIso, OnlineUpdates, Sources

\* What the loop does on a node once the file is there.
LEMMA SetupKeeps ==
  ASSUME IInv, NEW n \in Node, iso[n] # "none",
         Mount(n), AddRepository(n), Goto("others"), UNCHANGED iso,
         SetupFirst \/ SetupOther
  PROVE  TypeInv' /\ FileInv' /\ RepoInv' /\ OnlineUpdates'
<1> USE NodesOf DEF IInv
<1>1. /\ mounted' = [mounted EXCEPT ![n] = iso[n]] /\ repo' = repo \cup {n} /\ pc' = "others"
      /\ UNCHANGED <<iso, targets, end, prev, cut, noFile, rebooted>>
  BY DEF Mount, AddRepository, Goto
<1>2. todo' \subseteq targets
  BY DEF SetupFirst, SetupOther, TypeInv
<1>3. DOMAIN mounted' = Machine /\ mounted'[n] # "none" /\ \A m \in Machine : m # n => mounted'[m] = mounted[m]
  BY <1>1 DEF TypeInv
<1>4. TypeInv' /\ FileInv'
  BY <1>1, <1>2, <1>3 DEF TypeInv, FileInv
<1>5. RepoInv'
  BY <1>1, <1>3 DEF RepoInv, TypeInv
<1> QED
  BY <1>1, <1>4, <1>5 DEF OnlineUpdates

LEMMA SetupFirstKeeps == ASSUME IInv, SetupFirst PROVE IInv'
<1> USE NodesOf DEF IInv
<1>1. /\ pc = "first" /\ iso[First] # "none" /\ Mount(First) /\ AddRepository(First)
      /\ todo' = targets \ {First} /\ Goto("others") /\ UNCHANGED iso
      /\ backup' \subseteq backup \cup {First}
  BY DEF SetupFirst
<1>2. /\ mounted'[First] = iso[First] /\ pc' = "others" /\ repo' = repo \cup {First}
      /\ UNCHANGED <<targets, prev, cut, noFile>>
  BY <1>1 DEF Mount, AddRepository, Goto, TypeInv
<1>3. TypeInv' /\ FileInv' /\ RepoInv' /\ OnlineUpdates'
  BY <1>1, SetupKeeps
<1>4. First' = First /\ FirstInv'
  BY <1>1, <1>2 DEF FirstInv, First
<1>5. MountedIso'
  BY <1>1, <1>2 DEF MountedIso, FileInv
<1>6. Sources'
  BY <1>1, <1>2 DEF Sources
<1> QED
  BY <1>3, <1>4, <1>5, <1>6

LEMMA SetupOtherKeeps == ASSUME IInv, SetupOther PROVE IInv'
<1> USE NodesOf DEF IInv
<1>1. /\ pc = "others" /\ todo # {} /\ iso[At] # "none" /\ Mount(At) /\ AddRepository(At)
      /\ todo' = todo \ {At} /\ Goto("others") /\ UNCHANGED <<iso, backup>>
  BY DEF SetupOther, HasIso
<1>2. /\ At \in Node /\ At \in Machine /\ pc' = "others" /\ repo' = repo \cup {At}
      /\ mounted' = [mounted EXCEPT ![At] = iso[At]] /\ UNCHANGED <<targets, prev, cut, noFile>>
  BY <1>1 DEF Mount, AddRepository, Goto
<1>3. TypeInv' /\ FileInv' /\ RepoInv' /\ OnlineUpdates'
  BY <1>1, <1>2, SetupKeeps
<1>4. First' = First /\ FirstInv'
  BY <1>1, <1>2 DEF FirstInv, First
<1>5. MountedIso'
  <2> SUFFICES ASSUME NEW n \in targets \ todo'
               PROVE  mounted'[n] # "none" /\ (n \in prev \cup cut \/ mounted'[n] = "wanted")
    BY <1>2 DEF MountedIso
  <2>1. CASE n = At
    BY <1>1, <1>2, <2>1 DEF FileInv, TypeInv
  <2>2. CASE n # At
    BY <1>1, <1>2, <2>2 DEF MountedIso, TypeInv
  <2> QED
    BY <2>1, <2>2
<1>6. Sources'
  BY <1>1, <1>2 DEF Sources
<1> QED
  BY <1>3, <1>4, <1>5, <1>6

(* -------------------------- ends and reboots --------------------------- *)

LEMMA NoIsoKeeps == ASSUME IInv, NoIso PROVE IInv'
<1> USE NodesOf DEF IInv
<1>1. /\ iso[First] = "none" /\ mounted' = [mounted EXCEPT ![First] = "none"] /\ pc' = "idle"
      /\ end' = "mount" /\ noFile' = noFile \cup {First} /\ backup' \subseteq backup \cup {First}
      /\ UNCHANGED <<iso, repo, targets, todo, prev, cut, rebooted>>
  BY DEF NoIso, End
<1>2. First \notin repo
  BY <1>1 DEF RepoInv
<1>3. TypeInv' /\ FileInv' /\ RepoInv'
  BY <1>1, <1>2 DEF TypeInv, FileInv, RepoInv
<1> QED
  BY <1>1, <1>3 DEF FirstInv, MountedIso, OnlineUpdates, Sources

\* The package manager fails only on a list that points to nothing.
LEMMA OnlineKeeps == ASSUME IInv, Finish \/ UpdateRepos \/ UpdateFails PROVE IInv'
<1> USE NodesOf DEF IInv, nodes
<1>1. /\ UNCHANGED <<iso, mounted, repo, backup, targets, prev, cut, noFile, rebooted>>
      /\ todo' \subseteq todo /\ pc' # "others"
  BY DEF Finish, UpdateRepos, UpdateFails, End, Goto
<1>2. OnlineUpdates'
  <2>1. CASE UpdateFails
    BY <1>1, <2>1 DEF UpdateFails, Readable, End, OnlineUpdates, RepoInv, At
  <2>2. CASE Finish \/ UpdateRepos
    BY <2>2 DEF Finish, UpdateRepos, End, Goto, OnlineUpdates
  <2> QED
    BY <2>1, <2>2
<1> QED
  BY <1>1, <1>2 DEF TypeInv, FileInv, RepoInv, FirstInv, MountedIso, Sources

LEMMA CutShortKeeps == ASSUME IInv, CutShort PROVE IInv'
<1> USE NodesOf DEF IInv, nodes
<1>1. /\ pc' = "idle" /\ end' = "cut" /\ UNCHANGED <<targets, todo, prev, noFile, rebooted, repo>>
  BY DEF CutShort, End
<1>2. FirstInv' /\ MountedIso' /\ OnlineUpdates'
  BY <1>1 DEF FirstInv, MountedIso, OnlineUpdates
<1>3. CASE UNCHANGED <<nodes, cut>>
  BY <1>1, <1>2, <1>3 DEF TypeInv, FileInv, RepoInv, Sources
<1>4. CASE /\ todo # {} /\ ~HasIso(At) /\ cut' = cut \cup {At}
           /\ iso' = [iso EXCEPT ![At] = "part"] /\ UNCHANGED <<mounted, backup>>
  <2>1. At \in Machine /\ At # Remote
    BY <1>4 DEF HasIso, FileInv
  <2>2. DOMAIN iso' = Machine /\ iso'[At] = "part" /\ \A m \in Machine : m # At => iso'[m] = iso[m]
    BY <1>4, <2>1 DEF TypeInv
  <2>3. TypeInv' /\ FileInv' /\ RepoInv'
    BY <1>1, <1>4, <2>1, <2>2 DEF TypeInv, FileInv, RepoInv
  <2> QED
    BY <1>1, <1>2, <1>4, <2>3 DEF Sources
<1>5. CASE /\ mounted' = [mounted EXCEPT ![Busy] = "none"] /\ cut' = cut \cup {Busy}
           /\ backup' = (IF Ubuntu /\ pc = "first" THEN backup \cup {First} ELSE backup)
           /\ UNCHANGED iso
  <2>1. TypeInv' /\ FileInv' /\ RepoInv'
    BY <1>1, <1>5 DEF TypeInv, FileInv, RepoInv
  <2>2. Sources'
    BY <1>1, <1>5 DEF Sources, Busy
  <2> QED
    BY <1>2, <2>1, <2>2
<1> QED
  BY <1>3, <1>4, <1>5 DEF CutShort

LEMMA RebootKeeps == ASSUME IInv, NEW m \in Machine, Reboot(m) PROVE IInv'
<1> USE NodesOf DEF IInv
<1>1. /\ mounted' = [mounted EXCEPT ![m] = "none"] /\ rebooted' = rebooted \cup {m} /\ pc' = "idle"
      /\ UNCHANGED <<iso, repo, backup, targets, todo, pc, end, prev, cut, noFile>>
  BY DEF Reboot
<1>2. TypeInv' /\ FileInv' /\ RepoInv'
  BY <1>1 DEF TypeInv, FileInv, RepoInv
<1> QED
  BY <1>1, <1>2 DEF FirstInv, MountedIso, OnlineUpdates, Sources, At

LEMMA NextKeeps == IInv /\ [Next]_vars => IInv'
<1>1. IInv /\ Next => IInv'
  BY StartKeeps, TransferKeeps, MountRemoteKeeps, SetupFirstKeeps, SetupOtherKeeps,
     NoIsoKeeps, OnlineKeeps, CutShortKeeps, RebootKeeps DEF Next
<1>2. IInv /\ UNCHANGED vars => IInv'
  BY DEF IInv, TypeInv, FileInv, RepoInv, FirstInv, MountedIso, OnlineUpdates, Sources,
         First, At, vars, nodes
<1> QED
  BY <1>1, <1>2

\* Over any sequence of runs with and without --iso (Install, MountISO,
\* TransferFile) a node has the image mounted that its run was given, unless a
\* file of that name was there before or came from a run cut short.
THEOREM ImageMounted == Spec => []MountedIso
<1>1. IInv => MountedIso
  BY DEF IInv
<1> QED
  BY InitIInv, NextKeeps, <1>1, PTL DEF Spec

\* Package managers stumble only over what reboots and runs cut short leave, and
\* lose their own lists only to the image's (AddRepository, addCustomRepos).
THEOREM ListsStay == Spec => []ListsFound
<1>1. IInv => ListsFound
  BY DEF IInv, ListsFound, SomeSource, Sources
<1> QED
  BY InitIInv, NextKeeps, <1>1, PTL DEF Spec
=============================================================================
