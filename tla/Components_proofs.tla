--------------------------- MODULE Components_proofs ---------------------------
(***************************************************************************)
(* The components whose theorems are few: the waits for pods (PodWait),    *)
(* the deployment configuration (Config) and the virtual address of the    *)
(* control plane (Keepalived).  Each theorem is about one of them.         *)
(***************************************************************************)
EXTENDS PodWait, Config, TLAPS

(* --------------------------- waits for pods ---------------------------- *)

State == {"absent", "starting", "ready", "completed"}

TypeInv ==
  /\ pod \in [Pod -> State] /\ seen \in [Pod -> State] /\ last \in [Pod -> State]
  /\ api \in BOOLEAN /\ wait \in {"names", "count", "done", "failed"}
  /\ at \in 1 .. Len(PodNames) /\ notRunning \subseteq Named

\* Of the names the pass has come by, those not met are on the list.  This is
\* what makes an empty list at the end of a pass mean something.
PassInv ==
  wait = "names" =>
    \A i \in 1 .. at - 1 : seen[PodNames[i]] = "absent" => PodNames[i] \in notRunning

IInv == TypeInv /\ PassInv /\ WaitsSeen

LEMMA NamesLen == Len(PodNames) \in Nat /\ Len(PodNames) > 0
BY PodWaitAssumption

LEMMA NameOf == ASSUME NEW i \in 1 .. Len(PodNames)
                PROVE  PodNames[i] \in Named /\ PodNames[i] \in Pod
BY DEF Named, Pod

LEMMA InitIInv == WaitInit => IInv
BY NamesLen DEF WaitInit, IInv, TypeInv, PassInv, WaitsSeen, NamedPodsSeen, AllPodsReady, Blank, State

\* The pass over the names: one more name is dealt with, and when it was the
\* last one the list is what the whole pass has missed.
LEMMA GetPodKeeps == ASSUME IInv, GetPod PROVE IInv'
<1> USE DEF IInv, TypeInv, PassInv
<1> DEFINE p == PodNames[at]
           missing == Missing(p)
<1>1. p \in Named /\ p \in Pod /\ pod[p] \in State
  BY NameOf
<1>2. /\ wait = "names" /\ seen' = [seen EXCEPT ![p] = pod[p]] /\ UNCHANGED <<pod, api>>
      /\ seen' \in [Pod -> State] /\ missing \subseteq Named
  BY <1>1 DEF GetPod, Missing
<1>3. ASSUME NEW i \in 1 .. at, seen'[PodNames[i]] = "absent" PROVE PodNames[i] \in missing
  <2>1. PodNames[i] \in Pod /\ at \in Nat
    BY NamesLen, NameOf
  <2>2. CASE PodNames[i] = p
    BY <1>1, <1>2, <1>3, <2>2 DEF Missing
  <2>3. CASE PodNames[i] # p
    <3>1. i \in 1 .. at - 1 /\ seen[PodNames[i]] = "absent"
      BY <1>1, <1>2, <1>3, <2>1, <2>3
    <3> QED
      BY <1>2, <3>1 DEF Missing
  <2> QED
    BY <2>2, <2>3
<1>4. CASE at < Len(PodNames)
  <2>1. at' = at + 1 /\ notRunning' = missing /\ UNCHANGED <<wait, last>>
    BY <1>4 DEF GetPod
  <2>2. PassInv' /\ at' \in 1 .. Len(PodNames) /\ at' - 1 = at
    BY <1>2, <1>3, <1>4, <2>1, NamesLen
  <2> QED
    BY <1>2, <2>1, <2>2 DEF WaitsSeen, NamedPodsSeen, AllPodsReady
<1>5. CASE ~(at < Len(PodNames))
  <2>1. /\ at' = 1 /\ notRunning' = {} /\ at = Len(PodNames)
        /\ \/ missing = {} /\ wait' = "count" /\ last' = seen'
           \/ missing # {} /\ UNCHANGED <<wait, last>>
    BY <1>5, NamesLen DEF GetPod
  <2>2. PassInv' /\ TypeInv'
    BY <1>2, <2>1, NamesLen
  <2>3. NamedPodsSeen'
    <3>1. CASE missing = {} /\ wait' = "count" /\ last' = seen'
      BY <1>3, <2>1, <3>1 DEF NamedPodsSeen, Named
    <3>2. CASE missing # {} /\ UNCHANGED <<wait, last>>
      BY <1>2, <3>2 DEF NamedPodsSeen
    <3> QED
      BY <2>1, <3>1, <3>2
  <2>4. AllPodsReady'
    BY <1>2, <2>1 DEF AllPodsReady
  <2> QED
    BY <2>2, <2>3, <2>4 DEF WaitsSeen
<1> QED
  BY <1>4, <1>5

\* The second wait ends on one listing, and what is listed is ready.
LEMMA ListPodsKeeps == ASSUME IInv, ListPods PROVE IInv'
<1> USE DEF IInv, TypeInv, PassInv
<1>1. wait = "count" /\ seen' = pod /\ UNCHANGED <<pod, api, at, notRunning>>
  BY DEF ListPods
<1>2. CASE Listing /\ NotReadyPods = {}
  <2>1. wait' = "done" /\ last' = pod
    BY <1>2 DEF ListPods
  <2>2. AllPodsReady'
    BY <1>2, <2>1 DEF AllPodsReady, Listing, NotReadyPods, State
  <2> QED
    BY <1>1, <2>1, <2>2 DEF WaitsSeen, NamedPodsSeen
<1>3. CASE ~(Listing /\ NotReadyPods = {})
  BY <1>1, <1>3 DEF ListPods, WaitsSeen, NamedPodsSeen, AllPodsReady
<1> QED
  BY <1>2, <1>3

\* The pods and the API server touch nothing the waits remember.
LEMMA WorldKeeps == ASSUME IInv, Kubelet \/ Api \/ GetPodFails \/ UNCHANGED waitVars PROVE IInv'
<1> USE DEF IInv, TypeInv, PassInv, WaitsSeen, NamedPodsSeen, AllPodsReady
<1>1. CASE Kubelet
  <2>1. PICK p \in Pod, from \in SUBSET State, to \in State : Becomes(p, from, to)
    BY <1>1 DEF Kubelet, State
  <2>2. pod' \in [Pod -> State] /\ UNCHANGED <<api, wait, at, notRunning, seen, last>>
    BY <2>1 DEF Becomes
  <2> QED
    BY <2>2
<1>2. CASE Api
  BY <1>2 DEF Api
<1>3. CASE GetPodFails
  BY <1>3 DEF GetPodFails
<1>4. CASE UNCHANGED waitVars
  BY <1>4 DEF waitVars
<1> QED
  BY <1>1, <1>2, <1>3, <1>4

\* Whatever the pods and the API server do, the wait by name ends only when
\* every pod was met in one pass, and the wait for a namespace only on a listing
\* of ready pods (WaitUntilPodsRunningWithName, WaitUntilPodsRunning).
THEOREM NoWaitEndsEarly == WaitSpec => []WaitsSeen
<1>1. IInv /\ [WaitNext]_waitVars => IInv'
  BY GetPodKeeps, ListPodsKeeps, WorldKeeps DEF WaitNext, Waiter
<1>2. IInv => WaitsSeen
  BY DEF IInv
<1> QED
  BY InitIInv, <1>1, <1>2, PTL DEF WaitSpec

(* ---------------------- deployment configuration ----------------------- *)

\* What is known of the file and of the configuration in memory.
ConfType ==
  /\ file \in Config /\ cfg \in Config
  /\ said \in [nodes : SUBSET Hosts, insecure : SUBSET Registries, mirrors : SUBSET Registries]
  /\ toInsecure \subseteq Registries /\ toMirror \subseteq Registries
  /\ firstAsk \in BOOLEAN
  /\ pc \in {"idle", "docker", "finish", "work"} \cup Prompts

Asking == pc \notin {"idle", "confirm", "work"}

\* Until the run writes the file nobody touches it, and of what the operator
\* has set there the run keeps what it will write back.
FileInv ==
  /\ Asking => /\ prev = file /\ firstAsk = (file.nodes = {})
               /\ cfg.set = file.set /\ cfg.calicoUrl = file.calicoUrl
               /\ file.vip = "given" => cfg.vip = "given"
               /\ ~firstAsk => cfg.daemon = file.daemon
  /\ pc \in {"insecure", "mirror", "schedule"} => firstAsk
  /\ pc \in {"confirm", "work"} /\ ~stale => cfg = file

\* The answers that are in the configuration by the time they are needed: the
\* nodes, and keepalived's address, which is the placeholder only where
\* keepalived has been off.
AddressSet(c) ==
  c.vip # "none" /\ IF c.keepalived THEN c.routerId # 0 ELSE c.routerId = 1
AskedInv ==
  /\ pc = "more" => said.nodes # {}
  /\ pc \notin {"idle", "nodes", "more"} => cfg.nodes # {}
  /\ pc \in {"vip", "routerId"} => cfg.keepalived
  /\ pc = "routerId" => cfg.vip # "none"
  /\ pc \notin {"idle", "nodes", "more", "keepalived", "vip", "routerId"} =>
       /\ cfg.vip # "none"
       /\ ~aborted => AddressSet(cfg)
PlaceholderInv ==
  /\ file.vip = "local" => wasOff
  /\ pc # "idle" /\ cfg.vip = "local" => wasOff \/ ~cfg.keepalived
  /\ pc \in {"nodes", "more", "keepalived", "vip", "routerId"} /\ cfg.vip = "local" => wasOff

\* A file that a whole run wrote has everything, and a run over it changes
\* nothing.
Complete(f) == f.nodes # {} /\ AddressSet(f) /\ \A p \in Plain : f.set[p] # ""
SettledInv ==
  /\ settled => Complete(file)
  /\ settled /\ prev = file /\ pc # "idle" =>
       pc \in {"keepalived", "docker", "finish", "work"} /\ ~firstAsk /\ cfg = file

ConfInv == ConfType /\ FileInv /\ AskedInv /\ PlaceholderInv /\ SettledInv

LEMMA ConfInit == Init => ConfInv
<1> SUFFICES ASSUME Init PROVE ConfInv
  OBVIOUS
<1> USE DEF Init
<1>1. Empty \in Config
  BY DEF Empty, Config, Id, Vips, Plain
<1>2. ConfType
  BY <1>1 DEF ConfType, Nothing
<1>3. Empty.vip = "none" /\ Empty.nodes = {}
  BY DEF Empty
<1> QED
  BY <1>2, <1>3 DEF ConfInv, FileInv, AskedInv, PlaceholderInv, SettledInv, Asking

\* The operator changes one setting; no edit brings in the placeholder.
LEMMA EditedConfig ==
  ASSUME NEW f, f \in Config, NEW g, g \in Edited(f)
  PROVE  g \in Config /\ (g.vip = "local" => f.vip = "local")
<1>0. \/ \E s \in SUBSET Hosts : g = [f EXCEPT !.nodes = s]
      \/ \E p \in Plain, v \in {"", "custom"} : g = [f EXCEPT !.set[p] = v]
      \/ g = [f EXCEPT !.calicoUrl = "custom"] \/ g = [f EXCEPT !.docker = TRUE]
      \/ g = [f EXCEPT !.keepalived = ~f.keepalived]
      \/ g = [f EXCEPT !.routerId = 0] \/ g = [f EXCEPT !.routerId = 7]
      \/ g = [f EXCEPT !.vip = "given"]
      \/ g = [f EXCEPT !.vip = "none"] \/ g = [f EXCEPT !.daemon = "custom"]
      \/ g = [f EXCEPT !.schedule = TRUE]
  BY DEF Edited
<1>1. CASE \E s \in SUBSET Hosts : g = [f EXCEPT !.nodes = s]
  BY <1>1 DEF Config
<1>2. CASE \E p \in Plain, v \in {"", "custom"} : g = [f EXCEPT !.set[p] = v]
  <2>1. PICK p \in Plain, v \in {"", "custom"} : g = [f EXCEPT !.set[p] = v]
    BY <1>2
  <2> DEFINE s == [f.set EXCEPT ![p] = v]
  <2>2. g = [f EXCEPT !.set = s]
    BY <2>1
  <2>3. s \in [Plain -> {"", "default", "custom"}]
    BY DEF Config
  <2> HIDE DEF s
  <2> QED
    BY <2>2, <2>3 DEF Config
<1>3. CASE g = [f EXCEPT !.calicoUrl = "custom"]
  BY <1>3 DEF Config
<1>4. CASE g = [f EXCEPT !.docker = TRUE]
  BY <1>4 DEF Config
<1>5. CASE g = [f EXCEPT !.keepalived = ~f.keepalived]
  BY <1>5 DEF Config
<1>6. CASE g = [f EXCEPT !.routerId = 0] \/ g = [f EXCEPT !.routerId = 7]
  BY <1>6 DEF Config, Id
<1>7. CASE g = [f EXCEPT !.vip = "given"]
  BY <1>7 DEF Config, Vips
<1>8. CASE g = [f EXCEPT !.vip = "none"]
  BY <1>8 DEF Config, Vips
<1>9. CASE g = [f EXCEPT !.daemon = "custom"]
  BY <1>9 DEF Config
<1>10. CASE g = [f EXCEPT !.schedule = TRUE]
  BY <1>10 DEF Config
<1> QED
  BY <1>0, <1>1, <1>2, <1>3, <1>4, <1>5, <1>6, <1>7, <1>8, <1>9, <1>10

LEMMA EditConf == ASSUME ConfInv, Edit PROVE ConfInv'
<1> USE DEF ConfInv, ConfType
<1>1. /\ pc \in {"idle", "confirm"} /\ file' \in Edited(file)
      /\ settled' = FALSE /\ stale' = (pc = "confirm")
      /\ UNCHANGED <<cfg, prev, pc, firstAsk, toInsecure, toMirror, said, aborted, wasOff>>
  BY DEF Edit
<1>2. file' \in Config /\ (file'.vip = "local" => file.vip = "local")
  BY <1>1, EditedConfig
<1> QED
  BY <1>1, <1>2 DEF FileInv, AskedInv, PlaceholderInv, SettledInv, Asking

LEMMA StartConf == ASSUME ConfInv, Start PROVE ConfInv'
<1> USE DEF ConfInv, Start, ConfType
<1>1. ConfType'
  BY DEF Prompts, Nothing
<1> QED
  BY <1>1 DEF FileInv, AskedInv, PlaceholderInv, SettledInv, AddressSet, Complete,
     Asking, Prompts

\* The answers that only the process remembers.
LEMMA AskedConf ==
  ASSUME ConfInv, NEW r \in Hosts \cup Registries, NEW mirror \in BOOLEAN,
         \/ r \in Hosts /\ AskNode(r)
         \/ r \in Registries /\ (AskInsecure(r, mirror) \/ AskMirror(r))
  PROVE  ConfInv'
<1> USE DEF ConfInv
<1>1. CASE r \in Hosts /\ AskNode(r)
  <2>1. ConfType' /\ said'.nodes # {}
    BY <1>1 DEF AskNode, Quiet, ConfType, Prompts
  <2> QED
    BY <1>1, <2>1 DEF AskNode, Quiet, FileInv, AskedInv, PlaceholderInv,
       SettledInv, AddressSet, Complete, Asking, Prompts
<1>2. CASE r \in Registries /\ AskInsecure(r, mirror)
  <2>1. ConfType'
    BY <1>2 DEF AskInsecure, Quiet, ConfType, Prompts
  <2> QED
    BY <1>2, <2>1 DEF AskInsecure, Quiet, FileInv, AskedInv, PlaceholderInv,
       SettledInv, AddressSet, Complete, Asking, Prompts
<1>3. CASE r \in Registries /\ AskMirror(r)
  <2>1. ConfType'
    BY <1>3 DEF AskMirror, Quiet, ConfType, Prompts
  <2> QED
    BY <1>3, <2>1 DEF AskMirror, Quiet, FileInv, AskedInv, PlaceholderInv,
       SettledInv, AddressSet, Complete, Asking, Prompts
<1> QED
  BY <1>1, <1>2, <1>3

LEMMA EndConf == ASSUME ConfInv, Confirm \/ Stop \/ UNCHANGED vars PROVE ConfInv'
<1> USE DEF ConfInv
<1>1. CASE Confirm \/ Stop
  <2>1. ConfType'
    BY <1>1 DEF Confirm, Stop, Quiet, ConfType, Prompts
  <2>2. /\ UNCHANGED <<cfg, said, aborted, file, prev, firstAsk, settled, stale, wasOff>>
        /\ \/ pc = "confirm" /\ pc' = "work"
           \/ pc' = "idle"
    BY <1>1 DEF Confirm, Stop, Quiet
  <2>3. FileInv'
    BY <2>2 DEF FileInv, Asking, Prompts
  <2>4. AskedInv'
    BY <2>2 DEF AskedInv, AddressSet, Asking, Prompts
  <2>5. PlaceholderInv'
    BY <2>2 DEF PlaceholderInv, Prompts
  <2>6. SettledInv'
    BY <2>2 DEF SettledInv, FileInv, Complete, Prompts
  <2> QED
    BY <2>1, <2>3, <2>4, <2>5, <2>6
<1>2. CASE UNCHANGED vars
  <2>1. UNCHANGED <<cfg, said, toInsecure, toMirror, aborted, file, prev, pc,
                  firstAsk, settled, stale, wasOff>>
    BY <1>2 DEF vars, run
  <2>2. ConfType'
    BY <2>1 DEF ConfType
  <2>3. FileInv'
    BY <2>1 DEF FileInv, Asking, Prompts
  <2>4. AskedInv'
    BY <2>1 DEF AskedInv, AddressSet, Asking, Prompts
  <2>5. PlaceholderInv'
    BY <2>1 DEF PlaceholderInv, Prompts
  <2>6. SettledInv'
    BY <2>1 DEF SettledInv, Complete, Prompts
  <2> QED
    BY <2>2, <2>3, <2>4, <2>5, <2>6
<1> QED
  BY <1>1, <1>2

\* The nodes are put into the configuration once the operator has no more.
LEMMA AskMoreConf == ASSUME ConfInv, NEW yes \in BOOLEAN, AskMore(yes) PROVE ConfInv'
<1> USE DEF ConfInv
<1>1. CASE yes
  <2>1. ConfType'
    BY <1>1 DEF AskMore, Quiet, ConfType, Prompts
  <2> QED
    BY <1>1, <2>1 DEF AskMore, Quiet, FileInv, AskedInv, PlaceholderInv,
       SettledInv, AddressSet, Complete, Asking, Prompts
<1>2. CASE ~yes
  <2>1. /\ pc = "more" /\ pc' = "keepalived" /\ Quiet
        /\ UNCHANGED <<said, toInsecure, toMirror, aborted>>
        /\ cfg' = [cfg EXCEPT !.nodes = said.nodes, !.selinux = Rpm \/ @]
    BY <1>2 DEF AskMore
  <2>2. /\ cfg' \in Config /\ cfg'.nodes = said.nodes
        /\ cfg'.vip = cfg.vip /\ cfg'.keepalived = cfg.keepalived /\ cfg'.routerId = cfg.routerId
        /\ cfg'.set = cfg.set /\ cfg'.calicoUrl = cfg.calicoUrl /\ cfg'.daemon = cfg.daemon
    BY <2>1 DEF ConfType, Config
  <2>3. ConfType'
    BY <2>1, <2>2 DEF ConfType, Prompts, Quiet
  <2> QED
    BY <2>1, <2>2, <2>3 DEF Quiet, FileInv, AskedInv, PlaceholderInv, SettledInv,
       AddressSet, Complete, Asking, Prompts
<1> QED
  BY <1>1, <1>2

\* The placeholder comes in only where keepalived is off, and an address that
\* is there stays.
LEMMA AskKeepalivedConf ==
  ASSUME ConfInv, NEW yes \in BOOLEAN, NEW abort \in BOOLEAN,
         AskKeepalived(yes, abort)
  PROVE  ConfInv'
<1> USE DEF ConfInv
<1> DEFINE c == IF firstAsk THEN [cfg EXCEPT !.keepalived = yes] ELSE cfg
           asked == IF c.vip = "none" THEN "vip"
                    ELSE IF c.routerId = 0 THEN "routerId" ELSE "docker"
<1>1. /\ pc = "keepalived" /\ aborted' = (aborted \/ abort) /\ (abort => firstAsk)
      /\ UNCHANGED <<said, toInsecure, toMirror>> /\ Quiet
      /\ \/ /\ c.keepalived /\ cfg' = c
            /\ pc' = asked
         \/ ~c.keepalived /\ cfg' = KeepalivedOff(c) /\ pc' = "docker"
  BY DEF AskKeepalived
<1>2. /\ c \in Config /\ c.vip = cfg.vip /\ c.routerId = cfg.routerId /\ c.nodes = cfg.nodes
      /\ c.set = cfg.set /\ c.calicoUrl = cfg.calicoUrl /\ c.daemon = cfg.daemon
      /\ ~firstAsk => c = cfg
  BY DEF ConfType, Config
<1> HIDE DEF c
<1>3. CASE c.keepalived /\ cfg' = c /\ pc' = asked
  <2>1. ConfType'
    BY <1>1, <1>2, <1>3 DEF ConfType, Prompts, Quiet
  <2> QED
    BY <1>1, <1>2, <1>3, <2>1 DEF Quiet, FileInv, AskedInv, PlaceholderInv,
       SettledInv, AddressSet, Complete, Asking, Prompts
<1>4. CASE ~c.keepalived /\ cfg' = KeepalivedOff(c) /\ pc' = "docker"
  <2>1. /\ cfg' \in Config /\ cfg'.vip = (IF c.vip = "none" THEN "local" ELSE c.vip) /\ cfg'.routerId = 1
        /\ cfg'.keepalived = c.keepalived /\ cfg'.nodes = c.nodes
        /\ cfg'.set = c.set /\ cfg'.calicoUrl = c.calicoUrl /\ cfg'.daemon = c.daemon
    BY <1>2, <1>4 DEF KeepalivedOff, Config, Vips, Id
  <2>2. c.vip # "none" /\ c.routerId = 1 => cfg' = c
    BY <1>2, <1>4 DEF KeepalivedOff, Config
  <2>3. ConfType'
    BY <1>1, <2>1, <1>4 DEF ConfType, Prompts, Quiet
  <2> QED
    BY <1>1, <1>2, <1>4, <2>1, <2>2, <2>3 DEF Quiet, FileInv, AskedInv,
       PlaceholderInv, SettledInv, AddressSet, Complete, Asking, Prompts
<1> QED
  BY <1>1, <1>3, <1>4

\* The address of keepalived, and the router id alone.
LEMMA AskVipConf ==
  ASSUME ConfInv, NEW abort \in BOOLEAN, AskVip \/ AskRouterId(abort)
  PROVE  ConfInv'
<1> USE DEF ConfInv
<1>1. /\ pc' = "docker" /\ UNCHANGED <<said, toInsecure, toMirror>> /\ Quiet
      /\ \/ pc = "vip" /\ cfg' = [cfg EXCEPT !.vip = "given", !.routerId = 7] /\ aborted' = aborted
         \/ /\ pc = "routerId" /\ aborted' = (aborted \/ abort)
            /\ cfg' = [cfg EXCEPT !.routerId = IF abort THEN 0 ELSE 7]
  BY DEF AskVip, AskRouterId
<1>2. /\ cfg' \in Config /\ cfg'.nodes = cfg.nodes /\ cfg'.keepalived = cfg.keepalived
      /\ cfg'.set = cfg.set /\ cfg'.calicoUrl = cfg.calicoUrl /\ cfg'.daemon = cfg.daemon
      /\ \/ pc = "vip" /\ cfg'.vip = "given" /\ cfg'.routerId = 7 /\ aborted' = aborted
         \/ /\ pc = "routerId" /\ cfg'.vip = cfg.vip
            /\ aborted' \/ cfg'.routerId = 7
  BY <1>1 DEF ConfType, Config, Vips, Id
<1>3. ConfType'
  BY <1>1, <1>2 DEF ConfType, Prompts, Quiet
<1>4. FileInv'
  BY <1>1, <1>2 DEF Quiet, FileInv, Asking, Prompts
<1>5. AskedInv'
  BY <1>1, <1>2 DEF Quiet, AskedInv, AddressSet
<1>6. PlaceholderInv'
  BY <1>1, <1>2 DEF Quiet, PlaceholderInv, AskedInv
<1>7. SettledInv'
  BY <1>1, <1>2 DEF Quiet, SettledInv
<1> QED
  BY <1>3, <1>4, <1>5, <1>6, <1>7

\* Docker is switched off only where its repository is missing, which it is not
\* in a file that has everything.
LEMMA DockerDefaultsConf == ASSUME ConfInv, DockerDefaults PROVE ConfInv'
<1> USE DEF ConfInv
<1>1. /\ pc = "docker" /\ pc' = (IF firstAsk THEN "insecure" ELSE "finish")
      /\ UNCHANGED <<said, toInsecure, toMirror, aborted>> /\ Quiet
      /\ cfg' = [cfg EXCEPT !.docker = @ /\ cfg.set["repo"] # ""]
  BY DEF DockerDefaults
<1>2. /\ cfg' \in Config /\ cfg'.nodes = cfg.nodes /\ cfg'.keepalived = cfg.keepalived
      /\ cfg'.vip = cfg.vip /\ cfg'.routerId = cfg.routerId
      /\ cfg'.set = cfg.set /\ cfg'.calicoUrl = cfg.calicoUrl /\ cfg'.daemon = cfg.daemon
  BY <1>1 DEF ConfType, Config
<1>3. cfg.set["repo"] # "" => cfg' = cfg
  BY <1>1 DEF ConfType, Config
<1>4. ConfType'
  BY <1>1, <1>2 DEF ConfType, Prompts, Quiet
<1>5. "repo" \in Plain
  BY DEF Plain
<1> QED
  BY <1>1, <1>2, <1>3, <1>4, <1>5 DEF Quiet, FileInv, AskedInv, PlaceholderInv,
     SettledInv, AddressSet, Complete, Asking, Prompts

\* The answers about registries and about the masters' taint.
LEMMA RegistryConf ==
  ASSUME ConfInv, NEW yes \in BOOLEAN,
         NoMoreInsecure \/ NoMoreMirrors \/ AskSchedule(yes)
  PROVE  ConfInv'
<1> USE DEF ConfInv
<1>1. /\ pc \in {"insecure", "mirror", "schedule"} /\ pc' \in {"mirror", "schedule", "finish"}
      /\ UNCHANGED <<said, toInsecure, toMirror, aborted>> /\ Quiet
      /\ \/ cfg' = [cfg EXCEPT !.insecure = toInsecure]
         \/ cfg' = [cfg EXCEPT !.mirrors = toMirror, !.daemon = "default"]
         \/ cfg' = [cfg EXCEPT !.schedule = yes]
  BY DEF NoMoreInsecure, NoMoreMirrors, AskSchedule
<1>2. /\ cfg' \in Config /\ cfg'.nodes = cfg.nodes /\ cfg'.keepalived = cfg.keepalived
      /\ cfg'.vip = cfg.vip /\ cfg'.routerId = cfg.routerId
      /\ cfg'.set = cfg.set /\ cfg'.calicoUrl = cfg.calicoUrl
  <2>1. toInsecure \subseteq Registries /\ toMirror \subseteq Registries /\ cfg \in Config
    BY DEF ConfType
  <2>2. CASE cfg' = [cfg EXCEPT !.insecure = toInsecure]
    BY <2>1, <2>2 DEF Config
  <2>3. CASE cfg' = [cfg EXCEPT !.mirrors = toMirror, !.daemon = "default"]
    BY <2>1, <2>3 DEF Config
  <2>4. CASE cfg' = [cfg EXCEPT !.schedule = yes]
    BY <2>1, <2>4 DEF Config
  <2> QED
    BY <1>1, <2>2, <2>3, <2>4
<1>3. ConfType'
  BY <1>1, <1>2 DEF ConfType, Prompts, Quiet
<1> QED
  BY <1>1, <1>2, <1>3 DEF Quiet, FileInv, AskedInv, PlaceholderInv, SettledInv,
     AddressSet, Complete, Asking, Prompts

\* Filling in leaves no setting empty, touches no other one, and changes
\* nothing where none was empty.
FillsIn(c, d) ==
  /\ d \in Config
  /\ \A p \in Plain : d.set[p] # "" /\ (c.set[p] # "" => d.set[p] = c.set[p])
  /\ d.nodes = c.nodes /\ d.keepalived = c.keepalived /\ d.vip = c.vip
  /\ d.routerId = c.routerId /\ d.daemon = c.daemon /\ d.docker = c.docker
  /\ d.selinux = c.selinux /\ d.insecure = c.insecure /\ d.mirrors = c.mirrors
  /\ d.schedule = c.schedule
  /\ c.calicoUrl = "custom" => "custom" \in {d.calicoUrl, d.set["calico"]}
  /\ (\A p \in Plain : c.set[p] # "") => d = c

LEMMA FilledFillsIn == ASSUME NEW c, c \in Config PROVE FillsIn(c, Filled(c))
<1> DEFINE s == [p \in Plain |-> IF c.set[p] # "" THEN c.set[p]
                 ELSE IF p = "calico" /\ c.calicoUrl # "" THEN c.calicoUrl ELSE "default"]
           u == IF c.set["calico"] = "" THEN "" ELSE c.calicoUrl
           d == Filled(c)
<1>1. d = [c EXCEPT !.set = s, !.calicoUrl = u]
  BY DEF Filled
<1>2. s \in [Plain -> {"", "default", "custom"}] /\ u \in {"", "custom"}
  BY DEF Config
<1>3. \A p \in Plain : s[p] # "" /\ (c.set[p] # "" => s[p] = c.set[p])
  BY DEF Config
<1>4. "calico" \in Plain /\ (c.calicoUrl = "custom" => "custom" \in {u, s["calico"]})
  BY DEF Plain
<1>5. (\A p \in Plain : c.set[p] # "") => s = c.set /\ u = c.calicoUrl
  BY <1>4 DEF Config
<1> HIDE DEF s, u, d
<1>6. d \in Config
  BY <1>1, <1>2 DEF Config
<1>7. /\ d.set = s /\ d.calicoUrl = u
      /\ d.nodes = c.nodes /\ d.keepalived = c.keepalived /\ d.vip = c.vip
      /\ d.routerId = c.routerId /\ d.daemon = c.daemon /\ d.docker = c.docker
      /\ d.selinux = c.selinux /\ d.insecure = c.insecure /\ d.mirrors = c.mirrors
      /\ d.schedule = c.schedule
  BY <1>1, <1>2 DEF Config
<1>8. ASSUME s = c.set, u = c.calicoUrl PROVE d = c
  BY <1>1, <1>8 DEF Config
<1>9. FillsIn(c, d)
  BY <1>3, <1>4, <1>5, <1>6, <1>7, <1>8 DEF FillsIn
<1> QED
  BY <1>9 DEF d

LEMMA FinishConf == ASSUME ConfInv, Finish PROVE ConfInv'
<1> USE DEF ConfInv
<1>1. /\ pc = "finish" /\ cfg' = Filled(cfg)
      /\ UNCHANGED <<prev, firstAsk, toInsecure, toMirror, said, aborted, stale>>
      /\ \/ cfg' = prev /\ pc' = "work" /\ UNCHANGED <<file, settled, wasOff>>
         \/ /\ cfg' # prev /\ pc' = "confirm" /\ file' = cfg' /\ settled' = ~aborted
            /\ wasOff' = (wasOff \/ ~cfg'.keepalived)
  BY DEF Finish
<1>2. /\ cfg' \in Config /\ \A p \in Plain : cfg'.set[p] # ""
      /\ cfg'.nodes = cfg.nodes /\ cfg'.keepalived = cfg.keepalived /\ cfg'.vip = cfg.vip
      /\ cfg'.routerId = cfg.routerId
      /\ (\A p \in Plain : cfg.set[p] # "") => cfg' = cfg
  <2>1. cfg \in Config
    BY DEF ConfType
  <2>2. FillsIn(cfg, cfg')
    BY <1>1, <2>1, FilledFillsIn
  <2> QED
    BY <2>2 DEF FillsIn
<1>3. ConfType'
  BY <1>1, <1>2 DEF ConfType, Prompts
<1>4. FileInv'
  BY <1>1 DEF FileInv, Asking, Prompts
<1>5. AskedInv' /\ PlaceholderInv'
  BY <1>1, <1>2 DEF AskedInv, PlaceholderInv, AddressSet, FileInv, Asking
<1>6. SettledInv'
  <2>1. ~aborted => Complete(cfg')
    BY <1>1, <1>2 DEF AskedInv, AddressSet, Complete
  <2>2. CASE cfg' = prev /\ pc' = "work" /\ UNCHANGED <<file, settled, wasOff>>
    <3>1. settled => cfg' = cfg /\ cfg = file /\ ~firstAsk
      BY <1>1, <1>2, <2>2 DEF SettledInv, Complete, FileInv, Asking
    <3> QED
      BY <1>1, <2>2, <3>1 DEF SettledInv
  <2>3. CASE cfg' # prev /\ pc' = "confirm" /\ file' = cfg' /\ settled' = ~aborted
    BY <1>1, <2>1, <2>3 DEF SettledInv
  <2> QED
    BY <1>1, <2>2, <2>3
<1> QED
  BY <1>3, <1>4, <1>5, <1>6

LEMMA ConfNext == ConfInv /\ [Next]_vars => ConfInv'
<1> SUFFICES ASSUME ConfInv, [Next]_vars PROVE ConfInv'
  OBVIOUS
<1>1. CASE \E h \in Hosts : AskNode(h)
  BY <1>1, AskedConf
<1>2. CASE \E r \in Registries, mirror \in BOOLEAN : AskInsecure(r, mirror)
  BY <1>2, AskedConf
<1>3. CASE \E r \in Registries : AskMirror(r)
  <2>1. PICK r \in Registries : AskMirror(r)
    BY <1>3
  <2>2. TRUE \in BOOLEAN /\ r \in Hosts \cup Registries
    OBVIOUS
  <2> QED
    BY <2>1, <2>2, AskedConf
<1>4. CASE Confirm \/ Stop \/ UNCHANGED vars
  BY <1>4, EndConf
<1>5. CASE \E yes \in BOOLEAN : AskMore(yes) \/ AskSchedule(yes)
  BY <1>5, AskMoreConf, RegistryConf
<1>6. CASE \E yes, abort \in BOOLEAN : AskKeepalived(yes, abort)
  BY <1>6, AskKeepalivedConf
<1>7. CASE AskVip \/ \E abort \in BOOLEAN : AskRouterId(abort)
  BY <1>7, AskVipConf
<1>8. CASE NoMoreInsecure \/ NoMoreMirrors
  BY <1>8, RegistryConf
<1> QED
  BY <1>1, <1>2, <1>3, <1>4, <1>5, <1>6, <1>7, <1>8, EditConf, StartConf,
     DockerDefaultsConf, FinishConf DEF Next

\* The facts about the states of the deployment configuration.
LEMMA ConfSafe == ConfInv => Settled /\ WorksWithFile /\ KeepalivedGiven
<1> SUFFICES ASSUME ConfInv PROVE Settled /\ WorksWithFile /\ KeepalivedGiven
  OBVIOUS
<1>1. Settled /\ WorksWithFile
  BY DEF ConfInv, FileInv, SettledInv, Settled, WorksWithFile, Prompts
<1>2. cfg.vip \in Vips
  BY DEF ConfInv, ConfType, Config
<1> QED
  BY <1>1, <1>2 DEF ConfInv, AskedInv, PlaceholderInv, KeepalivedGiven, Vips

\* A run over a file that a whole run wrote and nobody has edited asks nothing
\* but whether keepalived is wanted, and changes nothing: what
\* askDeploymentConfig, checkDeploymentConfig and the defaults make of such a
\* file is that file (ReadConfig).
THEOREM SettledFileStands == Spec => []Settled
BY ConfInit, ConfNext, ConfSafe, PTL DEF Spec

\* The configuration a run works with is the file's, unless the file was edited
\* while the run waited for the confirmation: every change is written before
\* (ReadConfig, saveDeploymentConfig).
THEOREM RunsOnFile == Spec => []WorksWithFile
BY ConfInit, ConfNext, ConfSafe, PTL DEF Spec

\* A run works with keepalived only on an address the operator gave, but for a
\* file that was once written with keepalived off (askKeepAliveD).
THEOREM AddressGiven == Spec => []KeepalivedGiven
BY ConfInit, ConfNext, ConfSafe, PTL DEF Spec

\* What the run has not asked for it has from the file.  It asks for keepalived's
\* address, and everything else only where the file names no nodes.
FromFile ==
  /\ cfg.nodes = file.nodes /\ cfg.selinux = file.selinux /\ cfg.keepalived = file.keepalived
  /\ cfg.daemon = file.daemon /\ cfg.insecure = file.insecure /\ cfg.mirrors = file.mirrors
  /\ cfg.schedule = file.schedule
  /\ file.keepalived /\ file.vip # "none" /\ file.routerId # 0 =>
       cfg.vip = file.vip /\ cfg.routerId = file.routerId /\ pc \notin {"vip", "routerId"}

KeptInv ==
  /\ pc \in {"nodes", "more"} => firstAsk
  /\ Asking => /\ file.docker /\ file.set["repo"] # "" => cfg.docker
               /\ ~firstAsk => FromFile

LEMMA KeptInit == Init => KeptInv
BY DEF Init, KeptInv, Asking

LEMMA KeptNext == ASSUME ConfInv, KeptInv, [Next]_vars PROVE KeptInv'
<1> USE DEF KeptInv, FromFile, Asking
<1>1. /\ cfg \in Config /\ firstAsk \in BOOLEAN
      /\ said \in [nodes : SUBSET Hosts, insecure : SUBSET Registries,
                   mirrors : SUBSET Registries]
      /\ Asking => firstAsk = (file.nodes = {}) /\ cfg.set = file.set
      /\ pc \in {"insecure", "mirror", "schedule"} => firstAsk
  BY DEF ConfInv, ConfType, FileInv
<1>2. CASE Edit \/ Confirm \/ Stop \/ UNCHANGED vars
  BY <1>2 DEF Edit, Confirm, Stop, Quiet, vars, run
<1>3. CASE Start
  BY <1>3 DEF Start
<1>4. CASE \/ \E h \in Hosts : AskNode(h)
           \/ \E r \in Registries, mirror \in BOOLEAN : AskInsecure(r, mirror)
           \/ \E r \in Registries : AskMirror(r)
  <2>1. /\ UNCHANGED <<cfg, file, firstAsk>> /\ firstAsk /\ pc \in {"nodes", "insecure", "mirror"}
        /\ pc' \in {"more", "insecure", "mirror"}
    BY <1>1, <1>4 DEF AskNode, AskInsecure, AskMirror, Quiet
  <2> QED
    BY <2>1
<1>5. CASE \/ \E yes \in BOOLEAN : AskMore(yes) \/ AskSchedule(yes)
           \/ NoMoreInsecure \/ NoMoreMirrors
  <2>1. PICK yes \in BOOLEAN :
          AskMore(yes) \/ AskSchedule(yes) \/ NoMoreInsecure \/ NoMoreMirrors
    BY <1>5
  <2>2. /\ UNCHANGED <<file, firstAsk>> /\ pc \in {"more", "schedule", "insecure", "mirror"}
        /\ pc' \in {"nodes", "keepalived", "finish", "mirror", "schedule"}
    BY <2>1 DEF AskMore, AskSchedule, NoMoreInsecure, NoMoreMirrors, Quiet
  <2>3. cfg'.docker = cfg.docker
    <3>1. CASE AskMore(yes)
      BY <1>1, <3>1 DEF AskMore, Config
    <3>2. CASE AskSchedule(yes)
      BY <1>1, <3>2 DEF AskSchedule, Config
    <3>3. CASE NoMoreInsecure
      BY <1>1, <3>3 DEF NoMoreInsecure, Config
    <3>4. CASE NoMoreMirrors
      BY <1>1, <3>4 DEF NoMoreMirrors, Config
    <3> QED
      BY <2>1, <3>1, <3>2, <3>3, <3>4
  <2>4. firstAsk
    BY <1>1, <2>2
  <2> QED
    BY <2>2, <2>3, <2>4
<1>6. CASE \E yes, abort \in BOOLEAN : AskKeepalived(yes, abort)
  <2>1. PICK yes \in BOOLEAN, abort \in BOOLEAN : AskKeepalived(yes, abort)
    BY <1>6
  <2> DEFINE c == IF firstAsk THEN [cfg EXCEPT !.keepalived = yes] ELSE cfg
  <2>2. c \in Config /\ c.docker = cfg.docker
    BY <1>1 DEF Config
  <2>3. /\ pc = "keepalived" /\ pc' \in {"vip", "routerId", "docker"}
        /\ UNCHANGED <<file, firstAsk>> /\ (cfg' = c \/ cfg' = KeepalivedOff(c))
    BY <2>1 DEF AskKeepalived, Quiet
  <2> HIDE DEF c
  <2>4. KeepalivedOff(c).docker = c.docker
    BY <2>2 DEF KeepalivedOff, Config
  <2>5. /\ pc = "keepalived" /\ pc' \in {"vip", "routerId", "docker"}
        /\ UNCHANGED <<file, firstAsk>> /\ cfg'.docker = cfg.docker
    BY <2>2, <2>3, <2>4
  <2>6. ASSUME ~firstAsk PROVE FromFile'
    <3>1. FromFile
      BY <2>5, <2>6
    <3>2. CASE cfg.keepalived
      <4>1. cfg' = cfg /\ (cfg.vip # "none" /\ cfg.routerId # 0 => pc' = "docker")
        BY <2>1, <2>6, <3>2 DEF AskKeepalived
      <4> QED
        BY <2>5, <3>1, <4>1
    <3>3. CASE ~cfg.keepalived
      <4>1. cfg' = KeepalivedOff(cfg)
        BY <2>1, <2>6, <3>3 DEF AskKeepalived
      <4>2. /\ cfg'.nodes = cfg.nodes /\ cfg'.selinux = cfg.selinux
            /\ cfg'.keepalived = cfg.keepalived /\ cfg'.daemon = cfg.daemon
            /\ cfg'.insecure = cfg.insecure /\ cfg'.mirrors = cfg.mirrors
            /\ cfg'.schedule = cfg.schedule
        BY <1>1, <4>1 DEF KeepalivedOff, Config
      <4> QED
        BY <2>5, <3>1, <3>3, <4>2
    <3> QED
      BY <3>2, <3>3
  <2> QED
    BY <2>5, <2>6
<1>7. CASE AskVip \/ \E abort \in BOOLEAN : AskRouterId(abort)
  <2>1. /\ pc \in {"vip", "routerId"} /\ pc' = "docker" /\ UNCHANGED <<file, firstAsk>>
    BY <1>7 DEF AskVip, AskRouterId, Quiet
  <2>2. \/ cfg' = [cfg EXCEPT !.vip = "given", !.routerId = 7]
        \/ \E id \in {0, 7} : cfg' = [cfg EXCEPT !.routerId = id]
    BY <1>7 DEF AskVip, AskRouterId
  <2>3. /\ cfg'.docker = cfg.docker /\ cfg'.nodes = cfg.nodes /\ cfg'.selinux = cfg.selinux
        /\ cfg'.keepalived = cfg.keepalived /\ cfg'.daemon = cfg.daemon
        /\ cfg'.insecure = cfg.insecure /\ cfg'.mirrors = cfg.mirrors
        /\ cfg'.schedule = cfg.schedule
    <3>1. CASE cfg' = [cfg EXCEPT !.vip = "given", !.routerId = 7]
      BY <1>1, <3>1 DEF Config
    <3>2. CASE \E id \in {0, 7} : cfg' = [cfg EXCEPT !.routerId = id]
      BY <1>1, <3>2 DEF Config
    <3> QED
      BY <2>2, <3>1, <3>2
  <2> QED
    BY <2>1, <2>3
<1>8. CASE DockerDefaults
  <2>1. /\ pc = "docker" /\ pc' \in {"insecure", "finish"} /\ UNCHANGED <<file, firstAsk>>
        /\ cfg'.docker = (cfg.docker /\ cfg.set["repo"] # "")
        /\ cfg'.nodes = cfg.nodes /\ cfg'.selinux = cfg.selinux
        /\ cfg'.keepalived = cfg.keepalived /\ cfg'.daemon = cfg.daemon
        /\ cfg'.insecure = cfg.insecure /\ cfg'.mirrors = cfg.mirrors
        /\ cfg'.schedule = cfg.schedule
        /\ cfg'.vip = cfg.vip /\ cfg'.routerId = cfg.routerId
    BY <1>1, <1>8 DEF DockerDefaults, Quiet, Config
  <2> QED
    BY <1>1, <2>1
<1>9. CASE Finish
  BY <1>9 DEF Finish
<1> QED
  BY <1>2, <1>3, <1>4, <1>5, <1>6, <1>7, <1>8, <1>9 DEF Next

\* Finish writes the configuration of the run, which has the settings of the
\* file; the defaults leave alone what is set.
LEMMA FinishKeeps == ASSUME ConfInv, KeptInv, Finish PROVE SettingsKept(file, file')
<1>1. /\ pc = "finish" /\ cfg' = Filled(cfg)
      /\ \/ cfg' = prev /\ file' = file
         \/ file' = cfg'
  BY DEF Finish
<1>2. /\ prev = file /\ cfg \in Config /\ firstAsk = (file.nodes = {})
      /\ cfg.set = file.set /\ cfg.calicoUrl = file.calicoUrl
      /\ file.vip = "given" => cfg.vip = "given"
  BY <1>1 DEF ConfInv, ConfType, FileInv, Asking
<1>3. /\ file.docker /\ file.set["repo"] # "" => cfg.docker
      /\ file.nodes # {} => FromFile
  BY <1>1, <1>2 DEF KeptInv, Asking
<1>4. FillsIn(cfg, cfg')
  BY <1>1, <1>2, FilledFillsIn
<1>5. file' = cfg'
  BY <1>1, <1>2
<1>6. /\ \A p \in Plain : file.set[p] = "custom" => file'.set[p] = "custom"
      /\ file.calicoUrl = "custom" => "custom" \in {file'.calicoUrl, file'.set["calico"]}
      /\ file.vip = "given" => file'.vip = "given"
      /\ file.docker /\ file.set["repo"] # "" => file'.docker
  BY <1>2, <1>3, <1>4, <1>5 DEF FillsIn
<1>7. ASSUME file.nodes # {}
      PROVE  /\ file.nodes = file'.nodes /\ file.selinux = file'.selinux
             /\ file.keepalived = file'.keepalived
             /\ file.daemon = file'.daemon /\ file.insecure = file'.insecure
             /\ file.mirrors = file'.mirrors /\ file.schedule = file'.schedule
             /\ file.keepalived /\ file.vip # "none" /\ file.routerId # 0 =>
                  file.routerId = file'.routerId
  BY <1>3, <1>4, <1>5, <1>7 DEF FillsIn, FromFile
<1> QED
  BY <1>6, <1>7 DEF SettingsKept

\* Rewriting the file keeps every setting the operator made in it, but for docker
\* without the address of a repository, the router id where keepalived is off
\* or has no address, and, where the file names no nodes, what the first
\* questions decide (askDeploymentConfig, readDeploymentConfig).
THEOREM OwnSettings == Spec => OwnSettingsKept
<1>1. ASSUME ConfInv, KeptInv, [Next]_vars
      PROVE  [pc = "finish" => SettingsKept(file, file')]_vars
  <2> SUFFICES ASSUME pc = "finish", ~UNCHANGED vars PROVE SettingsKept(file, file')
    OBVIOUS
  <2>1. Finish \/ UNCHANGED file
    BY <1>1 DEF Next, Edit, Start, AskNode, AskMore,
       AskKeepalived, AskVip, AskRouterId, DockerDefaults,
       AskInsecure, NoMoreInsecure, AskMirror, NoMoreMirrors,
       AskSchedule, Confirm, Stop, Quiet
  <2>2. CASE UNCHANGED file
    BY <2>2 DEF SettingsKept
  <2> QED
    BY <1>1, <2>1, <2>2, FinishKeeps
<1>2. ConfInv /\ KeptInv /\ [Next]_vars => KeptInv'
  BY KeptNext
<1> QED
  BY ConfInit, ConfNext, KeptInit, <1>1, <1>2, PTL DEF Spec, OwnSettingsKept

\* What was entered is in the list it was entered in, from the prompt on.
AnswerInv ==
  /\ firstAsk /\ pc \notin {"idle", "nodes", "more"} => cfg.nodes = said.nodes
  /\ pc \in {"nodes", "more", "keepalived", "vip", "routerId", "docker", "insecure"} =>
       toInsecure = said.insecure
  /\ firstAsk /\ pc \in {"mirror", "schedule", "finish", "confirm", "work"} =>
       cfg.insecure = said.insecure

LEMMA AnswerInit == Init => AnswerInv
BY DEF Init, AnswerInv

LEMMA AnswerNext == ASSUME ConfInv, AnswerInv, [Next]_vars PROVE AnswerInv'
<1>1. /\ cfg \in Config /\ firstAsk \in BOOLEAN
      /\ said \in [nodes : SUBSET Hosts, insecure : SUBSET Registries,
                   mirrors : SUBSET Registries]
  BY DEF ConfInv, ConfType
<1>2. CASE Edit \/ Confirm \/ Stop \/ UNCHANGED vars
  BY <1>2 DEF AnswerInv, Edit, Confirm, Stop, Quiet, vars, run
<1>3. CASE Start
  BY <1>3 DEF AnswerInv, Start, Nothing
<1>4. CASE \E h \in Hosts : AskNode(h)
  <2>1. PICK h \in Hosts : AskNode(h)
    BY <1>4
  <2>2. /\ said'.insecure = said.insecure /\ pc = "nodes" /\ pc' = "more"
        /\ UNCHANGED toInsecure
    BY <1>1, <2>1 DEF AskNode
  <2> QED
    BY <2>2 DEF AnswerInv
<1>5. CASE \E yes \in BOOLEAN : AskMore(yes)
  <2>1. /\ pc = "more" /\ UNCHANGED <<said, toInsecure, firstAsk>>
        /\ \/ pc' = "nodes"
           \/ pc' = "keepalived" /\ cfg'.nodes = said.nodes
    BY <1>1, <1>5 DEF AskMore, Quiet, Config
  <2> QED
    BY <2>1 DEF AnswerInv
<1>6. CASE \/ \E yes, abort \in BOOLEAN : AskKeepalived(yes, abort)
           \/ AskVip \/ \E abort \in BOOLEAN : AskRouterId(abort)
  <2>1. /\ pc \in {"keepalived", "vip", "routerId"}
        /\ pc' \in {"vip", "routerId", "docker"}
        /\ cfg'.nodes = cfg.nodes /\ UNCHANGED <<said, toInsecure, firstAsk>>
    BY <1>1, <1>6 DEF AskKeepalived, KeepalivedOff, AskVip, AskRouterId,
       Quiet, Config
  <2> QED
    BY <2>1 DEF AnswerInv
<1>7. CASE DockerDefaults
  <2>1. /\ pc = "docker" /\ pc' = (IF firstAsk THEN "insecure" ELSE "finish")
        /\ cfg'.nodes = cfg.nodes /\ UNCHANGED <<said, toInsecure, firstAsk>>
    BY <1>1, <1>7 DEF DockerDefaults, Quiet, Config
  <2> QED
    BY <2>1 DEF AnswerInv
<1>8. CASE \E r \in Registries, mirror \in BOOLEAN : AskInsecure(r, mirror)
  <2>1. PICK r \in Registries, mirror \in BOOLEAN : AskInsecure(r, mirror)
    BY <1>8
  <2>2. /\ pc = "insecure" /\ UNCHANGED <<pc, cfg, firstAsk>>
        /\ said'.nodes = said.nodes /\ said'.insecure = said.insecure \cup {r}
        /\ toInsecure' = toInsecure \cup {r}
    BY <1>1, <2>1 DEF AskInsecure, Quiet
  <2> QED
    BY <2>2 DEF AnswerInv
<1>9. CASE NoMoreInsecure
  <2>1. /\ pc = "insecure" /\ pc' = "mirror" /\ UNCHANGED <<said, firstAsk>>
        /\ cfg'.nodes = cfg.nodes /\ cfg'.insecure = toInsecure
    BY <1>1, <1>9 DEF NoMoreInsecure, Quiet, Config
  <2> QED
    BY <2>1 DEF AnswerInv
<1>10. CASE \E r \in Registries : AskMirror(r)
  <2>1. PICK r \in Registries : AskMirror(r)
    BY <1>10
  <2>2. /\ pc = "mirror" /\ UNCHANGED <<pc, cfg, firstAsk>>
        /\ said'.nodes = said.nodes /\ said'.insecure = said.insecure
    BY <1>1, <2>1 DEF AskMirror, Quiet
  <2> QED
    BY <2>2 DEF AnswerInv
<1>11. CASE NoMoreMirrors \/ \E yes \in BOOLEAN : AskSchedule(yes)
  <2>1. /\ pc \in {"mirror", "schedule"} /\ pc' \in {"schedule", "finish"}
        /\ UNCHANGED <<said, firstAsk>>
        /\ cfg'.nodes = cfg.nodes /\ cfg'.insecure = cfg.insecure
    BY <1>1, <1>11 DEF NoMoreMirrors, AskSchedule, Quiet, Config
  <2> QED
    BY <2>1 DEF AnswerInv
<1>12. CASE Finish
  <2>1. /\ pc = "finish" /\ pc' \in {"work", "confirm"} /\ UNCHANGED <<said, firstAsk>>
        /\ cfg'.nodes = cfg.nodes /\ cfg'.insecure = cfg.insecure
    BY <1>1, <1>12 DEF Finish, Filled, Config
  <2> QED
    BY <2>1 DEF AnswerInv
<1> QED
  BY <1>2, <1>3, <1>4, <1>5, <1>6, <1>7, <1>8, <1>9, <1>10, <1>11, <1>12 DEF Next

\* The nodes and the insecure registries the operator entered, one prompt after
\* the other, are all in the configuration of the run (askDeploymentConfig); of
\* the mirrors this is not so.
THEOREM AnswersStay == Spec => []AnswersKept
<1>1. AnswerInv => AnswersKept
  BY DEF AnswerInv, AnswersKept
<1>2. ConfInv /\ AnswerInv /\ [Next]_vars => AnswerInv'
  BY AnswerNext
<1> QED
  BY ConfInit, ConfNext, AnswerInit, <1>1, <1>2, PTL DEF Spec

(* --------------------------- virtual address --------------------------- *)

CONSTANTS Configs, Address, Lookalikes, StartsAtBoot, MaxSetups, MaxFaults
VARIABLES files, check, holds, member, answers, config, targets, stage,
          position, conn, setups, faults

Vip == INSTANCE Keepalived WITH api <- answers, i <- position,
                                  MaxRuns <- MaxSetups, runs <- setups

CheckState == {"off", "blind", "new", "ok", "failed"}

\* Who has the address has keepalived running.
VipInv ==
  /\ check \in [Vip!Master -> CheckState] /\ holds \in [Vip!Master -> BOOLEAN]
  /\ conn \subseteq Vip!Master
  /\ \A m \in Vip!Master : holds[m] => Vip!Running(m)

LEMMA VipInit == Vip!Init => VipInv
BY DEF Vip!Init, VipInv, CheckState

\* The command of a restart, and keepalived that starts at boot.
LEMMA BeginsKeeps == ASSUME VipInv, NEW m \in Vip!Master, Vip!Begins(m)
                     PROVE  /\ check' \in [Vip!Master -> CheckState]
                            /\ holds' \in [Vip!Master -> BOOLEAN]
                            /\ \A k \in Vip!Master : holds'[k] => check'[k] # "off"
                            /\ \A k \in Vip!Master : holds[k] => holds'[k]
<1>1. Vip!Up(files[m]) \in CheckState \ {"off"}
  BY DEF Vip!Up, CheckState
<1> QED
  BY <1>1 DEF VipInv, Vip!Begins, Vip!Running

\* What a step does to the address: none but a master that yields, or reboots,
\* loses it.
Loses(m) == holds[m] /\ ~holds'[m]

LEMMA DaemonStep ==
  ASSUME VipInv, NEW m \in Vip!Master, Vip!Vrrp(m) \/ Vip!Check(m)
  PROVE  VipInv' /\ \A k \in Vip!Master : Loses(k) => k = m /\ Vip!Yield(m)
<1> USE DEF VipInv, Vip!Running, Loses
<1>1. CASE Vip!Take(m)
  BY <1>1 DEF Vip!Take, Vip!Have, Vip!run, Vip!kube
<1>2. CASE Vip!Yield(m)
  BY <1>2 DEF Vip!Yield, Vip!Have, Vip!run, Vip!kube
<1>3. CASE Vip!Check(m)
  <2>1. PICK to \in {"ok", "failed"} : check' = [check EXCEPT ![m] = to] /\ UNCHANGED <<holds, conn>>
    BY <1>3 DEF Vip!Check, Vip!Rise, Vip!Fall, Vip!Decide, Vip!run
  <2> QED
    BY <2>1 DEF CheckState
<1> QED
  BY <1>1, <1>2, <1>3 DEF Vip!Vrrp

LEMMA WorldStep ==
  ASSUME VipInv, NEW m \in Vip!Master, Vip!Kubelet(m) \/ Vip!ApiFails(m) \/ Vip!Reboot(m)
  PROVE  VipInv' /\ \A k \in Vip!Master : Loses(k) => check'[k] = "off"
<1> USE DEF VipInv, Loses
<1>1. CASE Vip!Kubelet(m) \/ Vip!ApiFails(m)
  BY <1>1 DEF Vip!Kubelet, Vip!ApiFails, Vip!daemon, Vip!run, Vip!Running
<1>2. CASE Vip!Reboot(m)
  <2>1. conn' \subseteq Vip!Master
    BY <1>2 DEF Vip!Reboot
  <2>2. CASE Vip!Begins(m)
    BY <2>1, <2>2, BeginsKeeps DEF Vip!Running
  <2>3. CASE check' = [check EXCEPT ![m] = "off"] /\ holds' = [holds EXCEPT ![m] = FALSE]
    BY <2>1, <2>3 DEF Vip!Running, CheckState
  <2> QED
    BY <1>2, <2>2, <2>3 DEF Vip!Reboot
<1> QED
  BY <1>1, <1>2

LEMMA RunStep ==
  ASSUME VipInv, Vip!Start \/ Vip!Commands \/ Vip!Interrupt \/ UNCHANGED Vip!vars
  PROVE  VipInv' /\ \A k \in Vip!Master : ~Loses(k)
<1> USE DEF VipInv, Loses
<1>1. CASE Vip!Start
  <2>1. conn' \subseteq Vip!Master /\ UNCHANGED <<check, holds>>
    BY <1>1 DEF Vip!Start, Vip!daemon, Vip!Master
  <2> QED
    BY <2>1 DEF Vip!Running
<1>2. CASE Vip!Restart
  <2>1. Vip!Begins(Vip!At) /\ Vip!At \in Vip!Master /\ UNCHANGED conn
    BY <1>2 DEF Vip!Restart, Vip!Command
  <2> QED
    BY <2>1, BeginsKeeps DEF Vip!Running
<1>3. CASE Vip!Broken \/ Vip!Interrupt
  BY <1>3 DEF Vip!Broken, Vip!Interrupt, Vip!Idle, Vip!daemon, Vip!Running
<1>4. CASE \/ Vip!Purge \/ Vip!WriteConf \/ Vip!WriteScript \/ Vip!MakeExecutable
           \/ Vip!Init1 \/ Vip!InitDone \/ Vip!JoinMaster
  <2>1. UNCHANGED <<check, holds, conn>>
    BY <1>4 DEF Vip!Purge, Vip!WriteConf, Vip!WriteScript, Vip!MakeExecutable,
       Vip!Init1, Vip!InitDone, Vip!JoinMaster, Vip!Command, Vip!daemon
  <2> QED
    BY <2>1 DEF Vip!Running
<1>5. CASE UNCHANGED Vip!vars
  BY <1>5 DEF Vip!vars, Vip!daemon, Vip!run, Vip!Running
<1> QED
  BY <1>1, <1>2, <1>3, <1>4, <1>5 DEF Vip!Commands

LEMMA VipNext == VipInv /\ [Vip!Next]_(Vip!vars) => VipInv'
BY DaemonStep, WorldStep, RunStep DEF Vip!Next

\* The master to whom one with a passing check yields has a check that does
\* not fail, and the higher address.
LEMMA YieldsToBetter ==
  ASSUME VipInv, NEW m \in Vip!Master, check[m] = "ok", Vip!Yield(m)
  PROVE  \E n \in Vip!Master :
           /\ holds[n] /\ Address[n] > Address[m]
           /\ check[n] \in {"ok", "new", "blind"}
<1>1. PICK n \in Vip!Master : holds[n] /\ Vip!Beats(n, m)
  BY DEF Vip!Yield
<1>2. check[n] \in CheckState \ {"off"}
  BY <1>1 DEF VipInv, Vip!Running
<1>3. Vip!Effective(m) = 100 /\ check[n] # "failed" /\ Vip!Effective(n) = 100
  BY <1>1, <1>2 DEF Vip!Effective, Vip!Beats, Vip!Priority, Vip!Weight, CheckState
<1> QED
  BY <1>1, <1>2, <1>3 DEF Vip!Beats, CheckState

\* A master whose check is passing loses the address only to a reboot, a restart
\* of keepalived, or a master of higher address that is not known to fail
\* (check_apiserver.sh, priority and weight in keepalived.conf).
THEOREM HealthyMasterKeepsVip == Vip!Spec => Vip!HealthyKeepsVip
<1> DEFINE Kept == \A m \in Vip!Master :
       holds[m] /\ check[m] = "ok" /\ ~holds'[m] =>
         \/ check'[m] = "off"
         \/ \E n \in Vip!Master :
               /\ holds[n] /\ Address[n] > Address[m]
               /\ check[n] \in {"ok", "new", "blind"}
<1>1. ASSUME VipInv, [Vip!Next]_(Vip!vars) PROVE [Kept]_(Vip!vars)
  <2>1. SUFFICES ASSUME NEW m \in Vip!Master, Loses(m), check[m] = "ok", check'[m] # "off"
                 PROVE  Vip!Yield(m)
    BY <1>1, YieldsToBetter DEF Loses
  <2> QED
    BY <1>1, <2>1, DaemonStep, WorldStep, RunStep DEF Vip!Next
<1> QED
  BY VipInit, VipNext, <1>1, PTL DEF Vip!Spec, Vip!HealthyKeepsVip
=============================================================================
