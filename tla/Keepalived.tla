------------------------------ MODULE Keepalived ------------------------------
(***************************************************************************)
(* The virtual address of the control plane: installKeepAliveD and the     *)
(* part of initKubernetes that goes through that address (pkg/core/        *)
(* tkube.go), with what the two files written for keepalived make it do    *)
(* (pkg/config/templates).  keepalived itself, the API servers and the     *)
(* kubelets that restart them act on their own; masters reboot, runs are   *)
(* cut short, and the configuration of one run may list fewer masters than *)
(* that of the one before.                                                 *)
(***************************************************************************)
EXTENDS Integers, FiniteSets, Sequences

CONSTANTS
  Configs,    \* sequences of masters a configuration may list
  Address,    \* order of the masters' addresses
  Lookalikes, \* masters in whose "ip addr" the virtual address is found as text
  StartsAtBoot, \* the package has enabled the service
  MaxRuns,    \* bound: runs of the program
  MaxFaults   \* bound: reboots and failing API servers

Listed(c) == {c[i] : i \in 1 .. Len(c)}
Master    == UNION {Listed(c) : c \in Configs}

ASSUME KeepalivedAssumption ==
  /\ \A c \in Configs : Len(c) > 0 /\ Cardinality(Listed(c)) = Len(c)
  /\ Address \in [Master -> Nat] /\ \A m, n \in Master : Address[m] = Address[n] => m = n
  /\ Lookalikes \subseteq Master /\ StartsAtBoot \in BOOLEAN
  /\ MaxRuns \in Nat /\ MaxFaults \in Nat

VARIABLES
  files,  \* /etc/keepalived: "none", "conf", "script" (not executable), "ready"
  check,  \* keepalived: "off", "blind" (without the check), "new" (undecided), "ok", "failed"
  holds,  \* the master has the virtual address
  member, \* the cluster whose API server kubelet keeps on the master; 0 is none
  api,    \* the API server answers
  config, targets, \* the masters of the configuration, and those of the run
  stage, i, \* its loop or command, and its position in targets
  conn,   \* masters the run's connection to still stands
  runs, faults

daemon == <<files, check, holds>>
kube   == <<member, api>>
run    == <<config, targets, stage, i, conn, runs>>
vars   == <<daemon, kube, run, faults>>

Init ==
  /\ files = [m \in Master |-> "none"] /\ check = [m \in Master |-> "off"]
  /\ holds = [m \in Master |-> FALSE]
  /\ member = [m \in Master |-> 0] /\ api = [m \in Master |-> FALSE]
  /\ config = <<>> /\ targets = <<>> /\ stage = "idle" /\ i = 1 /\ conn = {}
  /\ runs = 0 /\ faults = 0

(* ------------------------------ keepalived ----------------------------- *)

Priority == 100
Weight   == -2 \* of the check, while it fails

\* Faulty variant: a check without a weight of its own changes nothing.
Effective_NoWeight(m) == Priority

\* Faulty variant: the sign of the weight is lost.
Effective_Bonus(m) == IF check[m] = "failed" THEN Priority - Weight ELSE Priority

Effective(m) == IF check[m] = "failed" THEN Priority + Weight ELSE Priority

Running(m) == check[m] # "off"
Serving(m) == api[m] /\ member[m] # 0

\* Faulty variant: the virtual address is always asked.
Passes_AlwaysVip(m) == Serving(m) /\ \E n \in Master : holds[n] /\ Serving(n)

\* check_apiserver.sh: the API server of the master answers; where "ip addr"
\* shows the virtual address as text, that one answers too.
Passes(m) ==
  /\ Serving(m)
  /\ holds[m] \/ (m \in Lookalikes => \E n \in Master : holds[n] /\ Serving(n))

Decide(m, from, to) ==
  check[m] \in from /\ check' = [check EXCEPT ![m] = to]
  /\ UNCHANGED <<files, holds, kube, run, faults>>

\* "rise 2" and "fall 10": the check has decided once it has come out alike
\* so many times.
Rise(m) == Passes(m)  /\ Decide(m, {"new", "failed"}, "ok")
Fall(m) == ~Passes(m) /\ Decide(m, {"new", "ok"}, "failed")

Have(m, b) ==
  holds' = [holds EXCEPT ![m] = b] /\ UNCHANGED <<files, check, kube, run, faults>>

\* VRRP: a master takes the address from those of lower priority, and of two
\* that have it the one of lower priority, or else of lower address, yields.
Take(m) ==
  /\ Running(m) /\ ~holds[m]
  /\ \A n \in Master : holds[n] => Effective(n) < Effective(m)
  /\ Have(m, TRUE)

Beats(n, m) == \/ Effective(n) > Effective(m)
               \/ Effective(n) = Effective(m) /\ Address[n] > Address[m]

Yield(m) == /\ holds[m] /\ \E n \in Master : holds[n] /\ Beats(n, m)
            /\ Have(m, FALSE)

\* Every configuration says "state MASTER": keepalived begins with the
\* address.  A script that is missing or not executable is left out.
Up(f)     == IF f = "ready" THEN "new" ELSE "blind"
Begins(m) == /\ check' = [check EXCEPT ![m] = Up(files[m])]
             /\ holds' = [holds EXCEPT ![m] = TRUE]

(* ----------------------- kubelet, crashes, reboots --------------------- *)

Kubelet(m) ==
  /\ member[m] # 0 /\ ~api[m] /\ api' = [api EXCEPT ![m] = TRUE]
  /\ UNCHANGED <<daemon, member, run, faults>>

Fault == faults < MaxFaults /\ faults' = faults + 1

ApiFails(m) ==
  /\ Fault /\ api[m] /\ api' = [api EXCEPT ![m] = FALSE]
  /\ UNCHANGED <<daemon, member, run>>

\* The connection of a run to a master breaks when that reboots.
Reboot(m) ==
  /\ Fault /\ api' = [api EXCEPT ![m] = FALSE] /\ conn' = conn \ {m}
  /\ IF StartsAtBoot /\ files[m] # "none" THEN Begins(m)
     ELSE /\ check' = [check EXCEPT ![m] = "off"]
          /\ holds' = [holds EXCEPT ![m] = FALSE]
  /\ UNCHANGED <<files, member, config, targets, stage, i, runs>>

(* ------------------------------- the run ------------------------------- *)

At       == targets[i]
Recovery == Len(targets) = 1 /\ targets # config
Idle     == stage' = "idle" /\ i' = 1 /\ conn' = {}

\* install, for all masters, or recover node, for one but the first.
Start ==
  /\ stage = "idle" /\ runs < MaxRuns /\ runs' = runs + 1
  /\ config' \in Configs /\ conn' = Listed(config')
  /\ \/ targets' = config'
     \/ \E k \in 2 .. Len(config') : targets' = <<config'[k]>>
  /\ stage' = "purge" /\ i' = 1
  /\ UNCHANGED <<daemon, kube, faults>>

\* A command of the run on the master it has come to.
Command(s) ==
  stage = s /\ At \in conn /\ UNCHANGED <<config, targets, conn, runs, faults>>

Then(s) == stage' = s /\ UNCHANGED i

\* On to the next master, from the command s, or else past the loop.
Loop(s, after) ==
  IF i < Len(targets) THEN stage' = s /\ i' = i + 1 ELSE stage' = after /\ i' = 1

\* removeKubePackagesIfNecessary: kubeadm reset.  keepalived runs on.
Purge ==
  /\ Command("purge") /\ Loop("purge", "conf")
  /\ member' = [member EXCEPT ![At] = 0] /\ api' = [api EXCEPT ![At] = FALSE]
  /\ UNCHANGED daemon

\* mkdir, chmod -R 777, by which a script that is there can be executed, the
\* package, keepalived.conf.
WriteConf ==
  /\ Command("conf") /\ Then("script")
  /\ files' = [files EXCEPT ![At] = IF @ = "none" THEN "conf" ELSE IF @ = "script" THEN "ready" ELSE @]
  /\ UNCHANGED <<check, holds, kube>>

\* check_apiserver.sh, a new file in place of the old one; chmod -R 644
WriteScript ==
  /\ Command("script") /\ Then("exec")
  /\ files' = [files EXCEPT ![At] = "script"] /\ UNCHANGED <<check, holds, kube>>

\* chmod +x
MakeExecutable ==
  /\ Command("exec") /\ Then("restart")
  /\ files' = [files EXCEPT ![At] = "ready"] /\ UNCHANGED <<check, holds, kube>>

\* service keepalived restart
Restart ==
  /\ Command("restart") /\ Loop("conf", IF Recovery THEN "join" ELSE "init")
  /\ Begins(At) /\ UNCHANGED <<files, kube>>

\* kubeadm init: kubelet is to run the API server of a new cluster, ...
Init1 ==
  /\ Command("init") /\ Then("wait")
  /\ member' = [member EXCEPT ![At] = runs] /\ UNCHANGED <<daemon, api>>

\* The virtual address leads to an API server of cluster c.
Leads(c) == \E m \in Master : holds[m] /\ Serving(m) /\ member[m] = c

\* ... and waits for it under the control plane's address.
InitDone ==
  /\ Command("wait") /\ Leads(runs)
  /\ IF Len(targets) > 1 THEN stage' = "join" /\ i' = 2 ELSE stage' = "idle" /\ UNCHANGED i
  /\ UNCHANGED <<daemon, kube>>

\* kubeadm join under the same address, with a token of the first master.
JoinMaster ==
  /\ Command("join") /\ Loop("join", "idle")
  /\ member[config[1]] # 0 /\ Leads(member[config[1]])
  /\ member' = [member EXCEPT ![At] = member[config[1]]] /\ UNCHANGED <<daemon, api>>

\* A command meets a broken connection, or loses it: the run is over.
Broken ==
  /\ stage # "idle" /\ At \notin conn /\ Idle
  /\ UNCHANGED <<daemon, kube, config, targets, runs, faults>>

\* A command fails, kubeadm gives up waiting, the run is ended from outside.
Interrupt ==
  /\ stage # "idle" /\ At \in conn /\ Idle
  /\ UNCHANGED <<daemon, kube, config, targets, runs, faults>>

Commands == \/ Purge \/ WriteConf \/ WriteScript \/ MakeExecutable \/ Restart
            \/ Init1 \/ InitDone \/ JoinMaster \/ Broken

Vrrp(m)  == Take(m) \/ Yield(m)
Check(m) == Rise(m) \/ Fall(m)

Next ==
  \/ Start \/ Commands \/ Interrupt
  \/ \E m \in Master : Vrrp(m) \/ Check(m) \/ Kubelet(m) \/ ApiFails(m) \/ Reboot(m)

\* keepalived runs its check every three seconds and sends and awaits its
\* advertisements every second; kubelet restarts its pods; the program goes on.
Fairness ==
  /\ WF_vars(Commands)
  /\ \A m \in Master : WF_vars(Vrrp(m)) /\ WF_vars(Check(m)) /\ WF_vars(Kubelet(m))

Spec == Init /\ [][Next]_vars /\ Fairness

(* ----------------------------- properties ------------------------------ *)

TypeOK ==
  /\ files \in [Master -> {"none", "conf", "script", "ready"}]
  /\ check \in [Master -> {"off", "blind", "new", "ok", "failed"}]
  /\ holds \in [Master -> BOOLEAN] /\ api \in [Master -> BOOLEAN]
  /\ member \in [Master -> 0 .. MaxRuns]
  /\ config \in Configs \cup {<<>>} /\ Listed(targets) \subseteq Listed(config)
  /\ stage \in {"idle", "purge", "conf", "script", "exec", "restart", "init", "wait", "join"}
  /\ i \in 1 .. Len(targets) + 1 /\ conn \subseteq Master
  /\ runs \in 0 .. MaxRuns /\ faults \in 0 .. MaxFaults

\* If keepalived with its check runs beside an API server that stays up, the
\* virtual address ends at one master, whose API server answers, whichever
\* masters fail, reboot or are set up again.  The exception: keepalived
\* without its check somewhere, which takes a run cut short between the two
\* files and a reboot.
VipServes ==
  <>[](/\ \E m \in Master : Serving(m) /\ Running(m)
       /\ \A m \in Master : check[m] # "blind")
    => <>[](\E m \in Master : Serving(m) /\ \A n \in Master : holds[n] <=> n = m)

\* kubeadm init, which waits for its API server under the virtual address
\* while all masters contend for it, is not kept waiting: unless a master
\* that is not in the configuration any more contends, too.
InitReached ==
  (stage = "wait" /\ \A m \in Master \ Listed(config) : files[m] = "none")
    ~> stage # "wait"

\* A master whose check is passing loses the address only when it reboots or
\* keepalived is restarted on it, or to one of higher address that passes as
\* well or has just begun.
HealthyKeepsVip ==
  [][\A m \in Master :
       holds[m] /\ check[m] = "ok" /\ ~holds'[m] =>
         \/ check'[m] = "off"
         \/ \E n \in Master : /\ holds[n] /\ Address[n] > Address[m]
                              /\ check[n] \in {"ok", "new", "blind"}]_vars

\* What a joining node, and every kubeconfig of the cluster, relies on: the
\* address never leads away from a cluster that has been founded while its
\* API server answers.  The code does not keep this: see HealthyKeepsVip.
VipStays ==
  [][\A m \in Master : holds[m] /\ Serving(m) /\ check[m] = "ok" /\ ~holds'[m] => ~Serving(m)']_vars
=============================================================================
