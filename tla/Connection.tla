------------------------------ MODULE Connection ------------------------------
(***************************************************************************)
(* How a run of tkube gets its SSH connections before it works             *)
(* (pkg/connection/connection.go, PreRun of pkg/core/core.go, RemoteRun    *)
(* and AddToSudoers of pkg/os/os.go), over several runs that share the     *)
(* file of saved credentials, with an operator who mistypes, nodes that    *)
(* change their credentials and connections that fail.                     *)
(*                                                                         *)
(* CreateSshConnection answers in three ways, and so does Dial: "ok",      *)
(* "err", and "nil": neither a connection nor an error, which is what it   *)
(* answers once it has cleared saved credentials that were refused.        *)
(* CheckSSHConnection takes "nil" for success, RemoteRun dereferences it.  *)
(*                                                                         *)
(* A credential is a method and a version: a node accepts its current      *)
(* version only, and Wrong stands for a mistyped one.  Of a kerberos       *)
(* credential only the user is saved.  A node that carries credentials of  *)
(* its own never reaches Dial: PreRun and RunCommandOn dial with nodes of  *)
(* an address and a port only.                                             *)
(***************************************************************************)
EXTENDS Integers, FiniteSets

CONSTANTS
  KubeNodes,    \* addresses of the nodes of the deployment configuration
  Options,      \* the command lines of the runs, see Option
  Local,        \* the host of the program, addressed without SSH
  None,
  InConfig,     \* nodes with sshUser and sshPass in the configuration
  User, Pass,   \* user name and sudo password of the operator on a machine
  MaxRuns,      \* bound: runs of the program
  MaxChanges,   \* bound: changes of a node's credentials
  MaxGlitches   \* bound: failures of the network or of writing the file

\* The address given with --remote, or None; whether --iso is given; whether
\* --auth-map is given, with three fields per node.
IsOption(o) == o.iso \in BOOLEAN /\ o.authMap \in BOOLEAN /\ DOMAIN o = {"remote", "iso", "authMap"}
Addr    == KubeNodes \cup ({o.remote : o \in Options} \ {None})
Machine == Addr \cup {Local}
Wrong   == -1
Method  == {"password", "private-key", "kerberos"}
Cred    == [method : Method, version : {Wrong} \cup 0 .. MaxChanges]

ASSUME ConnectionAssumption ==
  /\ None \notin KubeNodes /\ Local \notin Addr /\ InConfig \subseteq KubeNodes
  /\ None \notin Cred
  /\ Options # {} /\ \A o \in Options : IsOption(o)
  /\ MaxRuns \in Nat /\ MaxChanges \in Nat /\ MaxGlitches \in Nat

VARIABLES
  opt,         \* the command line of this run
  version,     \* the version of its credentials a node accepts
  saved,       \* the file .../ssh: credentials by address
  savedSudo,   \* its entry for the empty address: user and sudo password
  conn,        \* sshConnections: addresses with a cached connection
  nodes,       \* Nodes: the credentials used, by address
  pc, todo, at,
  end,         \* how the last run ended
  fault,       \* in this run the operator erred, or the network or the disk failed
  runs, changes, glitches

file   == <<saved, savedSudo>>
world  == <<opt, version, changes>>
cache  == <<conn, nodes>>
vars   == <<opt, version, saved, savedSudo, conn, nodes, pc, todo, at, end, fault,
            runs, changes, glitches>>

Init ==
  /\ opt \in Options /\ version = [n \in Addr |-> 0]
  /\ saved = [n \in Addr |-> None] /\ savedSudo = None
  /\ conn = {} /\ nodes = [n \in Addr |-> None]
  /\ pc = "ended" /\ todo = {} /\ at = Local /\ end = "ok"
  /\ fault = FALSE /\ runs = 0 /\ changes = 0 /\ glitches = 0

(* ------------------------- CreateSshConnection ------------------------- *)

\* CheckSSHDataForAddr: what was saved suffices to authenticate.
Usable(c)    == c # None /\ c.method # "kerberos"
Accepts(n, c) == c.version = version[n]

\* clearSSHDataForAddr
\* Faulty variant: the entry stays in the file that is written back.
Clear_Kept(n) == saved' = saved
Clear(n) == saved' = [saved EXCEPT ![n] = None]

Connected(n, c) ==
  /\ conn' = conn \cup {n} /\ nodes' = [nodes EXCEPT ![n] = c]

Refused(n) ==
  /\ UNCHANGED cache
  /\ IF saved[n] # None THEN Clear(n) ELSE UNCHANGED saved

\* What sshDial answers to credentials c: refused, or a failing network.
DialSaved(n, r) ==
  \/ /\ Accepts(n, saved[n]) /\ r = "ok"
     /\ Connected(n, saved[n]) /\ UNCHANGED <<saved, fault, glitches>>
  \/ /\ ~Accepts(n, saved[n]) /\ r = "nil"
     /\ Refused(n) /\ UNCHANGED <<fault, glitches>>
  \/ /\ glitches < MaxGlitches /\ glitches' = glitches + 1 /\ fault' = TRUE
     /\ r = "nil" /\ Refused(n)

\* Faulty variant: the answer is saved before it is tried.
DialAsked_SaveFirst(n, r) ==
  \E c \in Cred :
    /\ saved' = [saved EXCEPT ![n] = c] /\ UNCHANGED glitches
    /\ IF Accepts(n, c) THEN r = "ok" /\ Connected(n, c) /\ UNCHANGED fault
                        ELSE r = "err" /\ UNCHANGED cache /\ fault' = TRUE

\* The operator answers with any method, rightly or wrongly, or not at all.
\* The answer is saved only where nothing was saved before.
DialAsked(n, r) ==
  \/ \E m \in Method : \E c \in {[method |-> m, version |-> version[n]]} :
       /\ r = "ok" /\ Connected(n, c) /\ UNCHANGED <<fault, glitches>>
       /\ saved' = IF saved[n] = None THEN [saved EXCEPT ![n] = c] ELSE saved
  \/ /\ r = IF saved[n] = None THEN "err" ELSE "nil"
     /\ Refused(n) /\ fault' = TRUE
     /\ \/ UNCHANGED glitches
        \/ glitches < MaxGlitches /\ glitches' = glitches + 1
  \/ /\ r = "err" /\ fault' = TRUE /\ UNCHANGED <<saved, cache, glitches>>

Dial(n, r) ==
  IF n \in conn THEN r = "ok" /\ UNCHANGED <<saved, cache, fault, glitches>>
  ELSE IF Usable(saved[n]) THEN DialSaved(n, r)
  ELSE DialAsked(n, r)

\* The credentials of one node have been saved or cleared, of all others kept;
\* a file that could be opened but not written is empty, the sudo password of
\* all machines included.
Unwritten ==
  \/ UNCHANGED file
  \/ saved' = [n \in Addr |-> None] /\ savedSudo' = None

\* A dial that comes to write the file: stale credentials are to be cleared,
\* or, once the connection is there, new ones to be saved.
Stale(n)  == Usable(saved[n]) /\ ~Accepts(n, saved[n])
Writes(n) ==
  /\ n \notin conn /\ UNCHANGED nodes
  /\ \/ Stale(n) /\ UNCHANGED conn
     \/ saved[n] = None /\ conn' = conn \cup {n}

(* -------------------------------- PreRun ------------------------------- *)

Go(p)  == pc' = p /\ UNCHANGED end
End(e) == pc' = "ended" /\ end' = e

Start ==
  /\ pc = "ended" /\ runs < MaxRuns /\ runs' = runs + 1
  /\ conn' = {} /\ nodes' = [n \in Addr |-> None]
  /\ opt' \in Options /\ Go(IF opt'.iso THEN "iso" ELSE "detect")
  /\ todo' = KubeNodes /\ at' = Local /\ fault' = FALSE
  /\ UNCHANGED <<file, version, changes, glitches>>

\* --iso: RemoteNode has no port, and nothing answers on port 0.
CheckRemote ==
  /\ pc = "iso"
  /\ IF opt.remote # None THEN End("unreachable") ELSE Go("sudo")
  /\ UNCHANGED <<file, world, cache, todo, at, fault, runs, glitches>>

\* DetectOS, the first command on the remote node.
DetectOS ==
  /\ pc = "detect"
  /\ IF opt.remote = None
     THEN Go("config") /\ UNCHANGED <<saved, cache, at, fault, glitches>>
     ELSE \E r \in {"ok", "err", "nil"} :
            /\ Dial(opt.remote, r) /\ at' = opt.remote
            /\ CASE r = "ok"  -> Go("config")
                 [] r = "err" -> End("auth")
                 [] r = "nil" -> End("panic")
  /\ UNCHANGED <<savedSudo, world, todo, runs>>

\* ReadConfig saves the credentials the configuration holds, node by node.
Given   == [n \in InConfig |-> [method |-> "password", version |-> 0]]
Take(S) == saved' = [n \in Addr |-> IF n \in S THEN Given[n] ELSE saved[n]]

ReadConfig ==
  /\ pc = "config" /\ Go("check") /\ Take(InConfig)
  /\ UNCHANGED <<savedSudo, world, cache, todo, at, fault, runs, glitches>>

Unreachable(n) ==
  /\ pc = "check" /\ n \in todo \ conn
  /\ glitches < MaxGlitches /\ glitches' = glitches + 1 /\ fault' = TRUE
  /\ End("unreachable")
  /\ UNCHANGED <<file, world, cache, todo, at, runs>>

\* Faulty variant: a connection that is not there is taken for a failure.
CheckSSHConnection_NilFails(n) ==
  /\ pc = "check" /\ n \in todo /\ at' = n
  /\ \E r \in {"ok", "err", "nil"} :
       Dial(n, r) /\ IF r = "ok" THEN Go("sudo") ELSE End("auth")
  /\ UNCHANGED <<savedSudo, world, todo, runs>>

CheckSSHConnection(n) ==
  /\ pc = "check" /\ n \in todo /\ at' = n
  /\ \E r \in {"ok", "err", "nil"} :
       Dial(n, r) /\ IF r = "err" THEN End("auth") ELSE Go("sudo")
  /\ UNCHANGED <<savedSudo, world, todo, runs>>

(* ----------------------------- AddToSudoers ---------------------------- *)

\* The password the connection was made with serves sudo as well.
HasPassword(m) == m # Local /\ nodes[m] # None /\ nodes[m].method = "password"

Granted == IF at = Local THEN Go("detect") /\ UNCHANGED todo
                         ELSE Go("check") /\ todo' = todo \ {at}

\* Faulty variant: a machine that is in no map is given up on silently.
SudoByPassword_SkipUnknown ==
  /\ pc = "sudo" /\ at # Local /\ (nodes[at] = None \/ HasPassword(at)) /\ Granted
  /\ UNCHANGED <<file, world, cache, at, fault, runs, glitches>>

SudoByPassword ==
  /\ pc = "sudo" /\ HasPassword(at)
  /\ IF Accepts(at, nodes[at]) THEN Granted ELSE End("sudo") /\ UNCHANGED todo
  /\ UNCHANGED <<file, world, cache, at, fault, runs, glitches>>

\* Without a password the user is asked for by a command on the node.
Whoami ==
  /\ pc = "sudo" /\ ~HasPassword(at)
  /\ IF at = Local
     THEN Go("pass") /\ UNCHANGED <<saved, cache, fault, glitches>>
     ELSE \E r \in {"ok", "err", "nil"} :
            /\ Dial(at, r)
            /\ CASE r = "ok"  -> Go("pass")
                 [] r = "err" -> End("auth")
                 [] r = "nil" -> End("panic")
  /\ UNCHANGED <<savedSudo, world, todo, at, runs>>

\* The sudo password is saved before it is tried, for all machines where the
\* user has the same name, and never cleared.
SudoKnown == savedSudo # None /\ savedSudo.user = User[at]

SudoPass ==
  /\ pc = "pass"
  /\ \/ SudoKnown /\ UNCHANGED <<savedSudo, fault>>
     \/ /\ ~SudoKnown
        /\ \/ /\ savedSudo' = [user |-> User[at], pass |-> Pass[at]]
              /\ UNCHANGED fault
           \/ savedSudo' = [user |-> User[at], pass |-> Wrong] /\ fault' = TRUE
  /\ IF savedSudo'.pass = Pass[at] THEN Granted ELSE End("sudo") /\ UNCHANGED todo
  /\ UNCHANGED <<saved, world, cache, at, runs, glitches>>

Prepared ==
  /\ pc = "check" /\ todo = {} /\ Go("work")
  /\ UNCHANGED <<file, world, cache, todo, at, fault, runs, glitches>>

\* handleAuthMap: a list of length 3 is read at index 3.  Then the run works.
HandleAuthMap ==
  /\ pc = "work" /\ End(IF opt.authMap THEN "index" ELSE "ok")
  /\ UNCHANGED <<file, world, cache, todo, at, fault, runs, glitches>>

\* The file cannot be written, or the run is killed as it writes: at DetectOS
\* or whoami, at CheckSSHConnection, in ReadConfig, or with a sudo password.
SaveFails ==
  /\ glitches < MaxGlitches /\ glitches' = glitches + 1 /\ fault' = TRUE
  /\ End("file")
  /\ \/ /\ pc = "detect" /\ opt.remote # None /\ at' = opt.remote
        /\ Writes(opt.remote) /\ Unwritten
     \/ pc = "check" /\ at' \in todo /\ Writes(at') /\ Unwritten
     \/ pc = "sudo" /\ at # Local /\ ~HasPassword(at) /\ Writes(at) /\ Unwritten /\ UNCHANGED at
     \/ pc = "pass" /\ ~SudoKnown /\ Unwritten /\ UNCHANGED <<cache, at>>
     \/ /\ pc = "config" /\ UNCHANGED <<cache, at>>
        /\ \/ Unwritten
           \/ UNCHANGED savedSudo /\ \E S \in SUBSET InConfig : Take(S)
  /\ UNCHANGED <<world, todo, runs>>

\* A signal, or a failure outside: the run ends where it is.
Interrupt ==
  /\ pc # "ended" /\ End("cut")
  /\ UNCHANGED <<file, world, cache, todo, at, fault, runs, glitches>>

\* A node's administrator changes its credentials.
Change(n) ==
  /\ changes < MaxChanges /\ changes' = changes + 1
  /\ version' = [version EXCEPT ![n] = @ + 1]
  /\ UNCHANGED <<opt, file, cache, pc, todo, at, end, fault, runs, glitches>>

Next ==
  \/ Start \/ CheckRemote \/ DetectOS \/ ReadConfig
  \/ \E n \in KubeNodes : Unreachable(n) \/ CheckSSHConnection(n)
  \/ SudoByPassword \/ Whoami \/ SudoPass \/ Prepared \/ HandleAuthMap
  \/ SaveFails \/ Interrupt
  \/ \E n \in Addr : Change(n)

Spec == Init /\ [][Next]_vars

(* ----------------------------- properties ------------------------------ *)

TypeOK ==
  /\ opt \in Options /\ version \in [Addr -> 0 .. MaxChanges]
  /\ saved \in [Addr -> Cred \cup {None}] /\ nodes \in [Addr -> Cred \cup {None}]
  /\ savedSudo \in {None} \cup [user : {User[m] : m \in Machine},
                                pass : {Wrong} \cup {Pass[m] : m \in Machine}]
  /\ conn \subseteq Addr /\ todo \subseteq KubeNodes /\ at \in Machine
  /\ pc \in {"ended", "iso", "detect", "config", "check", "sudo", "pass", "work"}
  /\ end \in {"ok", "auth", "sudo", "unreachable", "panic", "index", "file", "cut"}
  /\ fault \in BOOLEAN
  /\ runs \in 0 .. MaxRuns /\ changes \in 0 .. MaxChanges
  /\ glitches \in 0 .. MaxGlitches

\* No list is read past its end, and RemoteRun gets no connection that is nil,
\* but for the machine of --remote, which has no CheckSSHConnection before it.
NeverPanics ==
  pc = "ended" => end # "index" /\ (end = "panic" => at = opt.remote)

\* The abstract specification of the file: wrong credentials are never saved,
\* refused ones are forgotten and nothing else is, and a run that fails to
\* authenticate, or dies of a nil connection, leaves nothing behind that the
\* next run would use without asking.
Promise == INSTANCE Credentials WITH
  failed <- IF pc = "ended" /\ end \in {"auth", "panic"} THEN at ELSE None
CredentialsKept == Promise!Spec

\* As long as the operator's answers are right and the network works, a run
\* does not fail to authenticate, however stale the saved credentials are.
RightAnswersWork == pc = "ended" /\ end = "auth" => fault

\* A run works only when every node has a cached connection and is in Nodes.
WorkConnected ==
  pc = "work" => \A n \in KubeNodes : n \in conn /\ nodes[n] # None

\* A node is reported "not reachable" only if the network fails: the remote
\* node of `install --remote ... --iso ...` is up.  The code does not keep this.
UnreachableIsDown == pc = "ended" /\ end = "unreachable" => fault
=============================================================================
