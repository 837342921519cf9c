-------------------------- MODULE Connection_proofs ---------------------------
(***************************************************************************)
(* Theorems about Connection for any nodes, any command lines, and any     *)
(* number of runs, changed credentials and failures.                       *)
(***************************************************************************)
EXTENDS Connection, TLAPS

\* What the proofs need of the types.
TypeInv ==
  /\ opt \in Options /\ at \in Machine /\ todo \subseteq KubeNodes /\ conn \subseteq Addr
  /\ changes \in 0 .. MaxChanges /\ version \in [Addr -> 0 .. changes]
  /\ DOMAIN nodes = Addr

LEMMA Addresses ==
  /\ KubeNodes \subseteq Addr /\ Addr \subseteq Machine /\ Local \in Machine
  /\ Local \notin Addr /\ None \notin Cred /\ \A m \in Machine : m = Local \/ m \in Addr
  /\ \A o \in Options : o.remote # None => o.remote \in Addr
BY ConnectionAssumption DEF Addr, Machine

\* A dial keeps to the node it is about.
LEMMA DialTypes ==
  ASSUME NEW n \in Addr, NEW r, Dial(n, r), conn \subseteq Addr, DOMAIN nodes = Addr
  PROVE  conn' \subseteq Addr /\ DOMAIN nodes' = Addr
BY DEF Dial, DialSaved, DialAsked, Connected, Refused, cache

LEMMA TypeInit == Init => TypeInv
BY ConnectionAssumption, Addresses DEF Init, TypeInv

LEMMA TypeNext == TypeInv /\ [Next]_vars => TypeInv'
<1> SUFFICES ASSUME TypeInv, [Next]_vars PROVE TypeInv'
  OBVIOUS
<1> USE Addresses DEF TypeInv, world, cache, Go, End
<1>1. CASE Start
  BY <1>1 DEF Start
<1>2. CASE CheckRemote \/ ReadConfig \/ Prepared \/ HandleAuthMap \/ Interrupt
  BY <1>2 DEF CheckRemote, ReadConfig, Prepared, HandleAuthMap, Interrupt
<1>3. CASE DetectOS
  <2>1. CASE opt.remote = None
    BY <1>3, <2>1 DEF DetectOS
  <2>2. CASE opt.remote # None
    BY <1>3, <2>2, DialTypes DEF DetectOS
  <2> QED BY <2>1, <2>2
<1>4. ASSUME NEW n \in KubeNodes, Unreachable(n) PROVE TypeInv'
  BY <1>4 DEF Unreachable
<1>5. ASSUME NEW n \in KubeNodes, CheckSSHConnection(n) PROVE TypeInv'
  BY <1>5, DialTypes DEF CheckSSHConnection
<1>6. CASE SudoByPassword \/ SudoPass
  BY <1>6 DEF SudoByPassword, SudoPass, Granted
<1>7. CASE Whoami
  BY <1>7, DialTypes DEF Whoami
<1>8. CASE SaveFails
  BY <1>8 DEF SaveFails, Writes
<1>9. ASSUME NEW n \in Addr, Change(n) PROVE TypeInv'
  <2>1. changes' \in 0 .. MaxChanges /\ \A m \in Addr : version'[m] \in 0 .. changes'
    BY <1>9, ConnectionAssumption DEF Change
  <2> QED
    BY <1>9, <2>1 DEF Change, file
<1>10. CASE UNCHANGED vars
  BY <1>10 DEF vars
<1> QED
  BY <1>1, <1>2, <1>3, <1>4, <1>5, <1>6, <1>7, <1>8, <1>9, <1>10 DEF Next

(* -------------------------- the credentials file ----------------------- *)

Failed == IF pc = "ended" /\ end \in {"auth", "panic"} THEN at ELSE None

\* Whatever a dial answers, it is a step on the file that the promise allows:
\* one that may end the run there if the answer is "err" or "nil".
LEMMA DialKeeps ==
  ASSUME TypeInv, NEW n \in Addr, NEW r, Dial(n, r), UNCHANGED version
  PROVE  /\ r = "ok" => UNCHANGED saved \/ (saved[n] = None /\ \E c \in Cred :
                          c.version = version[n] /\ saved' = [saved EXCEPT ![n] = c])
         /\ r = "err" => UNCHANGED saved /\ ~Usable(saved[n])
         /\ r = "nil" => /\ saved[n] # None /\ saved' = [saved EXCEPT ![n] = None]
                         /\ saved[n].version # version[n] \/ fault'
<1>1. version[n] \in 0 .. MaxChanges
  BY ConnectionAssumption DEF TypeInv
<1>2. \A m \in Method : [method |-> m, version |-> version[n]] \in Cred
  BY <1>1 DEF Cred
<1>3. CASE n \in conn
  BY <1>3 DEF Dial
<1>4. CASE n \notin conn /\ Usable(saved[n])
  <2>1. DialSaved(n, r) /\ saved[n] # None
    BY <1>4 DEF Dial, Usable
  <2> QED
    BY <2>1 DEF DialSaved, Refused, Clear, Accepts, Connected
<1>5. CASE n \notin conn /\ ~Usable(saved[n])
  <2>1. DialAsked(n, r)
    BY <1>5 DEF Dial
  <2>2. CASE r = "ok"
    <3>1. PICK m \in Method :
            saved' = IF saved[n] = None
                     THEN [saved EXCEPT ![n] = [method |-> m, version |-> version[n]]]
                     ELSE saved
      BY <2>1, <2>2 DEF DialAsked
    <3> QED
      BY <1>2, <2>2, <3>1
  <2>3. CASE r # "ok"
    BY <1>5, <2>1, <2>3 DEF DialAsked, Refused, Clear
  <2> QED
    BY <2>2, <2>3
<1> QED
  BY <1>3, <1>4, <1>5

LEMMA PromiseInit == Init => Promise!Init
BY DEF Init, Promise!Init

\* A dial that ends the run only if it fails, at the node it was for.
LEMMA DialStep ==
  ASSUME TypeInv, NEW n \in Addr, NEW r \in {"ok", "err", "nil"}, Dial(n, r),
         UNCHANGED version, Failed = None, Failed' \in {None, n},
         r = "ok" => Failed' = None, r = "err" => Failed' = n
  PROVE  Promise!Next
<1>1. CASE r = "ok"
  <2>1. CASE UNCHANGED saved
    BY <1>1, <2>1 DEF Promise!Next, Promise!Continue, Failed
  <2>2. CASE ~UNCHANGED saved
    <3>1. Promise!Remember(n)
      BY <1>1, <2>2, DialKeeps DEF Promise!Remember, Failed
    <3> QED BY <3>1 DEF Promise!Next
  <2> QED BY <2>1, <2>2
<1>2. CASE r = "err"
  <2>1. Promise!Fail(n)
    BY <1>2, DialKeeps DEF Promise!Fail, Failed
  <2> QED BY <2>1 DEF Promise!Next
<1>3. CASE r = "nil"
  <2>1. Promise!Forget(n)
    BY <1>3, DialKeeps DEF Promise!Forget, Failed
  <2> QED BY <2>1 DEF Promise!Next
<1> QED BY <1>1, <1>2, <1>3

LEMMA PromiseNext ==
  TypeInv /\ [Next]_vars => [Promise!Next]_<<saved, version, Failed>>
<1> SUFFICES ASSUME TypeInv, [Next]_vars
             PROVE Promise!Next \/ UNCHANGED <<saved, version, Failed>>
  OBVIOUS
<1> USE DEF world, file, cache
<1>a. ASSUME UNCHANGED <<saved, version>>, Failed' = None
      PROVE  Promise!Next
  BY <1>a DEF Promise!Next, Promise!Continue, Failed
<1>1. CASE Start
  BY <1>1, <1>a DEF Start, Go, Failed
<1>2. CASE CheckRemote \/ Prepared \/ HandleAuthMap \/ Interrupt \/ SudoByPassword \/ SudoPass
  BY <1>2, <1>a DEF CheckRemote, Prepared, HandleAuthMap, Interrupt, SudoByPassword, SudoPass,
                    Granted, Go, End, Failed
<1>3. CASE DetectOS
  <2>1. CASE opt.remote = None
    BY <1>3, <2>1, <1>a DEF DetectOS, Go, Failed
  <2>2. CASE opt.remote # None
    <3>1. PICK r \in {"ok", "err", "nil"} :
            /\ Dial(opt.remote, r) /\ at' = opt.remote
            /\ CASE r = "ok"  -> Go("config")
                 [] r = "err" -> End("auth")
                 [] r = "nil" -> End("panic")
      BY <1>3, <2>2 DEF DetectOS
    <3>2. opt.remote \in Addr /\ Failed = None
      BY <1>3, <2>2, Addresses DEF DetectOS, TypeInv, Failed
    <3> QED
      BY <1>3, <3>1, <3>2, DialStep DEF DetectOS, Go, End, Failed
  <2> QED BY <2>1, <2>2
<1>4. CASE ReadConfig
  <2>1. Promise!Configure
    BY <1>4 DEF ReadConfig, Take, Given, Go, Promise!Configure, Failed
  <2> QED BY <2>1 DEF Promise!Next
<1>5. ASSUME NEW n \in KubeNodes, Unreachable(n) PROVE Promise!Next
  BY <1>5, <1>a DEF Unreachable, End, Failed
<1>6. ASSUME NEW n \in KubeNodes, CheckSSHConnection(n) PROVE Promise!Next
  <2>1. PICK r \in {"ok", "err", "nil"} :
          Dial(n, r) /\ IF r = "err" THEN End("auth") ELSE Go("sudo")
    BY <1>6 DEF CheckSSHConnection
  <2> QED
    BY <1>6, <2>1, DialStep, Addresses DEF CheckSSHConnection, Go, End, Failed
<1>7. CASE Whoami
  <2>1. CASE at = Local
    BY <1>7, <2>1, <1>a DEF Whoami, Go, Failed
  <2>2. CASE at # Local
    <3>1. PICK r \in {"ok", "err", "nil"} :
            /\ Dial(at, r)
            /\ CASE r = "ok"  -> Go("pass")
                 [] r = "err" -> End("auth")
                 [] r = "nil" -> End("panic")
      BY <1>7, <2>2 DEF Whoami
    <3> QED
      BY <1>7, <2>2, <3>1, DialStep, Addresses DEF Whoami, TypeInv, Go, End, Failed
  <2> QED BY <2>1, <2>2
<1>8. CASE SaveFails
  <2>1. fault' /\ UNCHANGED version /\ Failed' = None
    BY <1>8 DEF SaveFails, End, Failed
  <2>2. \/ UNCHANGED saved
        \/ saved' = [n \in Addr |-> None]
        \/ \E S \in SUBSET InConfig : Take(S)
    BY <1>8 DEF SaveFails, Unwritten
  <2>3. CASE UNCHANGED saved
    BY <2>1, <2>3, <1>a
  <2>4. CASE saved' = [n \in Addr |-> None]
    BY <2>1, <2>4 DEF Promise!Next, Promise!Lose, Failed
  <2>5. CASE \E S \in SUBSET InConfig : Take(S)
    <3>1. Promise!Configure
      BY <2>1, <2>5 DEF Promise!Configure, Take, Given, Failed
    <3> QED BY <3>1 DEF Promise!Next
  <2> QED BY <2>2, <2>3, <2>4, <2>5
<1>9. ASSUME NEW n \in Addr, Change(n) PROVE Promise!Next
  <2>1. Promise!Change(n)
    BY <1>9 DEF Change, Promise!Change
  <2> QED BY <2>1 DEF Promise!Next
<1>10. CASE UNCHANGED vars
  BY <1>10 DEF vars, Failed
<1> QED
  BY <1>1, <1>2, <1>3, <1>4, <1>5, <1>6, <1>7, <1>8, <1>9, <1>10 DEF Next

\* The file of saved credentials implements its abstract specification:
\* CreateSshConnection and ReadConfig save what was accepted or configured,
\* forget what was refused, and no two runs in a row fail unasked.
THEOREM KeepsCredentials == Spec => CredentialsKept
<1>1. Init => TypeInv /\ Promise!Init
  BY TypeInit, PromiseInit
<1>2. TypeInv /\ [Next]_vars => TypeInv'
  BY TypeNext
<1>3. TypeInv /\ [Next]_vars => [Promise!Next]_<<saved, version, Failed>>
  BY PromiseNext
<1> QED
  BY <1>1, <1>2, <1>3, PTL DEF Spec, CredentialsKept, Promise!Spec, Failed

(* ---------------------- the connections of a run ----------------------- *)

\* While the run lasts, the nodes with a cached connection are those in Nodes;
\* what has been dealt with is connected, and so is what sudo is asked on.
ConnInv ==
  pc # "ended" =>
    /\ \A n \in Addr : n \in conn <=> nodes[n] # None
    /\ pc \in {"iso", "detect", "config"} => todo = KubeNodes
    /\ KubeNodes \ todo \subseteq conn
    /\ pc = "sudo" /\ at = Local => todo = KubeNodes
    /\ pc = "pass" => (at = Local /\ todo = KubeNodes) \/ at \in conn
    /\ pc = "work" => todo = {}

\* A dial leaves the two maps in step; one that succeeds leaves a connection.
LEMMA DialConnects ==
  ASSUME TypeInv, NEW n \in Addr, NEW r, Dial(n, r),
         \A m \in Addr : m \in conn <=> nodes[m] # None
  PROVE  /\ \A m \in Addr : m \in conn' <=> nodes'[m] # None
         /\ conn \subseteq conn'
         /\ r = "ok" => n \in conn'
<1>1. CASE n \in conn
  BY <1>1 DEF Dial, cache
<1>2. CASE UNCHANGED cache
  BY <1>2 DEF cache, Dial, DialSaved, DialAsked, Connected, Refused
<1>3. ASSUME NEW c, c # None, Connected(n, c)
      PROVE  /\ \A m \in Addr : m \in conn' <=> nodes'[m] # None
             /\ conn \subseteq conn' /\ n \in conn'
  BY <1>3 DEF Connected, TypeInv
<1>4. CASE Usable(saved[n])
  BY <1>1, <1>2, <1>3, <1>4 DEF Dial, DialSaved, Refused, Usable
<1>5. CASE n \notin conn /\ ~Usable(saved[n])
  <2>1. DialAsked(n, r)
    BY <1>5 DEF Dial
  <2>2. CASE \E m \in Method : r = "ok" /\ Connected(n, [method |-> m, version |-> version[n]])
    <3>1. PICK m \in Method : Connected(n, [method |-> m, version |-> version[n]])
      BY <2>2
    <3>2. [method |-> m, version |-> version[n]] \in Cred
      BY ConnectionAssumption DEF TypeInv, Cred
    <3> QED
      BY <1>3, <3>1, <3>2, Addresses
  <2>3. CASE r # "ok" /\ UNCHANGED cache
    BY <1>2, <2>3 DEF cache
  <2> QED
    BY <2>1, <2>2, <2>3 DEF DialAsked, Refused, cache
<1> QED
  BY <1>1, <1>4, <1>5

LEMMA ConnNext == TypeInv /\ ConnInv /\ [Next]_vars => ConnInv'
<1> SUFFICES ASSUME TypeInv, ConnInv, [Next]_vars PROVE ConnInv'
  OBVIOUS
<1> USE Addresses DEF ConnInv, world, cache, Go, End
<1>1. CASE Start
  BY <1>1 DEF Start
<1>2. CASE CheckRemote \/ ReadConfig \/ Prepared \/ HandleAuthMap \/ Interrupt \/ SaveFails
  BY <1>2 DEF CheckRemote, ReadConfig, Prepared, HandleAuthMap, Interrupt, SaveFails
<1>3. CASE DetectOS
  <2>1. CASE opt.remote = None
    BY <1>3, <2>1 DEF DetectOS
  <2>2. CASE opt.remote # None
    BY <1>3, <2>2, DialConnects DEF DetectOS, TypeInv
  <2> QED BY <2>1, <2>2
<1>4. ASSUME NEW n \in KubeNodes, Unreachable(n) PROVE ConnInv'
  BY <1>4 DEF Unreachable
<1>5. ASSUME NEW n \in KubeNodes, CheckSSHConnection(n) PROVE ConnInv'
  BY <1>5, DialConnects DEF CheckSSHConnection
<1>6. CASE SudoByPassword
  BY <1>6 DEF SudoByPassword, Granted, HasPassword, TypeInv
<1>7. CASE Whoami
  BY <1>7, DialConnects DEF Whoami, TypeInv
<1>8. CASE SudoPass
  BY <1>8 DEF SudoPass, Granted, TypeInv
<1>9. ASSUME NEW n \in Addr, Change(n) PROVE ConnInv'
  BY <1>9 DEF Change
<1>10. CASE UNCHANGED vars
  BY <1>10 DEF vars
<1> QED
  BY <1>1, <1>2, <1>3, <1>4, <1>5, <1>6, <1>7, <1>8, <1>9, <1>10 DEF Next

\* No run works before every node has a cached connection and is in Nodes: the
\* (nil, nil) of CreateSshConnection never lets PreRun pass over a node.
THEOREM AlwaysConnected == Spec => []WorkConnected
<1>1. Init => ConnInv
  BY DEF Init, ConnInv
<1>2. ConnInv => WorkConnected
  BY Addresses DEF ConnInv, WorkConnected
<1> QED
  BY <1>1, <1>2, TypeInit, TypeNext, ConnNext, PTL DEF Spec

(* ------------------------- how a run may end --------------------------- *)

\* A node is taken for connected without a connection only when nothing is
\* saved for it any more, so that the next dial asks; a run fails to authenticate
\* only by a fault; and only --auth-map reads a list past its end.
EndInv ==
  /\ DOMAIN saved = Addr
  /\ pc = "iso" => at = Local
  /\ pc = "sudo" /\ at # Local /\ at \notin conn => saved[at] = None
  /\ pc = "ended" /\ end = "auth" => fault
  /\ pc = "ended" /\ end = "panic" => at = opt.remote
  /\ pc = "ended" /\ end = "index" => \E o \in Options : o.authMap

\* What a dial that does not succeed says of the operator and of the file.
LEMMA DialEnds ==
  ASSUME TypeInv, DOMAIN saved = Addr,
         NEW n \in Addr, NEW r \in {"ok", "err", "nil"}, Dial(n, r), UNCHANGED version
  PROVE  /\ DOMAIN saved' = Addr
         /\ r = "err" => fault'
         /\ r = "ok" => n \in conn'
         /\ r = "nil" => saved'[n] = None /\ saved[n] # None /\ n \notin conn
<1>1. CASE n \in conn
  BY <1>1 DEF Dial, cache
<1>2. CASE n \notin conn /\ Usable(saved[n])
  <2>1. DialSaved(n, r) /\ saved[n] # None
    BY <1>2 DEF Dial, Usable
  <2> QED
    BY <1>2, <2>1 DEF DialSaved, Connected, Refused, Clear
<1>3. CASE n \notin conn /\ ~Usable(saved[n])
  <2>1. DialAsked(n, r)
    BY <1>3 DEF Dial
  <2>2. CASE r = "ok"
    BY <2>1, <2>2 DEF DialAsked, Connected
  <2>3. CASE r # "ok"
    BY <1>3, <2>1, <2>3 DEF DialAsked, Refused, Clear, cache
  <2> QED
    BY <2>2, <2>3
<1> QED
  BY <1>1, <1>2, <1>3

LEMMA EndNext == TypeInv /\ EndInv /\ [Next]_vars => EndInv'
<1> SUFFICES ASSUME TypeInv, EndInv, [Next]_vars PROVE EndInv'
  OBVIOUS
<1> USE Addresses DEF EndInv, world, file, cache, Go, End
<1>1. CASE Start
  BY <1>1 DEF Start
<1>2. CASE CheckRemote \/ Prepared \/ Interrupt \/ SudoByPassword \/ SudoPass
  BY <1>2 DEF CheckRemote, Prepared, Interrupt, SudoByPassword, SudoPass, Granted
<1>3. CASE HandleAuthMap
  BY <1>3 DEF HandleAuthMap, TypeInv
<1>4. CASE DetectOS
  <2>1. CASE opt.remote = None
    BY <1>4, <2>1 DEF DetectOS
  <2>2. CASE opt.remote # None
    <3>1. opt.remote \in Addr
      BY <2>2 DEF TypeInv
    <3>2. PICK r \in {"ok", "err", "nil"} :
            /\ Dial(opt.remote, r) /\ at' = opt.remote
            /\ CASE r = "ok"  -> Go("config")
                 [] r = "err" -> End("auth")
                 [] r = "nil" -> End("panic")
      BY <1>4, <2>2 DEF DetectOS
    <3> QED
      BY <1>4, <3>1, <3>2, DialEnds DEF DetectOS
  <2> QED BY <2>1, <2>2
<1>5. CASE ReadConfig
  BY <1>5 DEF ReadConfig, Take
<1>6. ASSUME NEW n \in KubeNodes, Unreachable(n) PROVE EndInv'
  BY <1>6 DEF Unreachable
<1>7. ASSUME NEW n \in KubeNodes, CheckSSHConnection(n) PROVE EndInv'
  <2>1. PICK r \in {"ok", "err", "nil"} :
          Dial(n, r) /\ IF r = "err" THEN End("auth") ELSE Go("sudo")
    BY <1>7 DEF CheckSSHConnection
  <2>2. n \in Addr /\ at' = n /\ UNCHANGED <<version, opt>>
    BY <1>7 DEF CheckSSHConnection
  <2>3. /\ DOMAIN saved' = Addr
        /\ r = "err" => fault'
        /\ r = "ok" => n \in conn'
        /\ r = "nil" => saved'[n] = None
    BY <2>1, <2>2, DialEnds
  <2>4. CASE r = "err"
    <3>1. pc' = "ended" /\ end' = "auth" /\ fault'
      BY <2>1, <2>3, <2>4
    <3> QED
      BY <2>3, <3>1
  <2>5. CASE r # "err"
    <3>1. pc' = "sudo" /\ (at' \notin conn' => saved'[at'] = None)
      BY <2>1, <2>2, <2>3, <2>5
    <3> QED
      BY <2>3, <3>1
  <2> QED BY <2>4, <2>5
<1>8. CASE Whoami
  <2>1. CASE at = Local
    BY <1>8, <2>1 DEF Whoami
  <2>2. CASE at # Local
    <3>1. PICK r \in {"ok", "err", "nil"} :
            /\ Dial(at, r)
            /\ CASE r = "ok"  -> Go("pass")
                 [] r = "err" -> End("auth")
                 [] r = "nil" -> End("panic")
      BY <1>8, <2>2 DEF Whoami
    <3>2. at \in Addr /\ pc = "sudo" /\ UNCHANGED <<version, opt, at>>
      BY <1>8, <2>2 DEF Whoami, TypeInv
    <3>3. r # "nil" /\ DOMAIN saved' = Addr /\ (r = "err" => fault')
      BY <2>2, <3>1, <3>2, DialEnds
    <3> QED
      BY <3>1, <3>2, <3>3
  <2> QED BY <2>1, <2>2
<1>9. CASE SaveFails
  <2>1. pc' = "ended" /\ end' = "file"
    BY <1>9 DEF SaveFails
  <2>2. \/ UNCHANGED saved
        \/ saved' = [n \in Addr |-> None]
        \/ \E S \in SUBSET InConfig : Take(S)
    BY <1>9 DEF SaveFails, Unwritten
  <2>3. DOMAIN saved' = Addr
    BY <2>2 DEF Take
  <2> QED BY <2>1, <2>3
<1>10. ASSUME NEW n \in Addr, Change(n) PROVE EndInv'
  BY <1>10 DEF Change
<1>11. CASE UNCHANGED vars
  BY <1>11 DEF vars
<1> QED
  BY <1>1, <1>2, <1>3, <1>4, <1>5, <1>6, <1>7, <1>8, <1>9, <1>10, <1>11 DEF Next

LEMMA EndAlways == Spec => []EndInv
<1>1. Init => EndInv
  BY DEF Init, EndInv
<1> QED
  BY <1>1, EndNext, TypeInit, TypeNext, PTL DEF Spec

\* Without --auth-map no run of the program dies of a list that is too short,
\* or of a connection that is nil but the one to the machine of --remote.
THEOREM NoPanic ==
  ASSUME \A o \in Options : ~o.authMap
  PROVE  Spec => []NeverPanics
<1>1. EndInv => NeverPanics
  BY DEF EndInv, NeverPanics
<1> QED
  BY <1>1, EndAlways, PTL

\* With right answers and a network that works no run fails to authenticate:
\* saved credentials that are stale are forgotten and asked for again.
THEOREM RightAnswersSuffice == Spec => []RightAnswersWork
<1>1. EndInv => RightAnswersWork
  BY DEF EndInv, RightAnswersWork
<1> QED
  BY <1>1, EndAlways, PTL
=============================================================================
