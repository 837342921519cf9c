------------------------------ MODULE Credentials ------------------------------
(***************************************************************************)
(* What the file of saved credentials promises to the runs that share it:  *)
(* a node's credentials are kept once they have been accepted or come from *)
(* the configuration, are forgotten once they are refused, and never make  *)
(* two runs in a row fail to authenticate.  Connection implements it       *)
(* (CredentialsKept).                                                      *)
(***************************************************************************)
EXTENDS Integers

CONSTANTS
  Addr, Cred, None,
  Given,    \* what the configuration says, for nodes where it says something
  Usable(_) \* what is saved of a node is tried without asking

VARIABLES
  saved,   \* what the file has of a node
  version, \* the version of its credentials a node accepts
  fault,   \* in this run the operator erred, or the network or the disk failed
  failed   \* the node at which the last run failed to authenticate, or None

Init ==
  /\ saved = [n \in Addr |-> None] /\ version = [n \in Addr |-> 0]
  /\ fault = FALSE /\ failed = None

\* Credentials are saved where there were none, after the node accepted them.
Remember(n) ==
  /\ saved[n] = None /\ failed' = None
  /\ \E c \in Cred : c.version = version[n] /\ saved' = [saved EXCEPT ![n] = c]
  /\ UNCHANGED version

\* They are forgotten if they are refused, or because of a fault.
Forget(n) ==
  /\ saved[n] # None /\ saved' = [saved EXCEPT ![n] = None]
  /\ saved[n].version # version[n] \/ fault'
  /\ failed' \in {None, n} /\ UNCHANGED version

\* A run fails at a node: nothing is left that the next would use unasked.
Fail(n) ==
  /\ ~Usable(saved[n]) /\ failed' = n /\ UNCHANGED <<saved, version>>

\* Those of the configuration are taken as they are, for some or all nodes.
Configure ==
  /\ \E S \in SUBSET DOMAIN Given :
       saved' = [n \in Addr |-> IF n \in S THEN Given[n] ELSE saved[n]]
  /\ failed' = None /\ UNCHANGED version

Continue == failed' = None /\ UNCHANGED <<saved, version>>

\* Only a fault loses the file.
Lose == saved' = [n \in Addr |-> None] /\ fault' /\ failed' = None /\ UNCHANGED version

Change(n) ==
  /\ version' = [version EXCEPT ![n] = @ + 1] /\ UNCHANGED <<saved, fault, failed>>

Next == \/ Configure \/ Continue \/ Lose
        \/ \E n \in Addr : Remember(n) \/ Forget(n) \/ Fail(n) \/ Change(n)

Spec == Init /\ [][Next]_<<saved, version, failed>>
=============================================================================
