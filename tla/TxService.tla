----------------------------- MODULE TxService -----------------------------
(***************************************************************************)
(* What a client of the wallet server can rely on, with command lines,     *)
(* sequences and the mempool left out.  A request that was refused is      *)
(* never executed.  Any other request is executed at most once, as a       *)
(* whole, and only after it was made; that may happen before or after the  *)
(* answer, and whatever the answer says.                                   *)
(***************************************************************************)
EXTENDS Integers

CONSTANTS
  Req,          \* requests, by identity
  Effect(_, _)  \* the balances after the transaction of a request

VARIABLES
  answer,  \* per request: what the client was told
  fate,    \* per request: what its transaction came to on the chain
  bal      \* the balances of the accounts

vars == <<answer, fate, bal>>

Init ==
  /\ answer = [r \in Req |-> "unasked"]
  /\ fate = [r \in Req |-> "none"]

Ask(r) ==
  /\ answer[r] = "unasked"
  /\ answer' = [answer EXCEPT ![r] = "waiting"]
  /\ UNCHANGED <<fate, bal>>

Refuse(r) ==
  /\ answer[r] = "unasked"
  /\ answer' = [answer EXCEPT ![r] = "refused"]
  /\ UNCHANGED <<fate, bal>>

Answer(r) ==
  /\ answer[r] = "waiting"
  /\ \E a \in {"ok", "error"} : answer' = [answer EXCEPT ![r] = a]
  /\ UNCHANGED <<fate, bal>>

(* Every client that waits loses its connection.                           *)
Disconnect ==
  /\ answer' = [r \in Req |-> IF answer[r] = "waiting" THEN "lost" ELSE answer[r]]
  /\ UNCHANGED <<fate, bal>>

Execute(r) ==
  /\ answer[r] \notin {"unasked", "refused"}
  /\ fate[r] = "none"
  /\ \/ fate' = [fate EXCEPT ![r] = "done"] /\ bal' = Effect(r, bal)
     \/ fate' = [fate EXCEPT ![r] = "failed"] /\ UNCHANGED bal
  /\ UNCHANGED answer

Next ==
  \/ \E r \in Req : Ask(r) \/ Refuse(r) \/ Answer(r) \/ Execute(r)
  \/ Disconnect

Spec == Init /\ [][Next]_vars
=============================================================================
