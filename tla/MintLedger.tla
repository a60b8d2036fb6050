----------------------------- MODULE MintLedger -----------------------------
(***************************************************************************)
(* What x/feicoin promises of the token supply, with transactions as       *)
(* single steps and the accounts left out: it only ever adds coins, each   *)
(* with an event that says so, only once somebody has been given the right *)
(* to mint, never past the largest math.Int; and the coins the module      *)
(* account holds stay there.  The other modules of the app add and burn    *)
(* coins without an event.                                                 *)
(***************************************************************************)
EXTENDS Integers

CONSTANTS
  Denom,          \* denominations
  MaxInt,         \* the largest math.Int
  GenesisSupply   \* the supply of the genesis file

VARIABLES
  supply,   \* the supply of each denomination
  issued,   \* the coins that token_minted events have announced
  locked,   \* the coins in the module account
  others,   \* what the other modules have added, or burnt
  minters   \* everybody who was ever given the right to mint

vars == <<supply, issued, locked, others, minters>>

Init ==
  /\ supply = GenesisSupply
  /\ issued = [d \in Denom |-> 0]
  /\ locked \in [Denom -> Nat]
  /\ others = [d \in Denom |-> 0]

(* Somebody is given the right to mint, or loses it: what was minted with  *)
(* it stays.                                                               *)
Appoint ==
  /\ minters \subseteq minters'
  /\ UNCHANGED <<supply, issued, locked, others>>

(* A transaction adds coins, moves coins to the module account, or both.   *)
Transact ==
  /\ supply' \in [Denom -> Nat]
  /\ \A d \in Denom :
       /\ supply'[d] >= supply[d]
       /\ supply'[d] > supply[d] => minters # {} /\ supply'[d] <= MaxInt
  /\ issued' = [d \in Denom |-> issued[d] + (supply'[d] - supply[d])]
  /\ locked' \in [Denom -> Nat]
  /\ \A d \in Denom : locked'[d] >= locked[d]
  /\ UNCHANGED <<others, minters>>

(* Another module adds or burns coins, but none of the module account.     *)
OtherModules ==
  /\ supply' \in [Denom -> 0..MaxInt]
  /\ others' = [d \in Denom |-> others[d] + (supply'[d] - supply[d])]
  /\ locked' \in [Denom -> Nat]
  /\ \A d \in Denom : locked'[d] >= locked[d]
  /\ UNCHANGED <<issued, minters>>

Next == Appoint \/ Transact \/ OtherModules

Spec == Init /\ [][Next]_vars
=============================================================================
