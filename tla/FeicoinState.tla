---------------------------- MODULE FeicoinState ----------------------------
(***************************************************************************)
(* What one message of a transaction does to the state of one feicoin     *)
(* node: the handlers of x/feicoin/keeper (MintTokens, UpdateParams) and   *)
(* the bank operations they call, as functions from a state to a state.    *)
(* The modules that execute transactions (MintKeeper on one node,          *)
(* ReplicatedMint on several) share these definitions.                     *)
(*                                                                         *)
(* A state is the part of the multistore the module reads and writes:      *)
(*   params  whether the feicoin params are stored (Params has no field,   *)
(*           so presence is all there is to know about them)               *)
(*   supply  the bank's total supply of each denomination                  *)
(*   bal     the bank's balance of each account in each denomination       *)
(*   minted  per denomination, the sum of the amounts of the token_minted  *)
(*           events of the committed transactions: what an indexer knows   *)
(***************************************************************************)
EXTENDS Integers, FiniteSets, FiniteSetsExt

CONSTANTS
  Addr,          \* account addresses, as bytes
  AddrStr,       \* the strings a message may carry where an address belongs
  Decode,        \* the address a string decodes to, or BadAddr
  Encode,        \* the string the keyring prints for an address
  BadAddr,       \* what decoding a malformed string returns
  NoKey,         \* the keyring has no key named bob: "keys show" fails
  FeicoinModule, \* the module account of x/feicoin
  Gov,           \* the gov module account, the authority of UpdateParams
  Blocked,       \* blockAccAddrs: module accounts that may not receive coins
  Denom,         \* valid denominations
  BadDenom,      \* a denomination that sdk.NewCoin rejects
  MaxInt         \* the largest math.Int (2^256 - 1 in the SDK)

ASSUME AddressAssumption ==
  /\ BadAddr \notin Addr
  /\ Decode \in [AddrStr -> Addr \cup {BadAddr}]
  /\ Encode \in [Addr -> AddrStr]
  /\ \A a \in Addr : Decode[Encode[a]] = a
  /\ NoKey \notin AddrStr

ASSUME ModuleAssumption ==
  /\ FeicoinModule \in Addr
  /\ Gov \in Addr
  /\ Blocked \subseteq Addr
  /\ FeicoinModule \notin Blocked   \* app_config.go does not list it

ASSUME NumberAssumption ==
  /\ BadDenom \notin Denom
  /\ MaxInt \in Nat

State == [ params : BOOLEAN,
           supply : [Denom -> Nat],
           bal    : [Addr -> [Denom -> Nat]],
           minted : [Denom -> Nat] ]

-----------------------------------------------------------------------------
(* Messages.                                                               *)

MintMsg   == [ type : {"mint"}, authority : AddrStr, to : AddrStr,
               denom : Denom \cup {BadDenom}, amount : Int ]
ParamsMsg == [ type : {"update_params"}, authority : AddrStr ]
SendMsg   == [ type : {"send"}, authority : AddrStr, to : Addr,
               denom : Denom, amount : Nat ]

Msg == MintMsg \cup ParamsMsg \cup SendMsg

(* The account whose signature the ante handler demands.                   *)
Signer(m) == Decode[m.authority]

-----------------------------------------------------------------------------
(* The bank keeper, as x/feicoin uses it.                                  *)

Add(s, a, d, n) == [s EXCEPT !.bal[a][d] = @ + n]

(* MintCoins: the coins appear in the module account and in the supply.    *)
MintCoins(s, d, n) ==
  Add([s EXCEPT !.supply[d] = @ + n], FeicoinModule, d, n)

(* Mutant of MintOverflows: additions are not checked.                     *)
NeverOverflows(s, d, n) == FALSE

(* Int addition panics beyond 256 bits; the balance is at most the supply. *)
MintOverflows(s, d, n) == s.supply[d] + n > MaxInt

(* A transfer, one account debited before the other is credited.           *)
SendCoins(s, from, to, d, n) == Add(Add(s, from, d, -n), to, d, n)

(* SendCoinsFromModuleToAccount refuses the blocked module accounts.       *)
MayReceive(a) == a \notin Blocked

-----------------------------------------------------------------------------
(* MintTokens, after getBobAddress has returned the string bob.            *)

(* Mutant of Authorized: whoever signs may mint.                           *)
AnyAuthority(m, bob) == TRUE

(* The authority is compared as a string: another spelling of bob's        *)
(* address, which the ante handler accepts, is refused here.               *)
Authorized(m, bob) == m.authority = bob

(* Mutant of ValidCoin: the sign of the amount is not checked.             *)
AnyAmount(m) == m.denom \in Denom

(* sdk.NewCoin panics otherwise; a zero amount is a valid, empty mint.     *)
ValidCoin(m) == m.denom \in Denom /\ m.amount >= 0

MintSucceeds(s, m, bob) ==
  /\ bob # NoKey
  /\ Authorized(m, bob)
  /\ Decode[m.to] # BadAddr
  /\ ValidCoin(m)
  /\ ~MintOverflows(s, m.denom, m.amount)
  /\ MayReceive(Decode[m.to])

(* Mutant of EmitTokenMinted: no event.                                    *)
EmitNothing(s, m) == s

EmitTokenMinted(s, m) == [s EXCEPT !.minted[m.denom] = @ + m.amount]

(* Mutant of Minted: the module's own coins are sent, none are minted.     *)
MintedFromModule(s, m) ==
  EmitTokenMinted(
    SendCoins(s, FeicoinModule, Decode[m.to], m.denom, m.amount), m)

Minted(s, m) ==
  EmitTokenMinted(
    SendCoins(MintCoins(s, m.denom, m.amount),
              FeicoinModule, Decode[m.to], m.denom, m.amount), m)

-----------------------------------------------------------------------------
(* UpdateParams compares addresses as bytes.                               *)
UpdateParamsSucceeds(m) == Decode[m.authority] = Gov

ParamsSet(s) == [s EXCEPT !.params = TRUE]

(* A bank MsgSend between accounts.                                        *)
SendSucceeds(s, m) ==
  /\ MayReceive(m.to)
  /\ s.bal[Signer(m)][m.denom] >= m.amount

Sent(s, m) == SendCoins(s, Signer(m), m.to, m.denom, m.amount)

-----------------------------------------------------------------------------
(* The handler of a message, given what the keyring answered.              *)
Succeeds(s, m, bob) ==
  \/ m.type = "mint" /\ MintSucceeds(s, m, bob)
  \/ m.type = "update_params" /\ UpdateParamsSucceeds(m)
  \/ m.type = "send" /\ SendSucceeds(s, m)

Handle(s, m) ==
  CASE m.type = "mint"          -> Minted(s, m)
    [] m.type = "update_params" -> ParamsSet(s)
    [] m.type = "send"          -> Sent(s, m)

-----------------------------------------------------------------------------
(* Genesis: the bank starts from the genesis balances (config.yml) and     *)
(* InitGenesis stores the params.                                          *)
SumBalances(b, d) == MapThenSumSet(LAMBDA a : b[a][d], Addr)

InitGenesis(b) ==
  ParamsSet([ params |-> FALSE,
              supply |-> [d \in Denom |-> SumBalances(b, d)],
              bal    |-> b,
              minted |-> [d \in Denom |-> 0] ])
=============================================================================
