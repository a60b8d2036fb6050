------------------------------ MODULE Messages ------------------------------
(***************************************************************************)
(* The messages of x/feicoin/types and app module configuration: what      *)
(* their fields are and how Unmarshal decodes them.  A behaviour is one    *)
(* call of an Unmarshal function.                                          *)
(***************************************************************************)
EXTENDS WireDecoder

CONSTANTS
  Calls   \* the calls: a message type and bytes

MsgUpdateParamsFields == <<"string", "Params">>
MsgMintTokensFields == <<"string", "string", "Int", "string">>
QueryParamsResponseFields == <<"Params">>
GenesisStateFields == <<"Params">>
ModuleFields == <<"string">>

Message ==
  {"MsgUpdateParams", "MsgUpdateParamsResponse", "MsgMintTokens",
   "MsgMintTokensResponse", "QueryParamsRequest", "QueryParamsResponse",
   "GenesisState", "Module", "Params"}

(* The known fields of a message.                                          *)
KindsOf(type) ==
  CASE type = "MsgUpdateParams" -> MsgUpdateParamsFields
    [] type = "MsgMintTokens" -> MsgMintTokensFields
    [] type = "QueryParamsResponse" -> QueryParamsResponseFields
    [] type = "GenesisState" -> GenesisStateFields
    [] type = "Module" -> ModuleFields
    [] OTHER -> << >>

ASSUME CallsAssumption ==
  /\ MaxField >= 4
  /\ Calls \subseteq [fn : Message, dAtA : Seq(Byte)]
  /\ \A c \in Calls : Len(c.dAtA) <= MaxInt

Init ==
  /\ \E c \in Calls : fn = c.fn /\ dAtA = c.dAtA
  /\ iNdEx = 0
  /\ depth = 0
  /\ preIndex = 0
  /\ fieldNum = 0
  /\ varint = NoVarint
  /\ pc = "loop"
  /\ m = NoFields
  /\ callers = << >>

-----------------------------------------------------------------------------
UnmarshalMsgUpdateParams ==
  fn = "MsgUpdateParams" /\ UnmarshalStep(MsgUpdateParamsFields, "skipTx")

UnmarshalMsgUpdateParamsResponse ==
  fn = "MsgUpdateParamsResponse" /\ UnmarshalStep(<< >>, "skipTx")

UnmarshalMsgMintTokens ==
  fn = "MsgMintTokens" /\ UnmarshalStep(MsgMintTokensFields, "skipTx")

UnmarshalMsgMintTokensResponse ==
  fn = "MsgMintTokensResponse" /\ UnmarshalStep(<< >>, "skipTx")

UnmarshalQueryParamsRequest ==
  fn = "QueryParamsRequest" /\ UnmarshalStep(<< >>, "skipQuery")

UnmarshalQueryParamsResponse ==
  fn = "QueryParamsResponse" /\ UnmarshalStep(QueryParamsResponseFields, "skipQuery")

UnmarshalGenesisState ==
  fn = "GenesisState" /\ UnmarshalStep(GenesisStateFields, "skipGenesis")

UnmarshalModule ==
  fn = "Module" /\ UnmarshalStep(ModuleFields, "skipModule")

UnmarshalParams ==
  fn = "Params" /\ UnmarshalStep(<< >>, "skipParams")

SkipTx == fn = "skipTx" /\ SkipStep
SkipQuery == fn = "skipQuery" /\ SkipStep
SkipGenesis == fn = "skipGenesis" /\ SkipStep
SkipModule == fn = "skipModule" /\ SkipStep
SkipParams == fn = "skipParams" /\ SkipStep

Round ==
  \/ UnmarshalMsgUpdateParams \/ UnmarshalMsgUpdateParamsResponse
  \/ UnmarshalMsgMintTokens \/ UnmarshalMsgMintTokensResponse
  \/ UnmarshalQueryParamsRequest \/ UnmarshalQueryParamsResponse
  \/ UnmarshalGenesisState \/ UnmarshalModule \/ UnmarshalParams
  \/ SkipTx \/ SkipQuery \/ SkipGenesis \/ SkipModule \/ SkipParams

Ended == pc \in {"ok", "error", "panic"}

(* Only a call that has ended may stop: that no other is without a next    *)
(* round is TLC's check for deadlocks.                                     *)
Returned == Ended /\ UNCHANGED vars

Next == Round \/ Returned

Spec == Init /\ [][Next]_vars

-----------------------------------------------------------------------------
(* Whatever the bytes, no index and no slice is ever out of bounds:        *)
(* lengths near the largest integer and negative ones are noticed before   *)
(* they are used, in Unmarshal and in skip.                                *)
NoPanic == pc # "panic"

(* How far a call is from its end.  What is left of a slice is counted from the    *)
(* largest integer, as an index may be beyond the end; a negative index is *)
(* about to be refused.                                                    *)
Left(i) == IF i < 0 THEN 0 ELSE MaxInt - i

Stage == [loop |-> 1, tag |-> 0, switch |-> 7, varint |-> 6, length |-> 6, take |-> 5, passed |-> 2]

Work == 8 * Left(iNdEx) + Stage[pc]

(* Skip has its bytes left; Unmarshal has its fields left, the current one *)
(* from its start, and the bytes of that one.                              *)
Running ==
  IF fn \notin Message THEN <<Work, 0>>
  ELSE IF pc = "loop" THEN <<2 * Left(iNdEx) + 1, 0>>
  ELSE <<2 * Left(preIndex), Work + 1>>

(* A function that waits for Unmarshal goes on behind the current field;   *)
(* one that waits for skip stands at its start.                            *)
Waiting(c, callee) == <<2 * Left(c.iNdEx) + (IF callee \in Message THEN 2 ELSE 0), 0>>

(* All functions, the outermost first.                                     *)
Rank ==
  LET n == Len(callers)
  IN  [k \in 1..n + 1 |->
         IF k = n + 1 THEN Running
         ELSE Waiting(callers[n + 1 - k], IF k = n THEN fn ELSE callers[n - k].fn)]

Less(a, b) == a[1] < b[1] \/ (a[1] = b[1] /\ a[2] < b[2])

(* Every step ends the call or gets closer to its end: one function has    *)
(* less left, those that wait for it the same, and at most two wait.  So   *)
(* there is no endless loop in bytes of any kind: lengths never move an    *)
(* index back, and a function that goes on does so behind what was read.   *)
ComesCloser ==
  [][ \/ Ended'
      \/ /\ Len(callers') <= 2
         /\ \E k \in DOMAIN Rank \cap DOMAIN Rank' :
              /\ \A j \in 1..k - 1 : Rank'[j] = Rank[j]
              /\ Less(Rank'[k], Rank[k]) ]_vars
=============================================================================
