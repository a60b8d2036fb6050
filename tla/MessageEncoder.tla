--------------------------- MODULE MessageEncoder ---------------------------
(***************************************************************************)
(* Size and Marshal of the messages of x/feicoin/types: Marshal makes a    *)
(* buffer of the length Size has computed and fills it from its end, last  *)
(* field first.                                                            *)
(***************************************************************************)
EXTENDS Messages, SequencesExt, FiniteSetsExt

(* The number of bits of x.                                                *)
BitLen(x) == Cardinality({k \in 0..30 : 2^k <= x})

(* Mutant of Sov: no byte for the bit that is set in any case.             *)
SovOfZero(x) == (BitLen(x) + 6) \div 7

(* (Len64(x|1) + 6) / 7                                                    *)
Sov(x) == (BitLen(IF x % 2 = 0 THEN x + 1 ELSE x) + 6) \div 7

(* What the loop of encodeVarint writes: seven bits a byte until less than *)
(* that is left.                                                           *)
VarintBytes(v) ==
  LET last == CHOOSE k \in 0..4 : v < 128^(k+1) /\ (k > 0 => v >= 128^k)
  IN  [k \in 1..last + 1 |-> ((v \div 128^(k-1)) % 128) + (IF k <= last THEN 128 ELSE 0)]

-----------------------------------------------------------------------------
(* A buffer is written at an index that goes down.                         *)

Overwrite(bytes, at, text) ==
  [k \in DOMAIN bytes |-> IF k - at \in DOMAIN text THEN text[k - at] ELSE bytes[k]]

Copy(buffer, text) ==
  LET i == buffer.i - Len(text)
  IN  [dAtA |-> Overwrite(buffer.dAtA, i, text), i |-> i]

EncodeVarint(buffer, v) ==
  LET i == buffer.i - Sov(v)
  IN  [dAtA |-> Overwrite(buffer.dAtA, i, VarintBytes(v)), i |-> i]

(* The text of a field's contents; the number zero is written as one digit. *)
Text(kind, content) == IF kind = "Int" /\ content = << >> THEN <<48>> ELSE content

(* Only strings are left out if they are empty.                            *)
Written(kind, content) == kind = "string" => content # << >>

SizeOf(kinds, msg) ==
  LET size(k) == LET n == Len(Text(kinds[k], msg[k]))
                 IN  IF Written(kinds[k], msg[k]) THEN 1 + n + Sov(n) ELSE 0
  IN  MapThenSumSet(size, DOMAIN kinds)

MarshalToSizedBuffer(kinds, msg, size) ==
  LET write(k, buffer) ==
        LET text == Text(kinds[k], msg[k])
        IN  IF ~Written(kinds[k], msg[k]) THEN buffer
            ELSE Copy(EncodeVarint(Copy(buffer, text), Len(text)), <<8 * k + 2>>)
  IN  FoldRight(write, [k \in DOMAIN kinds |-> k],
                [dAtA |-> [k \in 1..size |-> 0], i |-> size])

(* dAtA[:n], where n is what has been written.                             *)
Marshal(kinds, msg, size) ==
  LET buffer == MarshalToSizedBuffer(kinds, msg, size)
  IN  SubSeq(buffer.dAtA, 1, size - buffer.i)

SizeMsgUpdateParams(msg) == SizeOf(MsgUpdateParamsFields, msg)
SizeMsgMintTokens(msg) == SizeOf(MsgMintTokensFields, msg)
SizeQueryParamsResponse(msg) == SizeOf(QueryParamsResponseFields, msg)
SizeGenesisState(msg) == SizeOf(GenesisStateFields, msg)
SizeModule(msg) == SizeOf(ModuleFields, msg)

MarshalMsgUpdateParams(msg) ==
  Marshal(MsgUpdateParamsFields, msg, SizeMsgUpdateParams(msg))
MarshalMsgMintTokens(msg) ==
  Marshal(MsgMintTokensFields, msg, SizeMsgMintTokens(msg))
MarshalQueryParamsResponse(msg) ==
  Marshal(QueryParamsResponseFields, msg, SizeQueryParamsResponse(msg))
MarshalGenesisState(msg) ==
  Marshal(GenesisStateFields, msg, SizeGenesisState(msg))
MarshalModule(msg) ==
  Marshal(ModuleFields, msg, SizeModule(msg))

-----------------------------------------------------------------------------
CONSTANTS
  Texts,   \* the strings that messages are sent with
  Amounts  \* their numbers; the empty one stands for nil

Sent(kind) == IF kind = "string" THEN Texts ELSE IF kind = "Int" THEN Amounts ELSE {<< >>}

(* All messages of these kinds, with the fields they lack.                 *)
Samples(kinds) ==
  {msg \in [1..MaxField -> Texts \cup Amounts \cup {<< >>}] :
     \A k \in 1..MaxField : msg[k] \in IF k \in DOMAIN kinds THEN Sent(kinds[k]) ELSE {<< >>}}

Encoding(type, msg) ==
  CASE type = "MsgUpdateParams" -> MarshalMsgUpdateParams(msg)
    [] type = "MsgMintTokens" -> MarshalMsgMintTokens(msg)
    [] type = "QueryParamsResponse" -> MarshalQueryParamsResponse(msg)
    [] type = "GenesisState" -> MarshalGenesisState(msg)
    [] type = "Module" -> MarshalModule(msg)

(* Every message with its encoding, as a call of Unmarshal.                *)
Encodings ==
  UNION {{[fn |-> type, msg |-> msg, dAtA |-> Encoding(type, msg)] : msg \in Samples(KindsOf(type))} :
           type \in {"MsgUpdateParams", "MsgMintTokens", "QueryParamsResponse", "GenesisState", "Module"}}

(* The call of this behaviour.                                             *)
Outermost ==
  IF callers = << >> THEN [fn |-> fn, dAtA |-> dAtA]
  ELSE [fn |-> Last(callers).fn, dAtA |-> Last(callers).dAtA]

(* What Marshal writes is what Unmarshal reads, for contents of any length *)
(* and any of the fields empty: the lengths that Size has added up are     *)
(* those that are written.                                                 *)
RoundTrip ==
  Ended =>
    \A e \in Encodings :
      Outermost = [fn |-> e.fn, dAtA |-> e.dAtA] =>
        /\ pc = "ok"
        /\ \A k \in DOMAIN KindsOf(e.fn) : m[k] = Text(KindsOf(e.fn)[k], e.msg[k])
=============================================================================
