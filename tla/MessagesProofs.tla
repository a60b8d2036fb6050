--------------------------- MODULE MessagesProofs ---------------------------
(***************************************************************************)
(* Whatever the bytes, and whatever the width of the machine's words, the  *)
(* decoders of Messages never index or slice out of bounds.  The invariant *)
(* relates the index of the running function to its slice, those of the    *)
(* suspended functions to theirs, and says where the index may be wild.    *)
(***************************************************************************)
EXTENDS Messages, TLAPS

Skip == {"skipTx", "skipQuery", "skipGenesis", "skipModule", "skipParams"}
Kind == {"string", "Int"} \cup Message

(* An argument is no longer than the largest integer.                      *)
Slices == {s \in Seq(Byte) : Len(s) <= MaxInt}

Contents == [1..MaxField -> Seq(Byte)]

(* A suspended function will go on within its slice.                       *)
Frame ==
  {c \in [fn : Message, dAtA : Slices, iNdEx : Int, m : Contents] :
     0 <= c.iNdEx /\ c.iNdEx <= Len(c.dAtA)}

Types ==
  /\ fn \in Message \cup Skip
  /\ dAtA \in Slices
  /\ iNdEx \in Int
  /\ depth \in Nat
  /\ preIndex \in Int
  /\ fieldNum \in Int
  /\ varint \in [value : 0..WordSize - 1, unit : Nat]
  /\ m \in Contents
  /\ callers \in Seq(Frame)

(* Unmarshal is within its slice at all times, and so is the start of the  *)
(* field whose tag it reads.                                               *)
UnmarshalWithin ==
  fn \in Message =>
    /\ 0 <= iNdEx /\ iNdEx <= Len(dAtA)
    /\ pc \in {"tag", "switch"} => 0 <= preIndex /\ preIndex <= Len(dAtA)
    /\ pc \in {"length", "take"} => fieldNum \in DOMAIN KindsOf(fn)

(* A skip function has a caller; its index may be beyond the end, and      *)
(* negative only before it is checked.                                     *)
SkipWithin ==
  fn \in Skip =>
    /\ callers # << >>
    /\ iNdEx <= MaxInt
    /\ pc \notin {"passed", "error"} => 0 <= iNdEx

IInv == Types /\ UnmarshalWithin /\ SkipWithin /\ NoPanic

-----------------------------------------------------------------------------
(* Every message has fields of a few kinds.                                *)
LEMMA FieldsAreKinds ==
  ASSUME NEW f \in Message
  PROVE  KindsOf(f) \in Seq(Kind) /\ Len(KindsOf(f)) <= MaxField
  <1>1. /\ MsgUpdateParamsFields \in Seq(Kind) /\ Len(MsgUpdateParamsFields) = 2
        /\ MsgMintTokensFields \in Seq(Kind) /\ Len(MsgMintTokensFields) = 4
    BY SMT DEF MsgUpdateParamsFields, MsgMintTokensFields, Kind, Message
  <1>2. /\ QueryParamsResponseFields \in Seq(Kind) /\ Len(QueryParamsResponseFields) = 1
        /\ GenesisStateFields \in Seq(Kind) /\ Len(GenesisStateFields) = 1
        /\ ModuleFields \in Seq(Kind) /\ Len(ModuleFields) = 1
    BY SMT
    DEF QueryParamsResponseFields, GenesisStateFields, ModuleFields, Kind, Message
  <1>3. << >> \in Seq(Kind) /\ Len(<< >>) = 0
    BY SMT
  <1>4. \/ KindsOf(f) \in {MsgUpdateParamsFields, MsgMintTokensFields}
        \/ KindsOf(f) \in {QueryParamsResponseFields, GenesisStateFields, ModuleFields}
        \/ KindsOf(f) = << >>
    BY SMT DEF KindsOf, Message
  <1>5. MaxField >= 0 /\ MaxField >= 1 /\ MaxField >= 2 /\ MaxField >= 4
    BY CallsAssumption, WireAssumption, SMT
  <1>6. \A s : s \in {MsgUpdateParamsFields, MsgMintTokensFields, QueryParamsResponseFields,
                     GenesisStateFields, ModuleFields, << >>}
                => s \in Seq(Kind) /\ Len(s) \in {0, 1, 2, 4}
    BY <1>1, <1>2, <1>3, Zenon
  <1>7. QED
    BY <1>4, <1>5, <1>6, WireAssumption

(* The sum of two integers that are not negative is right, or negative.    *)
LEMMA PlusChecks ==
  ASSUME NEW a \in 0..MaxInt, NEW b \in 0..MaxInt
  PROVE  /\ Plus(a, b) \in Int
         /\ Plus(a, b) <= MaxInt
         /\ Plus(a, b) >= 0 => Plus(a, b) = a + b
  BY WireAssumption, SMT DEF Plus, AsInt, WordSize

(* A word as an integer.                                                   *)
LEMMA AsIntInRange ==
  ASSUME NEW w \in 0..WordSize - 1
  PROVE  AsInt(w) \in Int /\ AsInt(w) <= MaxInt
  BY WireAssumption, SMT DEF AsInt, WordSize

LEMMA WordIsWord ==
  ASSUME NEW x \in Int
  PROVE  x % WordSize \in 0..WordSize - 1
  <1>1. WordSize \in Nat \ {0}
    BY WireAssumption, SMT DEF WordSize
  <1>2. QED
    BY <1>1, SMT

LEMMA ProductIsInt ==
  ASSUME NEW a \in Nat, NEW b \in Nat
  PROVE  a * b \in Nat
  BY SMT

(* A subslice.                                                             *)
LEMMA SliceIsSlice ==
  ASSUME Types, NEW a \in Int, NEW b \in Int, InBounds(a, b)
  PROVE  Slice(a, b) \in Slices
  <1>1. dAtA \in Seq(Byte) /\ Len(dAtA) \in Nat /\ Len(dAtA) <= MaxInt
    BY DEF Types, Slices
  <1>2. /\ SubSeq(dAtA, a + 1, b) \in Seq(Byte)
        /\ Len(SubSeq(dAtA, a + 1, b)) <= Len(dAtA)
    BY <1>1, SMT DEF InBounds, l
  <1>3. QED
    BY <1>1, <1>2, WireAssumption, SMT DEF Slice, Slices

-----------------------------------------------------------------------------
THEOREM InitIInv == Init => IInv
  <1> SUFFICES ASSUME Init PROVE IInv
    OBVIOUS
  <1> PICK c \in Calls : fn = c.fn /\ dAtA = c.dAtA
    BY DEF Init
  <1>1. fn \in Message /\ dAtA \in Slices
    BY CallsAssumption DEF Slices
  <1>2. varint \in [value : 0..WordSize - 1, unit : Nat]
    BY WireAssumption, SMT DEF Init, NoVarint, WordSize
  <1>3. m \in Contents
    BY SMT DEF Init, NoFields, Contents
  <1>4. fn \notin Skip
    BY <1>1 DEF Message, Skip
  <1>5. 0 <= iNdEx /\ iNdEx <= Len(dAtA)
    BY <1>1, SMT DEF Init, Slices
  <1>6. callers \in Seq(Frame)
    BY SMT DEF Init
  <1>7. QED
    BY <1>1, <1>2, <1>3, <1>4, <1>5, <1>6, SMT
    DEF Init, IInv, Types, UnmarshalWithin, SkipWithin, NoPanic

-----------------------------------------------------------------------------
(* A step that ends the function.                                          *)
LEMMA StopKeepsIInv ==
  ASSUME IInv, NEW outcome \in {"ok", "error"}, Stop(outcome),
         outcome = "ok" => fn \in Message
  PROVE  IInv'
  <1>1. /\ fn' = fn /\ dAtA' = dAtA /\ callers' = callers /\ iNdEx' = iNdEx
        /\ depth' = depth /\ preIndex' = preIndex /\ fieldNum' = fieldNum
        /\ varint' = varint /\ m' = m /\ pc' = outcome
    BY DEF Stop, slices
  <1>2. Types'
    BY <1>1 DEF IInv, Types
  <1>3. fn \in Message => fn \notin Skip
    BY DEF Message, Skip
  <1>4. QED
    BY <1>1, <1>2, <1>3, SMT DEF IInv, UnmarshalWithin, SkipWithin, NoPanic

(* The bytes of the argument.                                              *)
LEMMA ArgumentFacts ==
  ASSUME Types
  PROVE  /\ l \in Nat /\ l <= MaxInt
         /\ \A i \in 0..l - 1 : At(i) \in Byte
  BY SMT DEF Types, Slices, l, At

(* One more byte of a varint.                                              *)
LEMMA ReadByteKeepsIInv ==
  ASSUME IInv, NEW stage \in {"tag", "varint", "length"},
         NEW next \in {"switch", "take", "passed"},
         stage = "tag" => next = "switch",
         fn \in Message => stage # "varint" /\ (stage = "length" => next = "take"),
         ReadByte(stage, next)
  PROVE  IInv'
  <1>1. CASE TooLong \/ iNdEx >= l
    <2>1. Stop("error")
      BY <1>1, ArgumentFacts, SMT DEF ReadByte, IInv, Types
    <2>2. QED
      BY <2>1, StopKeepsIInv
  <1>2. CASE ~TooLong /\ iNdEx < l
    <2>1. 0 <= iNdEx
      BY SMT DEF ReadByte, IInv, UnmarshalWithin, SkipWithin, Types
    <2>2. At(iNdEx) \in Byte /\ iNdEx + 1 <= l /\ l <= MaxInt
      BY <1>2, <2>1, ArgumentFacts, SMT DEF IInv, Types
    <2> DEFINE bits == (At(iNdEx) % 128) * varint.unit
               word == (varint.value + bits) % WordSize
    <2>3. At(iNdEx) % 128 \in Nat
      BY <2>2, SMT DEF Byte
    <2>4. bits \in Nat
      BY <2>3, ProductIsInt, SMT DEF IInv, Types
    <2>5. word \in 0..WordSize - 1
      <3> HIDE DEF bits
      <3>1. varint.value + bits \in Int
        BY <2>4, WireAssumption, SMT DEF IInv, Types, WordSize
      <3>2. QED
        BY <3>1, WordIsWord
    <2>6. /\ varint' = [value |-> word, unit |-> varint.unit * 128]
          /\ iNdEx' = iNdEx + 1
          /\ UNCHANGED depth
          /\ Go(IF At(iNdEx) < 128 THEN next ELSE stage)
          /\ pc = stage
      <3> HIDE DEF word
      <3>1. iNdEx \in Int /\ l \in Nat
        BY ArgumentFacts DEF IInv, Types
      <3>2. ~(iNdEx >= l) /\ ~(iNdEx < 0)
        BY <1>2, <2>1, <3>1, SMT
      <3>3. word = (varint.value + (At(iNdEx) % 128) * varint.unit) % WordSize
        BY DEF word
      <3>4. QED
        BY <1>2, <3>2, <3>3, Zenon DEF ReadByte
    <2> HIDE DEF word
    <2>7. varint' \in [value : 0..WordSize - 1, unit : Nat]
      BY <2>5, <2>6, SMT DEF IInv, Types
    <2>8. Types'
      BY <2>6, <2>7, SMT DEF IInv, Types, Go, slices
    <2>9. UnmarshalWithin' /\ SkipWithin' /\ NoPanic'
      <3>1. /\ fn' = fn /\ dAtA' = dAtA /\ callers' = callers
            /\ iNdEx' = iNdEx + 1 /\ preIndex' = preIndex /\ fieldNum' = fieldNum
            /\ pc' \in {stage, next} /\ pc = stage
        BY <2>6 DEF Go, slices
      <3>2. iNdEx + 1 <= Len(dAtA) /\ Len(dAtA) <= MaxInt /\ 0 <= iNdEx + 1
        BY <2>1, <2>2, SMT DEF l, IInv, Types
      <3>3. fn \in Skip => callers # << >>
        BY DEF IInv, SkipWithin
      <3>4. SkipWithin' /\ NoPanic'
        BY <3>1, <3>2, <3>3, WireAssumption, SMT DEF SkipWithin, NoPanic, IInv, Types, Slices
      <3>5. UnmarshalWithin'
        BY <3>1, <3>2, SMT DEF UnmarshalWithin, IInv
      <3>6. QED
        BY <3>4, <3>5
    <2>10. QED
      BY <2>8, <2>9 DEF IInv
  <1>3. QED
    BY <1>1, <1>2 DEF ReadByte

(* A call on a part of the argument.                                       *)
LEMMA CallKeepsIInv ==
  ASSUME IInv, NEW f \in Message \cup Skip, NEW slice \in Slices,
         NEW resume \in Int, 0 <= resume, resume <= Len(dAtA),
         fn \in Message, Call(f, slice, resume)
  PROVE  IInv'
  <1> DEFINE c == [fn |-> fn, dAtA |-> dAtA, iNdEx |-> resume, m |-> m]
  <1>1. c \in Frame
    BY SMT DEF IInv, Types, Frame
  <1>2. callers' = <<c>> \o callers
    BY DEF Call
  <1> HIDE DEF c
  <1>3. callers' \in Seq(Frame) /\ callers' # << >>
    BY <1>1, <1>2, SMT DEF IInv, Types
  <1>4. NoFields \in Contents
    BY SMT DEF NoFields, Contents
  <1>5. Types'
    BY <1>3, <1>4, SMT DEF IInv, Types, Call
  <1>6. UnmarshalWithin' /\ SkipWithin' /\ NoPanic'
    BY <1>3, WireAssumption, SMT
    DEF IInv, Types, UnmarshalWithin, SkipWithin, NoPanic, Call, Slices
  <1>7. QED
    BY <1>5, <1>6 DEF IInv

(* The caller goes on within its slice.                                    *)
LEMMA ReturnKeepsIInv ==
  ASSUME IInv, callers # << >>, NEW at \in Int,
         0 <= at, at <= Len(Head(callers).dAtA), Return(at)
  PROVE  IInv'
  <1>1. Head(callers) \in Frame /\ Tail(callers) \in Seq(Frame)
    BY SMT DEF IInv, Types
  <1>2. /\ Head(callers).fn \in Message
        /\ Head(callers).dAtA \in Slices
        /\ Head(callers).m \in Contents
    BY <1>1, SMT DEF Frame
  <1>3. /\ fn' = Head(callers).fn /\ dAtA' = Head(callers).dAtA /\ iNdEx' = at
        /\ m' = Head(callers).m /\ callers' = Tail(callers) /\ pc' = "loop"
        /\ UNCHANGED <<depth, preIndex, fieldNum, varint>>
    BY DEF Return
  <1>4. Types'
    BY <1>1, <1>2, <1>3 DEF IInv, Types
  <1>5. fn' \in Message /\ fn' \notin Skip
    BY <1>2, <1>3 DEF Message, Skip
  <1>6. QED
    BY <1>3, <1>4, <1>5, SMT
    DEF IInv, UnmarshalWithin, SkipWithin, NoPanic

-----------------------------------------------------------------------------
(* Unmarshal: the loop over fields.                                        *)
LEMMA NextFieldKeepsIInv ==
  ASSUME IInv, fn \in Message, NextField
  PROVE  IInv'
  <1>1. CASE iNdEx < l /\ UNCHANGED <<slices, iNdEx, depth, fieldNum, m>>
             /\ preIndex' = iNdEx /\ varint' = NoVarint /\ pc' = "tag"
    <2>1. fn \notin Skip
      BY DEF Message, Skip
    <2>2. varint' \in [value : 0..WordSize - 1, unit : Nat]
      BY <1>1, WireAssumption, SMT DEF NoVarint, WordSize
    <2>3. /\ fn' = fn /\ dAtA' = dAtA /\ callers' = callers /\ iNdEx' = iNdEx
          /\ depth' = depth /\ preIndex' = iNdEx /\ fieldNum' = fieldNum
          /\ m' = m /\ pc' = "tag"
      BY <1>1 DEF slices
    <2>4. Types'
      BY <2>2, <2>3 DEF IInv, Types
    <2>5. QED
      BY <2>1, <2>3, <2>4, SMT DEF IInv, UnmarshalWithin, SkipWithin, NoPanic
  <1>2. CASE Stop("error") \/ Stop("ok")
    BY <1>2, StopKeepsIInv
  <1>3. CASE callers # << >> /\ Return(Head(callers).iNdEx)
    <2>1. Head(callers) \in Frame
      BY <1>3, SMT DEF IInv, Types
    <2>2. QED
      BY <1>3, <2>1, ReturnKeepsIInv DEF Frame
  <1>4. QED
    BY <1>1, <1>2, <1>3 DEF NextField

(* Unmarshal: the switch over field numbers.                               *)
LEMMA SwitchKeepsIInv ==
  ASSUME IInv, fn \in Message, NEW kinds, kinds = KindsOf(fn),
         NEW skip \in Skip, Switch(kinds, skip)
  PROVE  IInv'
  <1>1. CASE Stop("error")
    BY <1>1, StopKeepsIInv
  <1>2. CASE /\ FieldOf(varint.value) \in DOMAIN kinds
             /\ fieldNum' = FieldOf(varint.value) /\ varint' = NoVarint
             /\ pc' = "length"
             /\ UNCHANGED <<slices, iNdEx, depth, preIndex, m>>
    <2>1. fn \notin Skip
      BY DEF Message, Skip
    <2>2. fieldNum' \in DOMAIN kinds /\ DOMAIN kinds \subseteq Int
      BY <1>2, FieldsAreKinds, SMT
    <2>3. varint' \in [value : 0..WordSize - 1, unit : Nat]
      BY <1>2, WireAssumption, SMT DEF NoVarint, WordSize
    <2>4. /\ fn' = fn /\ dAtA' = dAtA /\ callers' = callers /\ iNdEx' = iNdEx
          /\ depth' = depth /\ preIndex' = preIndex /\ m' = m /\ pc' = "length"
      BY <1>2 DEF slices
    <2>5. fieldNum' \in Int
      BY <2>2, SMT
    <2>6. Types'
      BY <2>3, <2>4, <2>5 DEF IInv, Types
    <2>7. QED
      BY <2>1, <2>2, <2>4, <2>6, SMT DEF IInv, UnmarshalWithin, SkipWithin, NoPanic
  <1>3. CASE pc = "switch" /\ Call(skip, Slice(preIndex, l), preIndex)
    <2>1. 0 <= preIndex /\ preIndex <= Len(dAtA) /\ preIndex \in Int
      BY <1>3 DEF IInv, Types, UnmarshalWithin
    <2>2. l \in Int /\ InBounds(preIndex, l)
      BY <2>1, ArgumentFacts, SMT DEF IInv, InBounds, l
    <2>3. Slice(preIndex, l) \in Slices
      BY <2>1, <2>2, SliceIsSlice DEF IInv
    <2>4. QED
      BY <1>3, <2>1, <2>3, CallKeepsIInv
  <1>4. QED
    BY <1>1, <1>2, <1>3 DEF Switch

(* Unmarshal: the contents of a field.                                     *)
LEMMA AssignKeepsIInv ==
  ASSUME IInv, fn \in Message, fieldNum \in 1..MaxField,
         NEW text \in Seq(Byte), NEW postIndex \in Int,
         0 <= postIndex, postIndex <= l, Assign(text, postIndex)
  PROVE  IInv'
  <1>1. fn \notin Skip
    BY DEF Message, Skip
  <1>2. m' \in Contents
    BY SMT DEF Assign, IInv, Types, Contents
  <1>3. /\ fn' = fn /\ dAtA' = dAtA /\ callers' = callers /\ iNdEx' = postIndex
        /\ depth' = depth /\ preIndex' = preIndex /\ fieldNum' = fieldNum
        /\ varint' = varint /\ pc' = "loop"
    BY DEF Assign, slices
  <1>4. Types'
    BY <1>2, <1>3 DEF IInv, Types
  <1>5. QED
    BY <1>1, <1>3, <1>4, SMT DEF IInv, UnmarshalWithin, SkipWithin, NoPanic, l

LEMMA TakeFieldKeepsIInv ==
  ASSUME IInv, fn \in Message, NEW kinds, kinds = KindsOf(fn), TakeField(kinds)
  PROVE  IInv'
  <1> DEFINE n == AsInt(varint.value)
             postIndex == Plus(iNdEx, n)
             kind == kinds[fieldNum]
             text == Slice(iNdEx, postIndex)
  <1>1. CASE Refused(n, postIndex)
    <2>1. Stop("error")
      BY <1>1 DEF TakeField
    <2>2. QED
      BY <2>1, StopKeepsIInv
  <1>2. CASE ~Refused(n, postIndex)
    <2>1. fieldNum \in 1..MaxField /\ kind \in Kind
      <3>1. fieldNum \in DOMAIN KindsOf(fn)
        BY DEF TakeField, IInv, UnmarshalWithin
      <3>2. QED
        BY <3>1, FieldsAreKinds, WireAssumption, SMT
    <2>2. n \in Int /\ n <= MaxInt
      BY AsIntInRange DEF IInv, Types
    <2>3. iNdEx \in 0..MaxInt /\ l \in Nat /\ l <= MaxInt /\ iNdEx <= l
      BY ArgumentFacts, WireAssumption, SMT DEF IInv, Types, UnmarshalWithin, l
    <2>4. postIndex \in Int /\ n \in Nat /\ postIndex >= 0 /\ postIndex <= l
      <3> HIDE DEF n
      <3>1. ~(n < 0) /\ ~(postIndex < 0) /\ ~(postIndex > l)
        BY <1>2 DEF Refused
      <3>2. n \in 0..MaxInt
        BY <2>2, <3>1, WireAssumption, SMT
      <3>3. postIndex \in Int
        BY <2>3, <3>2, PlusChecks
      <3>4. QED
        BY <2>3, <3>1, <3>2, <3>3, SMT
    <2>5. postIndex = iNdEx + n
      <3> HIDE DEF n
      <3>1. n \in 0..MaxInt
        BY <2>2, <2>4, WireAssumption, SMT
      <3>2. QED
        BY <2>3, <2>4, <3>1, PlusChecks
    <2> HIDE DEF n, postIndex, kind, text
    <2>6. InBounds(iNdEx, postIndex)
      BY <2>3, <2>4, <2>5, SMT DEF InBounds
    <2>7. text \in Slices /\ text \in Seq(Byte)
      BY <2>3, <2>4, <2>6, SliceIsSlice, SMT DEF IInv, text, Slices
    <2>8. /\ kind = "string" => Assign(text, postIndex)
          /\ kind = "Int" => AssignInt(text, postIndex)
          /\ kind \notin {"string", "Int"} => Call(kind, text, postIndex)
      BY <1>2, <2>6 DEF TakeField, n, postIndex, kind, text
    <2>9. CASE Assign(text, postIndex)
      BY <2>1, <2>4, <2>7, <2>9, AssignKeepsIInv
    <2>10. CASE AssignInt(text, postIndex)
      <3>1. m[fieldNum] \in Seq(Byte)
        BY <2>1 DEF IInv, Types, Contents
      <3>2. CASE Assign(m[fieldNum], postIndex)
        BY <2>1, <2>4, <3>1, <3>2, AssignKeepsIInv
      <3>3. CASE Stop("error")
        BY <3>3, StopKeepsIInv
      <3>4. QED
        BY <2>9, <2>10, <3>2, <3>3 DEF AssignInt
    <2>11. ASSUME kind \notin {"string", "Int"} PROVE IInv'
      <3>1. kind \in Message
        BY <2>1, <2>11 DEF Kind
      <3>2. postIndex <= Len(dAtA)
        BY <2>4 DEF l
      <3>3. QED
        BY <2>4, <2>7, <2>8, <2>11, <3>1, <3>2, CallKeepsIInv
    <2>12. QED
      BY <2>8, <2>9, <2>10, <2>11
  <1>3. QED
    BY <1>1, <1>2

(* A round of Unmarshal, for any message with known fields of these kinds. *)
LEMMA UnmarshalKeepsIInv ==
  ASSUME IInv, fn \in Message, NEW kinds, kinds = KindsOf(fn),
         NEW skip \in Skip, UnmarshalStep(kinds, skip)
  PROVE  IInv'
  <1>1. CASE NextField
    BY <1>1, NextFieldKeepsIInv
  <1>2. CASE ReadByte("tag", "switch") \/ ReadByte("length", "take")
    BY <1>2, ReadByteKeepsIInv
  <1>3. CASE Switch(kinds, skip)
    BY <1>3, SwitchKeepsIInv
  <1>4. CASE TakeField(kinds)
    BY <1>4, TakeFieldKeepsIInv
  <1>5. QED
    BY <1>1, <1>2, <1>3, <1>4 DEF UnmarshalStep

-----------------------------------------------------------------------------
(* Skip: a step within the function.  The index is not negative, or it is  *)
(* about to be checked.                                                    *)
LEMMA SkipMovesKeepsIInv ==
  ASSUME IInv, fn \in Skip,
         UNCHANGED <<slices, preIndex, fieldNum, m>>,
         iNdEx' \in Int, iNdEx' <= MaxInt, depth' \in Nat,
         varint' \in [value : 0..WordSize - 1, unit : Nat],
         pc' \in {"loop", "tag", "switch", "varint", "length", "take", "passed"},
         pc' # "passed" => 0 <= iNdEx'
  PROVE  IInv'
  <1>1. fn \notin Message
    BY DEF Message, Skip
  <1>2. /\ fn' = fn /\ dAtA' = dAtA /\ callers' = callers
        /\ preIndex' = preIndex /\ fieldNum' = fieldNum /\ m' = m
    BY DEF slices
  <1>3. Types'
    BY <1>2 DEF IInv, Types
  <1>4. QED
    BY <1>1, <1>2, <1>3, SMT DEF IInv, UnmarshalWithin, SkipWithin, NoPanic

LEMMA NextTagKeepsIInv ==
  ASSUME IInv, fn \in Skip, NextTag
  PROVE  IInv'
  <1>1. CASE Stop("error")
    BY <1>1, StopKeepsIInv
  <1>2. CASE StartVarint("tag") /\ UNCHANGED <<iNdEx, depth>>
    <2>1. varint' \in [value : 0..WordSize - 1, unit : Nat]
      BY <1>2, WireAssumption, SMT DEF StartVarint, NoVarint, WordSize
    <2>2. /\ UNCHANGED <<slices, preIndex, fieldNum, m>> /\ pc' = "tag"
          /\ iNdEx' = iNdEx /\ depth' = depth
      BY <1>2 DEF StartVarint, Go
    <2>3. pc = "loop"
      BY DEF NextTag
    <2>4. 0 <= iNdEx /\ iNdEx <= MaxInt /\ iNdEx \in Int /\ depth \in Nat
      BY <2>3 DEF IInv, Types, SkipWithin
    <2>5. QED
      BY <2>1, <2>2, <2>4, SkipMovesKeepsIInv
  <1>3. QED
    BY <1>1, <1>2 DEF NextTag

LEMMA SkipSwitchKeepsIInv ==
  ASSUME IInv, fn \in Skip, SkipSwitch
  PROVE  IInv'
  <1>1. /\ pc = "switch" /\ 0 <= iNdEx /\ iNdEx <= MaxInt /\ iNdEx \in Int
        /\ depth \in Nat /\ varint \in [value : 0..WordSize - 1, unit : Nat]
    BY DEF SkipSwitch, IInv, Types, SkipWithin
  <1>2. CASE (StartVarint("varint") \/ StartVarint("length")) /\ UNCHANGED <<iNdEx, depth>>
    <2>1. varint' \in [value : 0..WordSize - 1, unit : Nat]
      BY <1>2, WireAssumption, SMT DEF StartVarint, NoVarint, WordSize
    <2>2. /\ UNCHANGED <<slices, preIndex, fieldNum, m>> /\ pc' \in {"varint", "length"}
          /\ iNdEx' = iNdEx /\ depth' = depth
      BY <1>2 DEF StartVarint, Go
    <2>3. QED
      BY <1>1, <2>1, <2>2, SkipMovesKeepsIInv
  <1>3. ASSUME NEW type \in {1, 5}, iNdEx' = Plus(iNdEx, FixedSize(type)),
               Go("passed"), UNCHANGED <<depth, varint>>
        PROVE  IInv'
    <2>1. FixedSize(type) \in 0..MaxInt /\ iNdEx \in 0..MaxInt
      BY <1>1, WireAssumption, SMT DEF FixedSize
    <2>2. iNdEx' \in Int /\ iNdEx' <= MaxInt
      BY <1>3, <2>1, PlusChecks
    <2>3. /\ UNCHANGED <<slices, preIndex, fieldNum, m>> /\ pc' = "passed"
          /\ varint' = varint /\ depth' = depth
      BY <1>3 DEF Go
    <2>4. QED
      BY <1>1, <2>2, <2>3, SkipMovesKeepsIInv
  <1>4. CASE /\ depth' = depth + 1 \/ (depth > 0 /\ depth' = depth - 1)
             /\ Go("passed") /\ UNCHANGED <<iNdEx, varint>>
    <2>1. depth' \in Nat
      BY <1>1, <1>4, SMT
    <2>2. /\ UNCHANGED <<slices, preIndex, fieldNum, m>> /\ pc' = "passed"
          /\ varint' = varint /\ iNdEx' = iNdEx
      BY <1>4 DEF Go
    <2>3. QED
      BY <1>1, <2>1, <2>2, SkipMovesKeepsIInv
  <1>5. CASE Stop("error")
    BY <1>5, StopKeepsIInv
  <1>6. QED
    BY <1>2, <1>3, <1>4, <1>5, Zenon DEF SkipSwitch

LEMMA PassLengthKeepsIInv ==
  ASSUME IInv, fn \in Skip, PassLength
  PROVE  IInv'
  <1> DEFINE n == AsInt(varint.value)
  <1>1. CASE Negative(n)
    <2>1. Stop("error")
      BY <1>1 DEF PassLength
    <2>2. QED
      BY <2>1, StopKeepsIInv
  <1>2. CASE ~Negative(n)
    <2>1. n \in Int /\ n <= MaxInt /\ ~(n < 0)
      BY <1>2, AsIntInRange DEF IInv, Types, Negative
    <2>2. /\ iNdEx' = Plus(iNdEx, n) /\ Go("passed") /\ UNCHANGED <<depth, varint>>
          /\ pc = "take"
      BY <1>2 DEF PassLength
    <2> HIDE DEF n
    <2>3. n \in 0..MaxInt
      BY <2>1, WireAssumption, SMT
    <2>4. iNdEx \in 0..MaxInt
      BY <2>2, WireAssumption, SMT DEF IInv, Types, SkipWithin
    <2>5. iNdEx' \in Int /\ iNdEx' <= MaxInt
      BY <2>2, <2>3, <2>4, PlusChecks
    <2>6. /\ UNCHANGED <<slices, preIndex, fieldNum, m>> /\ pc' = "passed"
          /\ varint' \in [value : 0..WordSize - 1, unit : Nat] /\ depth' \in Nat
      BY <2>2 DEF Go, IInv, Types
    <2>7. QED
      BY <2>5, <2>6, SkipMovesKeepsIInv
  <1>3. QED
    BY <1>1, <1>2

LEMMA PassedKeepsIInv ==
  ASSUME IInv, fn \in Skip, Passed
  PROVE  IInv'
  <1>1. iNdEx \in Int /\ iNdEx <= MaxInt /\ depth \in Nat /\ callers # << >>
    BY DEF IInv, Types, SkipWithin
  <1>2. CASE /\ iNdEx >= 0 /\ pc' = "loop"
             /\ UNCHANGED <<slices, iNdEx, depth, preIndex, fieldNum, varint, m>>
    <2>1. /\ UNCHANGED <<slices, preIndex, fieldNum, m>>
          /\ iNdEx' = iNdEx /\ depth' = depth
          /\ varint' \in [value : 0..WordSize - 1, unit : Nat]
      BY <1>2 DEF IInv, Types
    <2>2. 0 <= iNdEx
      BY <1>1, <1>2, SMT
    <2>3. QED
      BY <1>1, <1>2, <2>1, <2>2, SkipMovesKeepsIInv
  <1>3. CASE Stop("error")
    BY <1>3, StopKeepsIInv
  <1>4. CASE /\ iNdEx >= 0 /\ Resumed >= 0 /\ Resumed <= Len(Head(callers).dAtA)
             /\ Return(Resumed)
    <2>1. Head(callers) \in Frame
      BY <1>1, SMT DEF IInv, Types
    <2>2. Head(callers).iNdEx \in 0..MaxInt
      BY <2>1, WireAssumption, SMT DEF Frame, Slices
    <2>3. iNdEx \in 0..MaxInt
      BY <1>1, <1>4, WireAssumption, SMT
    <2>4. Resumed \in Int
      BY <2>2, <2>3, PlusChecks DEF Resumed
    <2>5. 0 <= Resumed
      BY <1>4, <2>4, SMT
    <2>6. QED
      BY <1>1, <1>4, <2>4, <2>5, ReturnKeepsIInv
  <1>5. QED
    BY <1>2, <1>3, <1>4, Zenon DEF Passed

(* A round of a skip function.                                             *)
LEMMA SkipKeepsIInv ==
  ASSUME IInv, fn \in Skip, SkipStep
  PROVE  IInv'
  <1>1. fn \notin Message
    BY DEF Message, Skip
  <1>2. CASE NextTag
    BY <1>2, NextTagKeepsIInv
  <1>3. CASE ReadByte("tag", "switch") \/ ReadByte("varint", "passed") \/ ReadByte("length", "take")
    BY <1>1, <1>3, ReadByteKeepsIInv
  <1>4. CASE SkipSwitch
    BY <1>4, SkipSwitchKeepsIInv
  <1>5. CASE PassLength
    BY <1>5, PassLengthKeepsIInv
  <1>6. CASE Passed
    BY <1>6, PassedKeepsIInv
  <1>7. QED
    BY <1>2, <1>3, <1>4, <1>5, <1>6 DEF SkipStep

-----------------------------------------------------------------------------
(* Every round of every function keeps the invariant.                      *)
THEOREM NextKeepsIInv == IInv /\ [Next]_vars => IInv'
  <1> SUFFICES ASSUME IInv, [Next]_vars PROVE IInv'
    OBVIOUS
  <1>1. ASSUME fn \in Message, NEW skip \in Skip, UnmarshalStep(KindsOf(fn), skip)
        PROVE  IInv'
    BY <1>1, UnmarshalKeepsIInv
  <1>2. ASSUME fn \in Skip, SkipStep PROVE IInv'
    BY <1>2, SkipKeepsIInv
  <1>3. CASE UnmarshalMsgUpdateParams
    BY <1>1, <1>3 DEF UnmarshalMsgUpdateParams, KindsOf, Message, Skip
  <1>4. CASE UnmarshalMsgUpdateParamsResponse
    BY <1>1, <1>4 DEF UnmarshalMsgUpdateParamsResponse, KindsOf, Message, Skip
  <1>5. CASE UnmarshalMsgMintTokens
    BY <1>1, <1>5 DEF UnmarshalMsgMintTokens, KindsOf, Message, Skip
  <1>6. CASE UnmarshalMsgMintTokensResponse
    BY <1>1, <1>6 DEF UnmarshalMsgMintTokensResponse, KindsOf, Message, Skip
  <1>7. CASE UnmarshalQueryParamsRequest
    BY <1>1, <1>7 DEF UnmarshalQueryParamsRequest, KindsOf, Message, Skip
  <1>8. CASE UnmarshalQueryParamsResponse
    BY <1>1, <1>8 DEF UnmarshalQueryParamsResponse, KindsOf, Message, Skip
  <1>9. CASE UnmarshalGenesisState
    BY <1>1, <1>9 DEF UnmarshalGenesisState, KindsOf, Message, Skip
  <1>10. CASE UnmarshalModule
    BY <1>1, <1>10 DEF UnmarshalModule, KindsOf, Message, Skip
  <1>11. CASE UnmarshalParams
    BY <1>1, <1>11 DEF UnmarshalParams, KindsOf, Message, Skip
  <1>12. CASE SkipTx \/ SkipQuery \/ SkipGenesis \/ SkipModule \/ SkipParams
    BY <1>2, <1>12 DEF SkipTx, SkipQuery, SkipGenesis, SkipModule, SkipParams, Skip
  <1>13. CASE UNCHANGED vars \/ Returned
    BY <1>13
    DEF Returned, vars, slices, IInv, Types, UnmarshalWithin, SkipWithin, NoPanic
  <1>14. QED
    BY <1>3, <1>4, <1>5, <1>6, <1>7, <1>8, <1>9, <1>10, <1>11, <1>12, <1>13 DEF Next, Round

(* No decoder indexes or slices out of bounds, for all bytes, messages'    *)
(* contents and widths of the machine's integers.                          *)
THEOREM DecodersDoNotPanic == Spec => []NoPanic
  <1>1. IInv => NoPanic
    BY DEF IInv
  <1>2. QED
    BY InitIInv, NextKeepsIInv, <1>1, PTL DEF Spec
-----------------------------------------------------------------------------
(* A function is behind the start of what it reads: Unmarshal behind the   *)
(* start of its field, skip behind the start of its slice.                 *)
Advanced ==
  /\ fn \in Message =>
       /\ pc = "tag" => 0 <= preIndex /\ preIndex <= iNdEx
       /\ pc \in {"switch", "length", "take"} => 0 <= preIndex /\ preIndex < iNdEx
  /\ fn \in Skip =>
       /\ pc \in {"switch", "varint", "length", "take"} => 1 <= iNdEx
       /\ pc = "passed" => iNdEx # 0

(* Only Params is embedded, and it has no known fields.                    *)
Nested ==
  /\ fn \in Message /\ fn # "Params" => callers = << >>
  /\ fn = "Params" => Len(callers) <= 1
  /\ fn \in Skip => /\ Len(callers) <= 2
                    /\ Len(callers) = 2 => Head(callers).fn = "Params"

CInv == IInv /\ Advanced /\ Nested

(* The kinds of steps.                                                     *)
GoesOn == fn' = fn /\ callers' = callers /\ Less(Running', Running)

Suspends ==
  \E c \in Frame :
    c.fn = fn /\ callers' = <<c>> \o callers /\ Less(Waiting(c, fn'), Running)

Resumes ==
  /\ callers # << >>
  /\ fn' = Head(callers).fn /\ callers' = Tail(callers)
  /\ Less(Running', Waiting(Head(callers), fn))

Closer ==
  /\ Len(callers') <= 2
  /\ \E k \in DOMAIN Rank \cap DOMAIN Rank' :
       /\ \A j \in 1..k - 1 : Rank'[j] = Rank[j]
       /\ Less(Rank'[k], Rank[k])

(* What is left is counted by natural numbers.                             *)
LEMMA LeftFacts ==
  ASSUME NEW a \in Int, NEW b \in Int, 0 <= a, a <= MaxInt, b <= MaxInt
  PROVE  /\ Left(a) \in Nat /\ Left(b) \in Nat
         /\ a < b => Left(b) + 1 <= Left(a)
         /\ a <= b \/ b < 0 => Left(b) <= Left(a)
  BY WireAssumption, SMT DEF Left

LEMMA NestedIsShort == Types /\ Nested => Len(callers) <= 2
  <1> SUFFICES ASSUME Types, Nested PROVE Len(callers) <= 2
    OBVIOUS
  <1>1. fn \in Message \cup Skip
    BY DEF Types
  <1>2. callers = << >> => Len(callers) = 0
    BY SMT
  <1>3. callers \in Seq(Frame) /\ Len(callers) \in Nat
    BY DEF Types
  <1>4. QED
    BY <1>1, <1>2, <1>3 DEF Nested

(* Each of them makes the rank smaller.                                    *)
LEMMA GoesOnCloser ==
  ASSUME Types, Nested, GoesOn
  PROVE  Closer
  <1> DEFINE n == Len(callers)
  <1>1. n \in Nat /\ fn' = fn /\ callers' = callers /\ n <= 2
    BY NestedIsShort DEF GoesOn, Types
  <1>2. /\ DOMAIN Rank = 1..n + 1 /\ Rank[n + 1] = Running
        /\ DOMAIN Rank' = 1..n + 1 /\ Rank'[n + 1] = Running'
    BY <1>1 DEF Rank
  <1>3. \A j \in 1..n : Rank'[j] = Rank[j]
    BY <1>1 DEF Rank, Waiting, Left
  <1>4. n + 1 \in DOMAIN Rank \cap DOMAIN Rank' /\ (n + 1) - 1 = n
    BY <1>1, <1>2
  <1>5. Less(Rank'[n + 1], Rank[n + 1])
    BY <1>2 DEF GoesOn
  <1> HIDE DEF n
  <1>6. QED
    BY <1>1, <1>3, <1>4, <1>5 DEF Closer, n

LEMMA SuspendsCloser ==
  ASSUME Types, Suspends, Len(callers') <= 2
  PROVE  Closer
  <1> DEFINE n == Len(callers)
  <1>1. PICK c \in Frame : /\ c.fn = fn /\ callers' = <<c>> \o callers
                           /\ Less(Waiting(c, fn'), Running)
    BY DEF Suspends
  <1>2. n \in Nat /\ callers \in Seq(Frame)
    BY DEF Types
  <1>3. /\ Len(callers') = n + 1 /\ callers'[1] = c
        /\ \A i \in 1..n : callers'[i + 1] = callers[i]
    BY <1>1, <1>2
  <1>4. DOMAIN Rank = 1..n + 1 /\ Rank[n + 1] = Running
    BY <1>2 DEF Rank
  <1>5. /\ DOMAIN Rank' = 1..n + 2
        /\ Rank'[n + 1] = Waiting(c, fn')
    BY <1>2, <1>3 DEF Rank, Waiting, Left
  <1>6. ASSUME NEW j \in 1..n
        PROVE  Rank'[j] = Rank[j]
    <2>1. callers'[n + 2 - j] = callers[n + 1 - j]
      BY <1>2, <1>3
    <2>2. (IF j = n + 1 THEN fn' ELSE callers'[n + 1 - j].fn)
            = IF j = n THEN fn ELSE callers[n - j].fn
      <3>1. CASE j = n
        BY <1>1, <1>2, <1>3, <3>1
      <3>2. CASE j # n
        <4>1. n - j \in 1..n /\ n + 1 - j = (n - j) + 1
          BY <1>2, <3>2
        <4>2. callers'[n + 1 - j] = callers[n - j]
          BY <1>3, <4>1
        <4>3. QED
          BY <1>2, <3>2, <4>2
      <3>3. QED
        BY <3>1, <3>2
    <2>3. Rank[j] = Waiting(callers[n + 1 - j], IF j = n THEN fn ELSE callers[n - j].fn)
      BY <1>2 DEF Rank
    <2>4. Rank'[j] = Waiting(callers'[n + 2 - j], IF j = n + 1 THEN fn' ELSE callers'[n + 1 - j].fn)
      BY <1>2, <1>3 DEF Rank, Waiting, Left
    <2>5. QED
      BY <2>1, <2>2, <2>3, <2>4
  <1>7. n + 1 \in DOMAIN Rank \cap DOMAIN Rank' /\ (n + 1) - 1 = n
    BY <1>2, <1>4, <1>5
  <1>8. Less(Rank'[n + 1], Rank[n + 1])
    BY <1>1, <1>4, <1>5
  <1> HIDE DEF n
  <1>9. QED
    BY <1>6, <1>7, <1>8 DEF Closer

LEMMA ResumesCloser ==
  ASSUME Types, Nested, Resumes
  PROVE  Closer
  <1> DEFINE n == Len(callers)
  <1>1. /\ fn' = Head(callers).fn /\ callers' = Tail(callers)
        /\ Less(Running', Waiting(Head(callers), fn))
    BY DEF Resumes
  <1>2. n \in Nat \ {0} /\ callers \in Seq(Frame) /\ n <= 2
    BY NestedIsShort DEF Types, Resumes
  <1>3. /\ Len(callers') = n - 1 /\ Head(callers) = callers[1]
        /\ \A i \in 1..n - 1 : callers'[i] = callers[i + 1]
    BY <1>1, <1>2
  <1>4. DOMAIN Rank = 1..n + 1 /\ Rank[n] = Waiting(callers[1], fn)
    BY <1>2 DEF Rank
  <1>5. DOMAIN Rank' = 1..n /\ Rank'[n] = Running'
    BY <1>2, <1>3 DEF Rank
  <1>6. ASSUME NEW j \in 1..n - 1
        PROVE  Rank'[j] = Rank[j]
    <2>1. callers'[n - j] = callers[n + 1 - j]
      <3>1. n - j \in 1..n - 1 /\ n + 1 - j = (n - j) + 1
        BY <1>2
      <3>2. QED
        BY <1>3, <3>1
    <2>2. (IF j = n - 1 THEN fn' ELSE callers'[n - 1 - j].fn) = callers[n - j].fn
      <3>1. CASE j = n - 1
        BY <1>1, <1>2, <1>3, <3>1
      <3>2. CASE j # n - 1
        <4>1. n - 1 - j \in 1..n - 1 /\ n - j = (n - 1 - j) + 1
          BY <1>2, <3>2
        <4>2. callers'[n - 1 - j] = callers[n - j]
          BY <1>3, <4>1
        <4>3. QED
          BY <3>2, <4>2
      <3>3. QED
        BY <3>1, <3>2
    <2>3. Rank[j] = Waiting(callers[n + 1 - j], callers[n - j].fn)
      BY <1>2 DEF Rank
    <2>4. Rank'[j] = Waiting(callers'[n - j], IF j = n - 1 THEN fn' ELSE callers'[n - 1 - j].fn)
      BY <1>2, <1>3 DEF Rank, Waiting, Left
    <2>5. QED
      BY <2>1, <2>2, <2>3, <2>4
  <1>7. n \in DOMAIN Rank \cap DOMAIN Rank'
    BY <1>2, <1>4, <1>5
  <1>8. Less(Rank'[n], Rank[n]) /\ Len(callers') <= 2
    BY <1>1, <1>2, <1>3, <1>4, <1>5
  <1> HIDE DEF n
  <1>9. QED
    BY <1>6, <1>7, <1>8 DEF Closer

-----------------------------------------------------------------------------
(* What a step does to the invariant and to the rank.                      *)
Progress == Advanced' /\ Nested' /\ (Ended' \/ GoesOn \/ Suspends \/ Resumes)

LEMMA StopProgress ==
  ASSUME Nested, NEW outcome \in {"ok", "error"}, Stop(outcome)
  PROVE  Progress
  BY DEF Stop, slices, Progress, Ended, Nested, Advanced

(* A step within a function, which stays before the end of the integers.   *)
LEMMA StepProgress ==
  ASSUME CInv, fn' = fn, callers' = callers, Advanced', Less(Running', Running)
  PROVE  Progress
  <1>1. Nested'
    BY DEF CInv, Nested
  <1>2. QED
    BY <1>1 DEF Progress, GoesOn

LEMMA LessPairs ==
  \A a, b \in Int : b < a => /\ Less(<<b, 0>>, <<a, 0>>)
                            /\ \A p : Less(<<p, b + 1>>, <<p, a + 1>>)
  BY DEF Less

(* A step within a field or within skip.                                   *)
LEMMA LessWork ==
  ASSUME Work \in Int, Work' \in Int, Work' < Work, fn' = fn, preIndex' = preIndex,
         fn \in Message => pc # "loop" /\ pc' # "loop"
  PROVE  Less(Running', Running)
  <1>0. Work \in Int /\ Work' \in Int /\ Work' < Work
    OBVIOUS
  <1>1. CASE fn \in Message
    <2>1. Running = <<2 * Left(preIndex), Work + 1>>
      BY <1>1 DEF Running
    <2>2. Running' = <<2 * Left(preIndex), Work' + 1>>
      BY <1>1 DEF Running, Left
    <2>3. QED
      BY ONLY <1>0, <2>1, <2>2, LessPairs
  <1>2. CASE fn \notin Message
    <2>1. Running = <<Work, 0>>
      BY <1>2 DEF Running
    <2>2. Running' = <<Work', 0>>
      BY <1>2 DEF Running
    <2>3. QED
      BY ONLY <1>0, <2>1, <2>2, LessPairs
  <1>3. QED
    BY <1>1, <1>2

(* Any index is at most the largest integer.                               *)
LEMMA IndexFacts ==
  ASSUME IInv
  PROVE  /\ iNdEx \in Int /\ iNdEx <= MaxInt /\ preIndex \in Int
         /\ fn \in Message => 0 <= iNdEx /\ (pc \in {"tag", "switch"} => 0 <= preIndex)
         /\ fn \in Message => fn \notin Skip
         /\ fn \notin Message => fn \in Skip
         /\ l \in Nat /\ l <= MaxInt
  <1>1. l \in Nat /\ l <= MaxInt
    BY ArgumentFacts DEF IInv
  <1>2. fn \in Message => fn \notin Skip
    BY DEF Message, Skip
  <1>3. fn \in Message \cup Skip /\ iNdEx \in Int /\ preIndex \in Int
    BY DEF IInv, Types
  <1>4. fn \in Message => iNdEx <= l /\ 0 <= iNdEx /\ (pc \in {"tag", "switch"} => 0 <= preIndex)
    BY DEF IInv, UnmarshalWithin, l
  <1>5. fn \in Skip => iNdEx <= MaxInt
    BY DEF IInv, SkipWithin
  <1>6. MaxInt \in Nat
    BY WireAssumption
  <1>7. QED
    BY ONLY <1>1, <1>2, <1>3, <1>4, <1>5, <1>6

(* What a byte that is read changes.                                       *)
LEMMA ByteRead ==
  ASSUME IInv, NEW stage \in {"tag", "varint", "length"},
         NEW next \in {"switch", "take", "passed"}, ReadByte(stage, next)
  PROVE  \/ Stop("error")
         \/ /\ pc = stage /\ pc' \in {stage, next} /\ 0 <= iNdEx /\ iNdEx < l
            /\ iNdEx' = iNdEx + 1
            /\ UNCHANGED <<fn, dAtA, callers, preIndex, depth>>
  <1>1. CASE TooLong \/ iNdEx >= l
    <2>1. iNdEx \in Int /\ l \in Nat
      BY IndexFacts
    <2>2. ~(~TooLong /\ iNdEx < l)
      BY ONLY <1>1, <2>1
    <2>3. QED
      BY <2>2 DEF ReadByte
  <1>2. CASE ~(TooLong \/ iNdEx >= l)
    <2>1. 0 <= iNdEx /\ iNdEx \in Int /\ l \in Nat
      BY IndexFacts DEF ReadByte, IInv, SkipWithin
    <2>2. ~(iNdEx < 0) /\ iNdEx < l
      BY ONLY <1>2, <2>1
    <2>3. /\ pc = stage /\ iNdEx' = iNdEx + 1 /\ UNCHANGED depth
          /\ Go(IF At(iNdEx) < 128 THEN next ELSE stage)
      BY <1>2, <2>2, Zenon DEF ReadByte
    <2>4. pc' \in {stage, next} /\ UNCHANGED <<fn, dAtA, callers, preIndex>>
      BY ONLY <2>3 DEF Go, slices
    <2>5. QED
      BY ONLY <2>1, <2>2, <2>3, <2>4
  <1>3. QED
    BY <1>1, <1>2

LEMMA ReadByteProgress ==
  ASSUME CInv, NEW stage \in {"tag", "varint", "length"},
         NEW next \in {"switch", "take", "passed"},
         fn \in Message => stage # "varint" /\ next # "passed",
         ReadByte(stage, next)
  PROVE  Progress
  <1>0. IInv /\ Advanced /\ Nested
    BY DEF CInv
  <1>1. CASE Stop("error")
    BY <1>0, <1>1, StopProgress
  <1>2. CASE /\ pc = stage /\ pc' \in {stage, next} /\ 0 <= iNdEx /\ iNdEx < l
             /\ iNdEx' = iNdEx + 1
             /\ UNCHANGED <<fn, dAtA, callers, preIndex, depth>>
    <2>1. /\ iNdEx \in Int /\ preIndex \in Int /\ l \in Nat /\ l <= MaxInt /\ MaxInt \in Nat
          /\ fn \in Message => fn \notin Skip
      BY <1>0, IndexFacts, WireAssumption
    <2>2. Left(iNdEx') + 1 <= Left(iNdEx) /\ Left(iNdEx') \in Nat /\ Left(iNdEx) \in Nat
      BY ONLY <1>2, <2>1, LeftFacts
    <2>3. Advanced'
      <3>1. fn \in Message /\ stage = "tag" => 0 <= preIndex /\ preIndex <= iNdEx
        BY <1>0, <1>2 DEF Advanced
      <3>2. fn \in Message /\ stage = "length" => 0 <= preIndex /\ preIndex < iNdEx
        BY <1>0, <1>2 DEF Advanced
      <3>3. fn \in Message => 0 <= preIndex /\ preIndex < iNdEx'
        BY <1>2, <2>1, <3>1, <3>2
      <3>4. 1 <= iNdEx'
        BY <1>2, <2>1
      <3>5. preIndex' = preIndex /\ iNdEx' \in Int /\ fn' = fn
        BY <1>2, <2>1
      <3>6. QED
        BY ONLY <2>1, <3>3, <3>4, <3>5 DEF Advanced
    <2>4. Work' < Work /\ Work' \in Int /\ Work \in Int /\ pc # "loop" /\ pc' # "loop"
      <3>1. pc \in {"tag", "varint", "length"}
        BY <1>2
      <3>2. pc' \in {"tag", "varint", "length", "switch", "take", "passed"}
        BY <1>2
      <3>3. Stage[pc] \in 0..7 /\ Stage[pc'] \in 0..7
        BY ONLY <3>1, <3>2 DEF Stage
      <3>4. Work = 8 * Left(iNdEx) + Stage[pc] /\ Work' = 8 * Left(iNdEx') + Stage[pc']
        BY DEF Work, Left, Stage
      <3>5. QED
        BY ONLY <2>2, <3>1, <3>2, <3>3, <3>4
    <2>5. Less(Running', Running)
      BY <1>2, <2>4, LessWork
    <2>6. QED
      BY <1>2, <2>3, <2>5, StepProgress
  <1>3. QED
    BY <1>0, <1>1, <1>2, ByteRead

(* The latest caller goes on.                                              *)
LEMMA ReturnProgress ==
  ASSUME CInv, callers # << >>, NEW at \in Int, Return(at),
         Less(<<2 * Left(at) + 1, 0>>, Waiting(Head(callers), fn))
  PROVE  Progress
  <1> DEFINE c == Head(callers)
  <1>1. c \in Frame /\ callers \in Seq(Frame) /\ fn \in Message \cup Skip
    BY DEF CInv, IInv, Types
  <1>2. c.fn \in Message /\ c.fn \notin Skip
    BY <1>1 DEF Frame, Message, Skip
  <1>3. /\ fn' = c.fn /\ callers' = Tail(callers)
        /\ iNdEx' = at /\ pc' = "loop"
    BY DEF Return
  <1> HIDE DEF c
  <1>4. Running' = <<2 * Left(at) + 1, 0>>
    BY <1>2, <1>3 DEF Running, Left
  <1>5. Resumes
    BY <1>3, <1>4 DEF Resumes, c
  <1>6. Len(callers) \in Nat \ {0} /\ Len(callers') = Len(callers) - 1
        /\ (Len(callers') = 0 => callers' = << >>)
    BY <1>1, <1>3
  <1>7. Nested'
    <2>1. Len(callers) <= 2 /\ (Len(callers) = 2 => c.fn = "Params")
      <3>1. fn \in Message /\ fn # "Params" => callers = << >>
        BY DEF CInv, Nested
      <3>2. fn = "Params" => Len(callers) <= 1
        BY DEF CInv, Nested
      <3>3. fn \in Skip => Len(callers) <= 2 /\ (Len(callers) = 2 => c.fn = "Params")
        BY DEF CInv, Nested, c
      <3>4. QED
        BY <1>1, <1>6, <3>1, <3>2, <3>3
    <2>2. fn' # "Params" => callers' = << >>
      BY <1>3, <1>6, <2>1
    <2>3. fn' = "Params" => Len(callers') <= 1
      BY <1>6, <2>1
    <2>4. fn' \notin Skip
      BY <1>2, <1>3
    <2>5. QED
      BY ONLY <2>2, <2>3, <2>4 DEF Nested
  <1>8. Advanced'
    BY <1>2, <1>3 DEF Advanced
  <1>9. QED
    BY <1>5, <1>7, <1>8 DEF Progress

(* Unmarshal waits for skip, or for Params.                                *)
LEMMA CallProgress ==
  ASSUME CInv, fn \in Message, NEW f, f \in Skip \/ (f = "Params" /\ fn # "Params"),
         NEW slice \in Slices, NEW resume \in Int, 0 <= resume, resume <= Len(dAtA),
         Call(f, slice, resume),
         Less(<<2 * Left(resume) + (IF f \in Message THEN 2 ELSE 0), 0>>, Running)
  PROVE  Progress
  <1> DEFINE c == [fn |-> fn, dAtA |-> dAtA, iNdEx |-> resume, m |-> m]
  <1>1. c \in Frame /\ c.fn = fn /\ c.iNdEx = resume
    BY DEF CInv, IInv, Types, Frame
  <1>2. callers' = <<c>> \o callers /\ fn' = f /\ pc' = "loop"
    BY DEF Call
  <1> HIDE DEF c
  <1>3. Suspends
    BY <1>1, <1>2 DEF Suspends, Waiting
  <1>4. callers \in Seq(Frame) /\ (fn # "Params" => callers = << >>) /\ Len(callers) <= 1
    <2>1. callers = << >> => Len(callers) = 0
      OBVIOUS
    <2>2. QED
      BY <2>1 DEF CInv, IInv, Types, Nested
  <1>5. /\ Len(callers') = Len(callers) + 1 /\ Head(callers') = c /\ Len(callers) \in Nat
        /\ (callers = << >> => Len(callers') = 1)
    BY <1>1, <1>2, <1>4
  <1>6. Nested'
    <2>1. f \in Skip => f \notin Message
      BY DEF Message, Skip
    <2>2. f = "Params" => f \in Message /\ f \notin Skip
      BY DEF Message, Skip
    <2>3. f \in Skip => f # "Params"
      BY ONLY <2>2
    <2>4. f = "Params" => Len(callers') <= 1
      BY <1>4, <1>5, <2>3
    <2>5. Len(callers') <= 2 /\ (Len(callers') = 2 => Head(callers').fn = "Params")
      BY <1>1, <1>4, <1>5
    <2>6. f \in Message => f = "Params"
      BY <2>1
    <2>7. QED
      BY ONLY <1>2, <2>3, <2>4, <2>5, <2>6 DEF Nested
  <1>7. Advanced'
    BY <1>2 DEF Advanced
  <1>8. QED
    BY <1>3, <1>6, <1>7 DEF Progress

(* Unmarshal: the loop over fields.                                        *)
LEMMA NextFieldProgress ==
  ASSUME CInv, fn \in Message, NextField
  PROVE  Progress
  <1>0. /\ IInv /\ Nested /\ iNdEx \in Int /\ 0 <= iNdEx /\ iNdEx <= MaxInt /\ MaxInt \in Nat
        /\ fn \notin Skip
    BY IndexFacts, WireAssumption DEF CInv
  <1>1. CASE iNdEx < l /\ UNCHANGED <<slices, iNdEx, depth, fieldNum, m>>
             /\ preIndex' = iNdEx /\ varint' = NoVarint /\ pc' = "tag"
    <2>1. fn' = fn /\ callers' = callers /\ iNdEx' = iNdEx
      BY <1>1 DEF slices
    <2>2. Running = <<2 * Left(iNdEx) + 1, 0>>
      BY DEF Running, NextField
    <2>3. Running' = <<2 * Left(iNdEx), Work' + 1>>
      BY <1>1, <2>1 DEF Running, Left
    <2>4. Left(iNdEx) \in Nat
      BY ONLY <1>0, LeftFacts
    <2>5. Less(Running', Running)
      BY ONLY <2>2, <2>3, <2>4 DEF Less
    <2>6. Advanced'
      BY <1>0, <1>1, <2>1 DEF Advanced
    <2>7. QED
      BY <2>1, <2>5, <2>6, StepProgress
  <1>2. CASE Stop("error") \/ Stop("ok")
    BY <1>0, <1>2, StopProgress
  <1>3. CASE callers # << >> /\ Return(Head(callers).iNdEx)
    <2> DEFINE at == Head(callers).iNdEx
    <2>1. at \in Int /\ 0 <= at /\ at <= MaxInt
      <3>1. Head(callers) \in Frame
        BY <1>0, <1>3 DEF IInv, Types
      <3>2. QED
        BY <1>0, <3>1 DEF Frame, Slices
    <2>2. Waiting(Head(callers), fn) = <<2 * Left(at) + 2, 0>>
      BY DEF Waiting
    <2>3. Return(at)
      BY <1>3
    <2> HIDE DEF at
    <2>4. Left(at) \in Nat
      BY ONLY <1>0, <2>1, LeftFacts
    <2>5. Less(<<2 * Left(at) + 1, 0>>, Waiting(Head(callers), fn))
      BY ONLY <2>2, <2>4 DEF Less
    <2>6. QED
      BY <1>3, <2>1, <2>3, <2>5, ReturnProgress
  <1>4. QED
    BY <1>1, <1>2, <1>3 DEF NextField

(* The work within a field.                                                *)
LEMMA WorkFacts ==
  ASSUME IInv, pc \in DOMAIN Stage
  PROVE  Work = 8 * Left(iNdEx) + Stage[pc] /\ Work \in Nat /\ Left(iNdEx) \in Nat
  <1>1. iNdEx \in Int /\ iNdEx <= MaxInt /\ MaxInt \in Nat
    BY IndexFacts, WireAssumption
  <1>2. Left(iNdEx) \in Nat
    BY ONLY <1>1 DEF Left
  <1>3. Stage[pc] \in Nat
    BY DEF Stage
  <1>4. Work = 8 * Left(iNdEx) + Stage[pc]
    BY DEF Work
  <1>5. QED
    BY ONLY <1>2, <1>3, <1>4

(* Unmarshal: the switch over field numbers.                               *)
LEMMA SwitchProgress ==
  ASSUME CInv, fn \in Message, NEW kinds, NEW skip \in Skip, Switch(kinds, skip)
  PROVE  Progress
  <1>0. /\ IInv /\ Nested /\ pc = "switch" /\ iNdEx \in Int /\ preIndex \in Int
        /\ 0 <= preIndex /\ preIndex < iNdEx /\ fn \notin Skip
    BY IndexFacts DEF CInv, Switch, Advanced
  <1>a. Work = 8 * Left(iNdEx) + 7 /\ Work \in Nat /\ Left(iNdEx) \in Nat
    <2>1. pc \in DOMAIN Stage /\ Stage[pc] = 7
      BY ONLY <1>0 DEF Stage
    <2>2. QED
      BY ONLY <1>0, <2>1, WorkFacts
  <1>1. CASE Stop("error")
    BY <1>0, <1>1, StopProgress
  <1>2. CASE varint' = NoVarint /\ pc' = "length"
             /\ UNCHANGED <<slices, iNdEx, depth, preIndex, m>>
    <2>1. fn' = fn /\ callers' = callers /\ iNdEx' = iNdEx /\ preIndex' = preIndex
      BY <1>2 DEF slices
    <2>2. Work' = 8 * Left(iNdEx) + 6
      BY <1>2, <2>1 DEF Work, Stage, Left
    <2>3. Work' < Work /\ Work' \in Int /\ Work \in Int
      BY ONLY <1>a, <2>2
    <2>4. Advanced'
      BY <1>0, <1>2, <2>1 DEF Advanced
    <2>5. Less(Running', Running)
      BY <1>0, <1>2, <2>1, <2>3, LessWork
    <2>6. QED
      BY <2>1, <2>4, <2>5, StepProgress
  <1>3. CASE Call(skip, Slice(preIndex, l), preIndex)
    <2>1. preIndex <= Len(dAtA) /\ l = Len(dAtA)
      BY <1>0 DEF IInv, UnmarshalWithin, l
    <2>2. l \in Int /\ InBounds(preIndex, l)
      BY <1>0, <2>1, ArgumentFacts DEF IInv, InBounds
    <2>3. Slice(preIndex, l) \in Slices
      BY <1>0, <2>2, SliceIsSlice DEF IInv
    <2>4. Running = <<2 * Left(preIndex), Work + 1>>
      BY <1>0 DEF Running
    <2>5. skip \notin Message
      BY DEF Message, Skip
    <2>6. Less(<<2 * Left(preIndex) + (IF skip \in Message THEN 2 ELSE 0), 0>>, Running)
      <3>1. preIndex <= MaxInt /\ MaxInt \in Nat
        BY <1>0, <2>1, IndexFacts, WireAssumption
      <3>2. Left(preIndex) \in Nat
        BY ONLY <1>0, <3>1 DEF Left
      <3>3. 0 < Work + 1
        BY ONLY <1>a
      <3>4. QED
        BY ONLY <2>4, <2>5, <3>2, <3>3 DEF Less
    <2>7. QED
      BY <1>0, <1>3, <2>1, <2>3, <2>6, CallProgress
  <1>4. QED
    BY <1>1, <1>2, <1>3 DEF Switch

(* The only message that is embedded.                                      *)
LEMMA EmbeddedIsParams ==
  ASSUME NEW f \in Message, NEW k \in DOMAIN KindsOf(f), KindsOf(f)[k] \notin {"string", "Int"}
  PROVE  KindsOf(f)[k] = "Params" /\ f # "Params"
  <1>1. f = "Params" => KindsOf(f) = << >>
    BY DEF KindsOf
  <1>2. \/ KindsOf(f) \in {MsgUpdateParamsFields, MsgMintTokensFields}
        \/ KindsOf(f) \in {QueryParamsResponseFields, GenesisStateFields, ModuleFields}
        \/ KindsOf(f) = << >>
    BY DEF KindsOf, Message
  <1>3. KindsOf(f) # << >>
    OBVIOUS
  <1>4. KindsOf(f)[k] = "Params"
    BY <1>2, <1>3 DEF MsgUpdateParamsFields, MsgMintTokensFields, QueryParamsResponseFields,
       GenesisStateFields, ModuleFields
  <1>5. QED
    BY <1>1, <1>3, <1>4

(* Unmarshal: the contents of a field.                                     *)
LEMMA AssignProgress ==
  ASSUME CInv, fn \in Message, pc = "take", NEW text, NEW postIndex \in Int,
         iNdEx <= postIndex, postIndex <= MaxInt, Assign(text, postIndex)
  PROVE  Progress
  <1>0. /\ IInv /\ iNdEx \in Int /\ preIndex \in Int /\ postIndex \in Int
        /\ 0 <= preIndex /\ preIndex < iNdEx /\ iNdEx <= postIndex /\ postIndex <= MaxInt
        /\ fn \notin Skip
    BY IndexFacts DEF CInv, Advanced
  <1>1. fn' = fn /\ callers' = callers /\ iNdEx' = postIndex /\ pc' = "loop"
    BY DEF Assign, slices
  <1>2. Running = <<2 * Left(preIndex), Work + 1>>
    BY DEF Running
  <1>3. Running' = <<2 * Left(postIndex) + 1, 0>>
    BY <1>1 DEF Running, Left
  <1>4. preIndex < postIndex /\ preIndex <= MaxInt /\ MaxInt \in Nat
    BY <1>0, WireAssumption
  <1>5. Left(postIndex) + 1 <= Left(preIndex) /\ Left(postIndex) \in Nat /\ Left(preIndex) \in Nat
    BY ONLY <1>0, <1>4, LeftFacts
  <1>6. Less(Running', Running)
    BY ONLY <1>2, <1>3, <1>5 DEF Less
  <1>7. Advanced'
    BY <1>0, <1>1 DEF Advanced
  <1>8. QED
    BY <1>1, <1>6, <1>7, StepProgress

LEMMA TakeFieldProgress ==
  ASSUME CInv, fn \in Message, NEW kinds, kinds = KindsOf(fn), TakeField(kinds)
  PROVE  Progress
  <1> DEFINE n == AsInt(varint.value)
             postIndex == Plus(iNdEx, n)
             kind == kinds[fieldNum]
             text == Slice(iNdEx, postIndex)
  <1>0. /\ IInv /\ Nested /\ pc = "take" /\ iNdEx \in Int /\ preIndex \in Int
        /\ 0 <= preIndex /\ preIndex < iNdEx /\ l \in Nat /\ l <= MaxInt /\ MaxInt \in Nat
    BY IndexFacts, WireAssumption DEF CInv, TakeField, Advanced
  <1>1. CASE Refused(n, postIndex)
    <2>1. Stop("error")
      BY <1>1 DEF TakeField
    <2>2. QED
      BY <1>0, <2>1, StopProgress
  <1>2. CASE ~Refused(n, postIndex)
    <2>1. ~(n < 0) /\ ~(postIndex < 0) /\ ~(postIndex > l)
      BY <1>2 DEF Refused
    <2>2. n \in Int /\ n <= MaxInt
      BY <1>0, AsIntInRange DEF IInv, Types
    <2>3. iNdEx \in 0..MaxInt
      BY <1>0, IndexFacts, WireAssumption
    <2> HIDE DEF n
    <2>4. n \in 0..MaxInt
      BY ONLY <2>1, <2>2, WireAssumption
    <2>5. postIndex \in Int /\ (postIndex >= 0 => postIndex = iNdEx + n)
      BY <2>3, <2>4, PlusChecks
    <2> HIDE DEF postIndex, kind, text
    <2>6. iNdEx <= postIndex /\ 0 <= postIndex /\ postIndex <= l /\ postIndex <= MaxInt
      BY ONLY <1>0, <2>1, <2>3, <2>4, <2>5
    <2>7. InBounds(iNdEx, postIndex)
      BY ONLY <2>3, <2>6 DEF InBounds
    <2>8. text \in Slices
      BY <1>0, <2>5, <2>7, SliceIsSlice DEF IInv, text
    <2>9. /\ kind = "string" => Assign(text, postIndex)
          /\ kind = "Int" => AssignInt(text, postIndex)
          /\ kind \notin {"string", "Int"} => Call(kind, text, postIndex)
      BY <1>2, <2>7 DEF TakeField, n, postIndex, kind, text
    <2>10. ASSUME NEW t, Assign(t, postIndex) PROVE Progress
      BY <1>0, <2>5, <2>6, <2>10, AssignProgress
    <2>11. CASE AssignInt(text, postIndex)
      <3>1. CASE Stop("error")
        BY <1>0, <3>1, StopProgress
      <3>2. QED
        BY <2>10, <2>11, <3>1 DEF AssignInt
    <2>12. ASSUME kind \notin {"string", "Int"} PROVE Progress
      <3>1. fieldNum \in DOMAIN KindsOf(fn)
        BY <1>0 DEF IInv, UnmarshalWithin
      <3>2. kind = "Params" /\ fn # "Params"
        BY <2>12, <3>1, EmbeddedIsParams DEF kind
      <3>3. Running = <<2 * Left(preIndex), Work + 1>>
        BY <1>0 DEF Running
      <3>4. 0 < Work + 1
        <4>1. pc \in DOMAIN Stage
          BY ONLY <1>0 DEF Stage
        <4>2. Work \in Nat
          BY ONLY <1>0, <4>1, WorkFacts
        <4>3. QED
          BY ONLY <4>2
      <3>5. /\ Left(postIndex) + 1 <= Left(preIndex)
            /\ Left(postIndex) \in Nat /\ Left(preIndex) \in Nat
        <4>1. preIndex < postIndex /\ preIndex <= MaxInt
          BY ONLY <1>0, <2>3, <2>5, <2>6
        <4>2. QED
          BY ONLY <1>0, <2>5, <2>6, <4>1, LeftFacts
      <3>6. Less(<<2 * Left(postIndex) + 2, 0>>, Running)
        BY ONLY <3>3, <3>4, <3>5 DEF Less
      <3>7. Less(<<2 * Left(postIndex) + (IF kind \in Message THEN 2 ELSE 0), 0>>, Running)
        BY <3>2, <3>6 DEF Message
      <3>8. Call(kind, text, postIndex) /\ postIndex <= Len(dAtA)
        BY <2>6, <2>9, <2>12 DEF l
      <3>9. QED
        BY <2>5, <2>6, <2>8, <3>2, <3>7, <3>8, CallProgress
    <2>13. QED
      BY <2>9, <2>10, <2>11, <2>12
  <1>3. QED
    BY <1>1, <1>2

LEMMA UnmarshalProgress ==
  ASSUME CInv, fn \in Message, NEW kinds, kinds = KindsOf(fn),
         NEW skip \in Skip, UnmarshalStep(kinds, skip)
  PROVE  Progress
  <1>1. CASE NextField
    BY <1>1, NextFieldProgress
  <1>2. CASE ReadByte("tag", "switch") \/ ReadByte("length", "take")
    BY <1>2, ReadByteProgress
  <1>3. CASE Switch(kinds, skip)
    BY <1>3, SwitchProgress
  <1>4. CASE TakeField(kinds)
    BY <1>4, TakeFieldProgress
  <1>5. QED
    BY <1>1, <1>2, <1>3, <1>4 DEF UnmarshalStep

-----------------------------------------------------------------------------
(* Skip: a step within the function, which does not go back unless it is   *)
(* refused for that.                                                       *)
LEMMA SkipMoveProgress ==
  ASSUME CInv, fn \in Skip, fn' = fn, callers' = callers, preIndex' = preIndex,
         pc \in {"loop", "switch", "take", "passed"},
         pc' \in {"loop", "tag", "varint", "length", "passed"},
         0 <= iNdEx, iNdEx' \in Int, iNdEx <= iNdEx' \/ iNdEx' < 0, iNdEx' <= MaxInt,
         Stage[pc'] < Stage[pc],
         pc' \in {"varint", "length"} => 1 <= iNdEx', pc' = "passed" => iNdEx' # 0
  PROVE  Progress
  <1>0. /\ IInv /\ iNdEx \in Int /\ iNdEx <= MaxInt /\ 0 <= iNdEx /\ fn \notin Message
        /\ iNdEx' \in Int /\ iNdEx' <= MaxInt /\ (iNdEx <= iNdEx' \/ iNdEx' < 0)
    BY IndexFacts DEF CInv
  <1>1. Left(iNdEx') <= Left(iNdEx) /\ Left(iNdEx') \in Nat /\ Left(iNdEx) \in Nat
    BY ONLY <1>0, LeftFacts
  <1>2. Work' < Work /\ Work' \in Int /\ Work \in Int
    <2>1. Stage[pc] \in Nat /\ Stage[pc'] \in Nat
      BY DEF Stage
    <2>2. Work = 8 * Left(iNdEx) + Stage[pc] /\ Work' = 8 * Left(iNdEx') + Stage[pc']
      BY DEF Work, Left, Stage
    <2>3. Stage[pc'] < Stage[pc]
      OBVIOUS
    <2>4. QED
      BY ONLY <1>1, <2>1, <2>2, <2>3
  <1>3. Less(Running', Running)
    BY <1>0, <1>2, LessWork
  <1>4. Advanced'
    <2>1. fn' = fn /\ fn \notin Message /\ pc' \notin {"switch", "take"}
      BY <1>0
    <2>2. pc' \in {"varint", "length"} => 1 <= iNdEx'
      OBVIOUS
    <2>3. pc' = "passed" => iNdEx' # 0
      OBVIOUS
    <2>4. QED
      BY ONLY <2>1, <2>2, <2>3 DEF Advanced
  <1>5. QED
    BY <1>3, <1>4, StepProgress

LEMMA NextTagProgress ==
  ASSUME CInv, fn \in Skip, NextTag
  PROVE  Progress
  <1>0. IInv /\ Nested /\ pc = "loop"
    BY DEF CInv, NextTag
  <1>1. CASE Stop("error")
    BY <1>0, <1>1, StopProgress
  <1>2. CASE StartVarint("tag") /\ UNCHANGED <<iNdEx, depth>>
    <2>1. /\ fn' = fn /\ callers' = callers /\ preIndex' = preIndex
          /\ pc' = "tag" /\ iNdEx' = iNdEx
      BY <1>2 DEF StartVarint, Go, slices
    <2>2. iNdEx \in Int /\ 0 <= iNdEx /\ iNdEx <= MaxInt
      BY <1>0, IndexFacts DEF IInv, SkipWithin
    <2>3. Stage[pc'] < Stage[pc]
      BY ONLY <1>0, <2>1 DEF Stage
    <2>4. QED
      BY <1>0, <2>1, <2>2, <2>3, SkipMoveProgress
  <1>3. QED
    BY <1>1, <1>2 DEF NextTag

LEMMA SkipSwitchProgress ==
  ASSUME CInv, fn \in Skip, SkipSwitch
  PROVE  Progress
  <1>0. /\ IInv /\ Nested /\ pc = "switch"
        /\ 1 <= iNdEx /\ iNdEx \in Int /\ iNdEx <= MaxInt /\ MaxInt \in Nat
    BY IndexFacts, WireAssumption DEF CInv, SkipSwitch, Advanced
  <1>1. CASE (StartVarint("varint") \/ StartVarint("length")) /\ UNCHANGED <<iNdEx, depth>>
    <2>1. /\ fn' = fn /\ callers' = callers /\ preIndex' = preIndex
          /\ pc' \in {"varint", "length"} /\ iNdEx' = iNdEx
      BY <1>1 DEF StartVarint, Go, slices
    <2>2. Stage[pc'] < Stage[pc]
      BY ONLY <1>0, <2>1 DEF Stage
    <2>3. 0 <= iNdEx
      BY ONLY <1>0
    <2>4. QED
      BY <1>0, <2>1, <2>2, <2>3, SkipMoveProgress
  <1>2. ASSUME Go("passed"), iNdEx' \in Int, iNdEx' <= MaxInt, iNdEx <= iNdEx' \/ iNdEx' < 0
        PROVE  Progress
    <2>1. fn' = fn /\ callers' = callers /\ preIndex' = preIndex /\ pc' = "passed"
      BY <1>2 DEF Go, slices
    <2>2. Stage[pc'] < Stage[pc]
      BY ONLY <1>0, <2>1 DEF Stage
    <2>3. 0 <= iNdEx /\ iNdEx' # 0
      BY <1>0, <1>2
    <2>4. QED
      BY <1>0, <1>2, <2>1, <2>2, <2>3, SkipMoveProgress
  <1>3. ASSUME NEW type \in {1, 5}, iNdEx' = Plus(iNdEx, FixedSize(type)), Go("passed")
        PROVE  Progress
    <2> DEFINE size == FixedSize(type)
    <2>1. size \in 0..MaxInt /\ iNdEx \in 0..MaxInt
      BY <1>0, WireAssumption DEF FixedSize
    <2> HIDE DEF size
    <2>2. iNdEx' = Plus(iNdEx, size)
      BY <1>3 DEF size
    <2>3. iNdEx' \in Int /\ iNdEx' <= MaxInt /\ (iNdEx' >= 0 => iNdEx' = iNdEx + size)
      BY ONLY <2>1, <2>2, PlusChecks
    <2>4. iNdEx <= iNdEx' \/ iNdEx' < 0
      BY ONLY <1>0, <2>1, <2>3
    <2>5. QED
      BY <1>2, <1>3, <2>3, <2>4
  <1>4. ASSUME Go("passed"), iNdEx' = iNdEx
        PROVE  Progress
    <2>1. iNdEx' \in Int /\ iNdEx' <= MaxInt /\ iNdEx <= iNdEx'
      BY <1>0, <1>4
    <2>2. QED
      BY <1>2, <1>4, <2>1
  <1>5. CASE Stop("error")
    BY <1>0, <1>5, StopProgress
  <1>6. QED
    BY <1>1, <1>3, <1>4, <1>5, Zenon DEF SkipSwitch

LEMMA PassLengthProgress ==
  ASSUME CInv, fn \in Skip, PassLength
  PROVE  Progress
  <1> DEFINE n == AsInt(varint.value)
  <1>0. /\ IInv /\ Nested /\ pc = "take"
        /\ 1 <= iNdEx /\ iNdEx \in Int /\ iNdEx <= MaxInt /\ MaxInt \in Nat
    BY IndexFacts, WireAssumption DEF CInv, PassLength, Advanced
  <1>1. CASE Negative(n)
    <2>1. Stop("error")
      BY <1>1 DEF PassLength
    <2>2. QED
      BY <1>0, <2>1, StopProgress
  <1>2. CASE ~Negative(n)
    <2>1. n \in Int /\ n <= MaxInt /\ ~(n < 0)
      BY <1>0, <1>2, AsIntInRange DEF IInv, Types, Negative
    <2>2. iNdEx' = Plus(iNdEx, n) /\ Go("passed")
      BY <1>2 DEF PassLength
    <2> HIDE DEF n
    <2>3. n \in 0..MaxInt /\ iNdEx \in 0..MaxInt
      BY ONLY <1>0, <2>1
    <2>4. iNdEx' \in Int /\ iNdEx' <= MaxInt /\ (iNdEx' >= 0 => iNdEx' = iNdEx + n)
      BY ONLY <2>2, <2>3, PlusChecks
    <2>5. (iNdEx <= iNdEx' \/ iNdEx' < 0) /\ iNdEx' # 0 /\ 0 <= iNdEx
      BY ONLY <1>0, <2>3, <2>4
    <2>6. fn' = fn /\ callers' = callers /\ preIndex' = preIndex /\ pc' = "passed"
      BY <2>2 DEF Go, slices
    <2>7. Stage[pc'] < Stage[pc]
      BY ONLY <1>0, <2>6 DEF Stage
    <2>8. QED
      BY <1>0, <2>4, <2>5, <2>6, <2>7, SkipMoveProgress
  <1>3. QED
    BY <1>1, <1>2

LEMMA PassedProgress ==
  ASSUME CInv, fn \in Skip, Passed
  PROVE  Progress
  <1>0. /\ IInv /\ Nested /\ pc = "passed" /\ iNdEx # 0 /\ callers # << >>
        /\ iNdEx \in Int /\ iNdEx <= MaxInt /\ MaxInt \in Nat /\ fn \notin Message
    BY IndexFacts, WireAssumption DEF CInv, Passed, Advanced, IInv, SkipWithin
  <1>1. CASE /\ iNdEx >= 0 /\ pc' = "loop"
             /\ UNCHANGED <<slices, iNdEx, depth, preIndex, fieldNum, varint, m>>
    <2>1. /\ fn' = fn /\ callers' = callers /\ preIndex' = preIndex
          /\ pc' = "loop" /\ iNdEx' = iNdEx
      BY <1>1 DEF slices
    <2>2. Stage[pc'] < Stage[pc]
      BY ONLY <1>0, <2>1 DEF Stage
    <2>3. 0 <= iNdEx
      BY <1>0, <1>1
    <2>4. QED
      BY <1>0, <2>1, <2>2, <2>3, SkipMoveProgress
  <1>2. CASE Stop("error")
    BY <1>0, <1>2, StopProgress
  <1>3. CASE /\ iNdEx >= 0 /\ Resumed >= 0 /\ Resumed <= Len(Head(callers).dAtA)
             /\ Return(Resumed)
    <2> DEFINE c == Head(callers)
               at == Resumed
    <2>1. c \in Frame
      BY <1>0 DEF IInv, Types
    <2>2. c.iNdEx \in 0..MaxInt /\ Len(c.dAtA) \in Nat /\ Len(c.dAtA) <= MaxInt
      <3> HIDE DEF c
      <3>1. /\ c.iNdEx \in Int /\ 0 <= c.iNdEx /\ c.iNdEx <= Len(c.dAtA)
            /\ Len(c.dAtA) \in Nat /\ Len(c.dAtA) <= MaxInt
        BY ONLY <2>1 DEF Frame, Slices
      <3>2. QED
        BY ONLY <1>0, <3>1
    <2>3. iNdEx \in 0..MaxInt
      BY ONLY <1>0, <1>3
    <2>4. at = Plus(c.iNdEx, iNdEx)
      BY DEF Resumed
    <2>5. Waiting(c, fn) = <<2 * Left(c.iNdEx), 0>>
      <3>1. Waiting(c, fn) = <<2 * Left(c.iNdEx) + 0, 0>>
        BY <1>0 DEF Waiting
      <3>2. Left(c.iNdEx) \in Nat
        BY ONLY <1>0, <2>2 DEF Left
      <3>3. QED
        BY ONLY <3>1, <3>2
    <2>6. at >= 0 /\ at <= Len(c.dAtA) /\ Return(at)
      BY <1>3
    <2> HIDE DEF c, at
    <2>7. at \in Int /\ at = c.iNdEx + iNdEx
      BY ONLY <2>2, <2>3, <2>4, <2>6, PlusChecks
    <2>8. c.iNdEx < at /\ at <= MaxInt
      BY ONLY <1>0, <2>2, <2>3, <2>6, <2>7
    <2>9. Left(at) + 1 <= Left(c.iNdEx) /\ Left(at) \in Nat /\ Left(c.iNdEx) \in Nat
      <3>1. c.iNdEx \in Int /\ 0 <= c.iNdEx /\ c.iNdEx <= MaxInt
        BY ONLY <1>0, <2>2
      <3>2. QED
        BY ONLY <2>7, <2>8, <3>1, LeftFacts
    <2>10. Less(<<2 * Left(at) + 1, 0>>, Waiting(c, fn))
      BY ONLY <2>5, <2>9 DEF Less
    <2>11. QED
      BY <1>0, <2>6, <2>7, <2>10, ReturnProgress DEF c
  <1>4. QED
    BY <1>1, <1>2, <1>3, Zenon DEF Passed

LEMMA SkipProgress ==
  ASSUME CInv, fn \in Skip, SkipStep
  PROVE  Progress
  <1>1. fn \notin Message
    BY DEF Message, Skip
  <1>2. CASE NextTag
    BY <1>2, NextTagProgress
  <1>3. CASE ReadByte("tag", "switch") \/ ReadByte("varint", "passed") \/ ReadByte("length", "take")
    BY <1>1, <1>3, ReadByteProgress
  <1>4. CASE SkipSwitch
    BY <1>4, SkipSwitchProgress
  <1>5. CASE PassLength
    BY <1>5, PassLengthProgress
  <1>6. CASE Passed
    BY <1>6, PassedProgress
  <1>7. QED
    BY <1>2, <1>3, <1>4, <1>5, <1>6 DEF SkipStep

-----------------------------------------------------------------------------
LEMMA RoundProgress == CInv /\ Round => Progress
  <1> SUFFICES ASSUME CInv, Round PROVE Progress
    OBVIOUS
  <1>1. ASSUME fn \in Message, NEW skip \in Skip, UnmarshalStep(KindsOf(fn), skip)
        PROVE  Progress
    BY <1>1, UnmarshalProgress
  <1>2. ASSUME fn \in Skip, SkipStep PROVE Progress
    BY <1>2, SkipProgress
  <1>3. CASE UnmarshalMsgUpdateParams
    BY <1>1, <1>3 DEF UnmarshalMsgUpdateParams, KindsOf, Message, Skip
  <1>4. CASE UnmarshalMsgUpdateParamsResponse
    BY <1>1, <1>4 DEF UnmarshalMsgUpdateParamsResponse, KindsOf, Message, Skip
  <1>5. CASE UnmarshalMsgMintTokens
    BY <1>1, <1>5 DEF UnmarshalMsgMintTokens, KindsOf, Message, Skip
  <1>6. CASE UnmarshalMsgMintTokensResponse
    BY <1>1, <1>6 DEF UnmarshalMsgMintTokensResponse, KindsOf, Message, Skip
  <1>7. CASE UnmarshalQueryParamsRequest
    BY <1>1, <1>7 DEF UnmarshalQueryParamsRequest, KindsOf, Message, Skip
  <1>8. CASE UnmarshalQueryParamsResponse
    BY <1>1, <1>8 DEF UnmarshalQueryParamsResponse, KindsOf, Message, Skip
  <1>9. CASE UnmarshalGenesisState
    BY <1>1, <1>9 DEF UnmarshalGenesisState, KindsOf, Message, Skip
  <1>10. CASE UnmarshalModule
    BY <1>1, <1>10 DEF UnmarshalModule, KindsOf, Message, Skip
  <1>11. CASE UnmarshalParams
    BY <1>1, <1>11 DEF UnmarshalParams, KindsOf, Message, Skip
  <1>12. CASE SkipTx \/ SkipQuery \/ SkipGenesis \/ SkipModule \/ SkipParams
    BY <1>2, <1>12 DEF SkipTx, SkipQuery, SkipGenesis, SkipModule, SkipParams, Skip
  <1>13. QED
    BY <1>3, <1>4, <1>5, <1>6, <1>7, <1>8, <1>9, <1>10, <1>11, <1>12 DEF Round

LEMMA InitCInv == Init => CInv
  <1> SUFFICES ASSUME Init PROVE CInv
    OBVIOUS
  <1>1. IInv
    BY InitIInv
  <1>2. pc = "loop" /\ callers = << >> /\ Len(<< >>) = 0
    BY DEF Init
  <1>3. fn \in Message
    BY CallsAssumption DEF Init
  <1>4. fn \notin Skip
    BY <1>3 DEF Message, Skip
  <1>5. Advanced
    BY ONLY <1>2 DEF Advanced
  <1>6. Nested
    BY ONLY <1>2, <1>4 DEF Nested
  <1>7. QED
    BY <1>1, <1>5, <1>6 DEF CInv

LEMMA NextCInv == CInv /\ [Next]_vars => CInv'
  <1> SUFFICES ASSUME CInv, [Next]_vars PROVE CInv'
    OBVIOUS
  <1>1. IInv'
    BY NextKeepsIInv DEF CInv
  <1>2. CASE Round
    BY <1>1, <1>2, RoundProgress DEF CInv, Progress
  <1>3. CASE UNCHANGED vars \/ Returned
    BY <1>1, <1>3 DEF Returned, vars, slices, CInv, Advanced, Nested
  <1>4. QED
    BY <1>2, <1>3 DEF Next

LEMMA NextCloser == CInv /\ CInv' /\ [Next]_vars => [Ended' \/ Closer]_vars
  <1> SUFFICES ASSUME CInv, CInv', Round PROVE Ended' \/ Closer
    BY DEF Next, Returned
  <1>1. Types /\ Nested
    BY DEF CInv, IInv
  <1>2. (Types /\ Nested)'
    BY DEF CInv, IInv
  <1>3. Len(callers') <= 2
    <2>1. (Types /\ Nested => Len(callers) <= 2)'
      BY NestedIsShort, PTL
    <2>2. QED
      BY <1>2, <2>1
  <1>4. CASE GoesOn
    BY <1>1, <1>4, GoesOnCloser
  <1>5. CASE Suspends
    BY <1>1, <1>3, <1>5, SuspendsCloser
  <1>6. CASE Resumes
    BY <1>1, <1>6, ResumesCloser
  <1>7. QED
    BY <1>4, <1>5, <1>6, RoundProgress DEF Progress

(* Every step of a decoder ends the call or brings it closer to its end,   *)
(* in an order without infinite descents, for all bytes and all widths of  *)
(* the machine's integers: Unmarshal and skip are free of endless loops.   *)
THEOREM DecodersComeCloser == Spec => ComesCloser
  <1>1. CInv /\ [Next]_vars => CInv'
    BY NextCInv
  <1>2. CInv /\ CInv' /\ [Next]_vars => [Ended' \/ Closer]_vars
    BY NextCloser
  <1>3. QED
    BY InitCInv, <1>1, <1>2, PTL DEF Spec, ComesCloser, Closer
=============================================================================
