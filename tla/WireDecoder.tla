----------------------------- MODULE WireDecoder -----------------------------
(***************************************************************************)
(* The decoders of x/feicoin/types/*.pb.go, through which every            *)
(* transaction, query and genesis file of the module passes.  Unmarshal of *)
(* a message and the skip functions for unknown fields are loops over a    *)
(* byte slice with an index of the machine's width; they call one another  *)
(* on subslices.  This module has their steps, Messages the functions.     *)
(*                                                                         *)
(* Go's index and slice expressions panic outside of the slice.  A step    *)
(* that would do so ends in "panic".                                       *)
(***************************************************************************)
EXTENDS Integers, Sequences

CONSTANTS
  MaxInt,     \* largest int (2^63 - 1)
  FieldSize,  \* field numbers are cut to this many values (int32: 2^32)
  MaxField,   \* the largest field number of a message
  IntText     \* the texts that math.Int accepts, one per number

Byte == 0..255

ASSUME WireAssumption ==
  /\ MaxInt \in Nat /\ MaxInt > 8
  /\ FieldSize \in Nat \ {0} /\ MaxField \in Nat
  /\ IntText \subseteq Seq(Byte)

VARIABLES
  fn,        \* the running function
  dAtA,      \* its argument
  iNdEx,     \* its index
  depth,     \* skip: groups that are open
  preIndex,  \* Unmarshal: where the current field starts
  fieldNum,  \* Unmarshal: its number
  varint,    \* the varint that is read: its value so far, and what the next
             \* seven bits count
  pc,        \* the stage of the function, or "ok", "error", "panic"
  m,         \* Unmarshal: per field number what has been decoded
  callers    \* the suspended functions, the latest first

slices == <<fn, dAtA, callers>>
vars == <<slices, iNdEx, depth, preIndex, fieldNum, varint, pc, m>>

-----------------------------------------------------------------------------
(* Machine integers.                                                       *)

WordSize == 2 * MaxInt + 2

(* A word as a signed integer.                                             *)
AsInt(w) == IF w > MaxInt THEN w - WordSize ELSE w

(* The sum of two integers that are not negative.                          *)
Plus(a, b) == AsInt(a + b)

(* int32(wire >> 3)                                                        *)
FieldOf(wire) ==
  LET n == (wire \div 8) % FieldSize
  IN  IF 2 * n >= FieldSize THEN n - FieldSize ELSE n

WireType(wire) == wire % 8

-----------------------------------------------------------------------------
l == Len(dAtA)

(* The byte at an index, as Go counts.                                     *)
At(i) == dAtA[i + 1]

(* dAtA[from:to]                                                           *)
Slice(from, to) == SubSeq(dAtA, from + 1, to)

InBounds(from, to) == 0 <= from /\ from <= to /\ to <= l

NoVarint == [value |-> 0, unit |-> 1]

NoFields == [k \in 1..MaxField |-> << >>]

Stop(outcome) ==
  /\ pc' = outcome
  /\ UNCHANGED <<slices, iNdEx, depth, preIndex, fieldNum, varint, m>>

Go(stage) ==
  /\ pc' = stage
  /\ UNCHANGED <<slices, preIndex, fieldNum, m>>

(* Mutant of Refused: a sum that overflows is not noticed.                 *)
RefusedNoOverflow(n, postIndex) == n < 0 \/ postIndex > l

(* The checks of a length that has been read.                              *)
Refused(n, postIndex) == n < 0 \/ postIndex < 0 \/ postIndex > l

(* shift >= 64                                                             *)
TooLong == varint.unit >= WordSize

(* One round of a loop that reads a varint; the last byte leads to next.   *)
ReadByte(stage, next) ==
  /\ pc = stage
  /\ \/ /\ TooLong \/ iNdEx >= l
        /\ Stop("error")
     \/ /\ ~TooLong /\ iNdEx < l
        /\ IF iNdEx < 0 THEN Stop("panic")
           ELSE /\ varint' = [value |-> (varint.value + (At(iNdEx) % 128) * varint.unit) % WordSize,
                              unit |-> varint.unit * 128]
                /\ iNdEx' = iNdEx + 1
                /\ UNCHANGED depth
                /\ Go(IF At(iNdEx) < 128 THEN next ELSE stage)

StartVarint(stage) ==
  /\ varint' = NoVarint
  /\ Go(stage)

(* Call f on a slice; the caller will go on at an index.                   *)
Call(f, slice, resume) ==
  /\ callers' = <<[fn |-> fn, dAtA |-> dAtA, iNdEx |-> resume, m |-> m]>> \o callers
  /\ fn' = f
  /\ dAtA' = slice
  /\ iNdEx' = 0
  /\ depth' = 0
  /\ m' = NoFields
  /\ pc' = "loop"
  /\ UNCHANGED <<preIndex, fieldNum, varint>>

(* The latest caller goes on at an index.                                  *)
Return(at) ==
  LET c == Head(callers)
  IN  /\ fn' = c.fn
      /\ dAtA' = c.dAtA
      /\ iNdEx' = at
      /\ m' = c.m
      /\ callers' = Tail(callers)
      /\ pc' = "loop"
      /\ UNCHANGED <<depth, preIndex, fieldNum, varint>>

-----------------------------------------------------------------------------
(* Unmarshal.                                                              *)

(* The loop over fields.                                                   *)
NextField ==
  /\ pc = "loop"
  /\ \/ /\ iNdEx < l
        /\ preIndex' = iNdEx
        /\ varint' = NoVarint
        /\ pc' = "tag"
        /\ UNCHANGED <<slices, iNdEx, depth, fieldNum, m>>
     \/ /\ iNdEx >= l
        /\ IF iNdEx > l THEN Stop("error")
           ELSE IF callers = << >> THEN Stop("ok")
           ELSE Return(Head(callers).iNdEx)

IllegalTag(kinds) ==
  \/ WireType(varint.value) = 4
  \/ FieldOf(varint.value) <= 0
  \/ FieldOf(varint.value) \in DOMAIN kinds /\ WireType(varint.value) # 2

(* The switch over field numbers.  All known fields have a length; any     *)
(* other field is read once more, from its start, by the skip function.    *)
Switch(kinds, skip) ==
  /\ pc = "switch"
  /\ \/ /\ IllegalTag(kinds)
        /\ Stop("error")
     \/ /\ ~IllegalTag(kinds)
        /\ FieldOf(varint.value) \in DOMAIN kinds
        /\ fieldNum' = FieldOf(varint.value)
        /\ varint' = NoVarint
        /\ pc' = "length"
        /\ UNCHANGED <<slices, iNdEx, depth, preIndex, m>>
     \/ /\ ~IllegalTag(kinds)
        /\ FieldOf(varint.value) \notin DOMAIN kinds
        /\ Call(skip, Slice(preIndex, l), preIndex)

Assign(text, postIndex) ==
  /\ m' = [m EXCEPT ![fieldNum] = text]
  /\ iNdEx' = postIndex
  /\ pc' = "loop"
  /\ UNCHANGED <<slices, depth, preIndex, fieldNum, varint>>

(* Int.Unmarshal leaves the number as it is if the text is empty.          *)
AssignInt(text, postIndex) ==
  IF text = << >> THEN Assign(m[fieldNum], postIndex)
  ELSE IF text \in IntText THEN Assign(text, postIndex)
  ELSE Stop("error")

(* The contents of a field.                                                *)
TakeField(kinds) ==
  LET n == AsInt(varint.value)
      postIndex == Plus(iNdEx, n)
      kind == kinds[fieldNum]
  IN  /\ pc = "take"
      /\ \/ /\ Refused(n, postIndex)
            /\ Stop("error")
         \/ /\ ~Refused(n, postIndex)
            /\ IF ~InBounds(iNdEx, postIndex) THEN Stop("panic")
               ELSE IF kind = "string" THEN Assign(Slice(iNdEx, postIndex), postIndex)
               ELSE IF kind = "Int" THEN AssignInt(Slice(iNdEx, postIndex), postIndex)
               ELSE Call(kind, Slice(iNdEx, postIndex), postIndex)

(* A message is given by the kinds of its fields: "string", "Int", or the  *)
(* type of an embedded message.                                            *)
UnmarshalStep(kinds, skip) ==
  \/ NextField
  \/ ReadByte("tag", "switch")
  \/ Switch(kinds, skip)
  \/ ReadByte("length", "take")
  \/ TakeField(kinds)

-----------------------------------------------------------------------------
(* The skip function of a file.                                            *)

NextTag ==
  /\ pc = "loop"
  /\ \/ iNdEx < l /\ StartVarint("tag") /\ UNCHANGED <<iNdEx, depth>>
     \/ iNdEx >= l /\ Stop("error")

(* Fixed-size values are passed whether they are there or not.             *)
FixedSize(type) == IF type = 1 THEN 8 ELSE 4

SkipSwitch ==
  LET type == WireType(varint.value)
  IN  /\ pc = "switch"
      /\ \/ type = 0 /\ StartVarint("varint") /\ UNCHANGED <<iNdEx, depth>>
         \/ /\ type \in {1, 5}
            /\ iNdEx' = Plus(iNdEx, FixedSize(type))
            /\ Go("passed")
            /\ UNCHANGED <<depth, varint>>
         \/ type = 2 /\ StartVarint("length") /\ UNCHANGED <<iNdEx, depth>>
         \/ /\ type = 3
            /\ depth' = depth + 1
            /\ Go("passed")
            /\ UNCHANGED <<iNdEx, varint>>
         \/ /\ type = 4 /\ depth > 0
            /\ depth' = depth - 1
            /\ Go("passed")
            /\ UNCHANGED <<iNdEx, varint>>
         \/ /\ type \in {6, 7} \/ (type = 4 /\ depth = 0)
            /\ Stop("error")

Negative(n) == n < 0

PassLength ==
  LET n == AsInt(varint.value)
  IN  /\ pc = "take"
      /\ \/ Negative(n) /\ Stop("error")
         \/ /\ ~Negative(n)
            /\ iNdEx' = Plus(iNdEx, n)
            /\ Go("passed")
            /\ UNCHANGED <<depth, varint>>

(* Mutant of Resumed: the caller's tag is passed twice.                    *)
ResumedAfterTag == Plus(Head(callers).iNdEx, iNdEx + 1)

(* Mutant of Resumed: the caller stays at the field.                       *)
ResumedAtField == Head(callers).iNdEx

(* The caller has skipped that many bytes.                                 *)
Resumed == Plus(Head(callers).iNdEx, iNdEx)

(* The function returns outside of all groups; its caller checks what it   *)
(* has skipped.                                                            *)
Passed ==
  /\ pc = "passed"
  /\ \/ /\ iNdEx >= 0 /\ depth > 0
        /\ pc' = "loop"
        /\ UNCHANGED <<slices, iNdEx, depth, preIndex, fieldNum, varint, m>>
     \/ /\ iNdEx < 0 \/ (depth = 0 /\ (Resumed < 0 \/ Resumed > Len(Head(callers).dAtA)))
        /\ Stop("error")
     \/ /\ iNdEx >= 0 /\ depth = 0
        /\ Resumed >= 0 /\ Resumed <= Len(Head(callers).dAtA)
        /\ Return(Resumed)

SkipStep ==
  \/ NextTag
  \/ ReadByte("tag", "switch")
  \/ SkipSwitch
  \/ ReadByte("varint", "passed")
  \/ ReadByte("length", "take")
  \/ PassLength
  \/ Passed
=============================================================================
