----------------------------- MODULE WireFormat -----------------------------
(***************************************************************************)
(* The wire format as a grammar, to compare the decoders with: a message   *)
(* is a sequence of records, a record is a tag and a value, and a group is *)
(* records between two tags.  Positions count from 1; 0 stands for bytes   *)
(* that are no such thing.                                                 *)
(***************************************************************************)
EXTENDS MessageEncoder

(* The most bytes of a varint (10 for 64 bits).                            *)
MaxBytes == Min({n \in 1..4 : 128^n >= WordSize})

(* The position after the varint at i.                                     *)
AfterVarint(s, i) ==
  LET ends == {j \in i..Len(s) : s[j] < 128 /\ j - i < MaxBytes}
  IN  IF ends = {} THEN 0 ELSE Min(ends) + 1

VarintAt(s, i) ==
  LET digit(j) == (s[j] % 128) * 128^(j - i)
  IN  MapThenSumSet(digit, i..AfterVarint(s, i) - 1) % WordSize

Within(s, i) == IF i <= Len(s) + 1 THEN i ELSE 0

AfterLength(s, i) ==
  LET body == AfterVarint(s, i)
      n == AsInt(VarintAt(s, i))
  IN  IF body = 0 \/ n < 0 THEN 0 ELSE Within(s, body + n)

RECURSIVE AfterGroup(_, _)

(* The position after the record at i.                                     *)
AfterRecord(s, i) ==
  LET value == AfterVarint(s, i)
      type == WireType(VarintAt(s, i))
  IN  IF value = 0 THEN 0
      ELSE CASE type = 0 -> AfterVarint(s, value)
             [] type = 1 -> Within(s, value + 8)
             [] type = 2 -> AfterLength(s, value)
             [] type = 3 -> AfterGroup(s, value)
             [] type = 5 -> Within(s, value + 4)
             [] OTHER -> 0

(* The position after a group whose first record, or last tag, is at i.    *)
AfterGroup(s, i) ==
  LET next == AfterVarint(s, i)
  IN  IF i = 0 \/ next = 0 THEN 0
      ELSE IF WireType(VarintAt(s, i)) = 4 THEN next
      ELSE AfterGroup(s, AfterRecord(s, i))

(* What the known field k adds to a message.                               *)
Merged(kind, msg, k, text) ==
  IF kind = "string" \/ text # << >> THEN [msg EXCEPT ![k] = text] ELSE msg

RECURSIVE Decoded(_, _, _, _)

ValidContent(kind, text) ==
  CASE kind = "string" -> TRUE
    [] kind = "Int" -> text \in IntText \cup {<< >>}
    [] OTHER -> Decoded(<< >>, text, 1, NoFields) # << >>

(* The message whose records start at i, after msg; no message if they are *)
(* not well-formed.  Of several records of a field the last one counts.    *)
Decoded(kinds, s, i, msg) ==
  LET next == AfterRecord(s, i)
      value == AfterVarint(s, i)
      k == FieldOf(VarintAt(s, i))
      text == SubSeq(s, AfterVarint(s, value), next - 1)
  IN  IF i = Len(s) + 1 THEN msg
      ELSE IF next = 0 \/ k <= 0 THEN << >>
      ELSE IF k \notin DOMAIN kinds THEN Decoded(kinds, s, next, msg)
      ELSE IF WireType(VarintAt(s, i)) # 2 \/ ~ValidContent(kinds[k], text) THEN << >>
      ELSE Decoded(kinds, s, next,
                   IF kinds[k] \in {"string", "Int"} THEN Merged(kinds[k], msg, k, text) ELSE msg)

(* An Unmarshal function accepts the bytes that are a message, and returns *)
(* the last contents of its known fields: unknown fields, groups and       *)
(* repeated fields are passed as the grammar says, to the byte.            *)
DecodesFormat ==
  Ended =>
    LET msg == Decoded(KindsOf(Outermost.fn), Outermost.dAtA, 1, NoFields)
    IN  /\ (pc = "ok") = (msg # << >>)
        /\ pc = "ok" => m = msg
=============================================================================
