----------------------------- MODULE MCMessages -----------------------------
(* The decoders for TLC, with words of 11 bits: all short sequences of     *)
(* some bytes, sequences of records, and all encodings of some messages.   *)
EXTENDS WireFormat

(* 10, 18 and 26 are tags of fields 1 to 3; 42, 43, 44 and 46 of field 5,  *)
(* with a length, of a group's start and end, and illegal; 138 continues   *)
(* with one of the small ones.                                             *)
MCByte == {0, 1, 2, 10, 18, 26, 43, 44, 127, 138, 255}
MCShort == UNION {[1..n -> MCByte] : n \in 0..3}

(* Records: known fields, unknown ones of all types, groups, lengths near  *)
(* the limits, overlong varints.                                           *)
MCRecord ==
  {<<10, 1, 7>>, <<10, 0>>, <<18, 0>>, <<18, 2, 40, 0>>, <<18, 2, 40, 255>>,
   <<26, 0>>, <<26, 1, 49>>, <<26, 1, 65>>, <<138, 0, 1, 8>>, <<138, 2, 0>>,
   <<40, 255, 1>>, <<41, 0, 0, 0, 0, 0, 0, 0, 0>>, <<45, 0, 0, 0, 0>>, <<45, 0>>,
   <<42, 1, 0>>, <<43>>, <<44>>, <<46>>, <<42, 255, 7>>, <<10, 255, 7>>,
   <<42, 255, 15>>, <<42, 253, 15>>, <<10, 128, 128, 0>>, <<40, 128, 128, 0>>}
MCLong == {a \o b \o c : a, b, c \in MCRecord \cup {<< >>}}

MCIntText == {<<48>>, <<49>>, <<49, 49>>}

Of(n) == [k \in 1..n |-> 7]
MCTexts == {Of(0), Of(1), Of(127), Of(128)}
MCAmounts == {<< >>, <<48>>, <<49, 49>>}

MCCalls ==
  [fn : Message, dAtA : MCShort]
    \cup [fn : {"MsgUpdateParams", "MsgMintTokens"}, dAtA : MCLong]
    \cup {[fn |-> e.fn, dAtA |-> e.dAtA] : e \in Encodings}
=============================================================================
