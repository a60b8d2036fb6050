---------------------------- MODULE MCTxListing ----------------------------
(* TxListing for TLC: the account's sends, of which some do not parse, and *)
(* the mints of others.  The query string is in what parses of the sends.  *)
EXTENDS TxListing

MCKnown == <<2, 1>>

MCKind ==
  {[parses |-> TRUE, related |-> TRUE, type |-> "send", matching |-> TRUE],
   [parses |-> TRUE, related |-> FALSE, type |-> "mint", matching |-> FALSE],
   [parses |-> FALSE, related |-> TRUE, type |-> "send", matching |-> FALSE]}
=============================================================================
