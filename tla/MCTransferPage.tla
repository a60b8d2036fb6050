--------------------------- MODULE MCTransferPage ---------------------------
(* TransferPage for TLC: two clicks on the page, and a transfer of another *)
(* client, all of alice.                                                   *)
EXTENDS TransferPage, TLC

MCRequest ==
  [r \in {"click 1", "click 2", "other"} |->
     [path |-> IF r = "other" THEN "/wallet/send-tokens" ELSE "/transfer",
      from |-> "alice", to |-> "bob", amount |-> IF r = "click 2" THEN 2 ELSE 1]]

MCGenesisBal == [a \in {"alice", "bob"} |-> IF a = "alice" THEN 3 ELSE 0]
=============================================================================
