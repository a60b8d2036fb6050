--------------------------- MODULE MCExplorerTabs ---------------------------
(* ExplorerTabs for TLC: pages of one row, of up to three transactions.    *)
EXTENDS ExplorerTabs

MCRows ==
  [f \in Filter |-> (IF f.account THEN 0 ELSE 1) + (IF f.text THEN 0 ELSE 2)]

MCWallets == <<"alice", "bob">>
=============================================================================
