--------------------------- MODULE MCWalletServer ---------------------------
(* WalletServer for TLC: requests that compete for one account's coins and *)
(* sequences and for its key.                                              *)
EXTENDS WalletServer, TLC

Ask(path, from, to, n) == [path |-> path, from |-> from, to |-> to, amount |-> n]

(* Two transactions of bob, the transfer affordable after the mint only,   *)
(* his key, which may be imported while they are asked to sign, a wallet   *)
(* that may exist, and a request without a recipient.                      *)
MCRequest ==
  "r1" :> Ask("/transfer", "bob", "alice", 2)
  @@ "r2" :> Ask("/token/real-mint", "bob", "bob", 1)
  @@ "r3" :> Ask("/wallet/import", "undefined", "bob", 0)
  @@ "r4" :> Ask("/wallet/create", "undefined", "alice", 0)
  @@ "r5" :> Ask("/token/mint", "bob", "undefined", 1)

MCGenesisBal == [a \in {"alice", "bob"} |-> 1]
=============================================================================
