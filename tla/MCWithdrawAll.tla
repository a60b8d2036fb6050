---------------------------- MODULE MCWithdrawAll ----------------------------
(* WithdrawAll for TLC: alice has rewards of two validators, and another   *)
(* client makes a transfer of alice meanwhile.                             *)
EXTENDS WithdrawAll, TLC

Withdrawal(from, validator) ==
  [path |-> "/rewards/withdraw", from |-> from, to |-> validator, amount |-> 0]

MCRequest ==
  "w1" :> Withdrawal("alice", "bob")
  @@ "w2" :> Withdrawal("alice", "alice")
  @@ "other" :> [path |-> "/wallet/send-tokens", from |-> "undefined", to |-> "bob", amount |-> 1]

MCRewards == <<"w1", "w2">>

MCGenesisBal == [a \in {"alice", "bob"} |-> 1]
=============================================================================
