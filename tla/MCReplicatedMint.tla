-------------------------- MODULE MCReplicatedMint --------------------------
(* ReplicatedMint for TLC: four validators, of which three decide.         *)
EXTENDS ReplicatedMint, TLC

MCAddr == {"alice", "bob", "feicoin", "gov"}
MCDecode == [s \in MCAddr |-> s]
MCEncode == [a \in MCAddr |-> a]

MCGenesisBal == [a \in MCAddr |-> [d \in {"token"} |-> IF a = "alice" THEN 1 ELSE 0]]

MCTxMsg ==
  {[type |-> "mint", authority |-> by, to |-> "alice", denom |-> "token",
    amount |-> n] : by \in {"bob"}, n \in {-1, 0, 1}}

(* For the larger runs: one transaction, bob minting one token.            *)
MCOneTxMsg == {m \in MCTxMsg : m.amount = 1}

NodeSymmetry == Permutations(Node)
=============================================================================
