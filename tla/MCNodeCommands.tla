--------------------------- MODULE MCNodeCommands ---------------------------
(* NodeCommands for TLC.  The exported chain has two validators, and a     *)
(* delegator of both; the mainnet up to three, and its accounts to fund    *)
(* are none, one, one twice, and one before and after what is no address.  *)
EXTENDS NodeCommands

Of(delegator, v) == [delegator |-> delegator, validator |-> v]

MCSelfDelegation == {Of("alice", "v1"), Of("bob", "v2")}
MCDelegation == MCSelfDelegation \cup {Of("carol", "v1"), Of("carol", "v2")}

MCMainnetKey == [o1 |-> "k1", o2 |-> "k2", o3 |-> "k3"]

MCLists == {<< >>, <<"a">>, <<"b", "b">>, <<"a", "no address">>, <<"a", "", "b">>}
=============================================================================
