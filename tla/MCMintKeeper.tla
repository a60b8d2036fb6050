---------------------------- MODULE MCMintKeeper ----------------------------
(* MintKeeper for TLC: alice and bob, either of whom may hold the "bob"    *)
(* key, one module account that may receive coins and one that may not.    *)
EXTENDS MintKeeper

MCAddr == {"alice", "bob", "feicoin", "gov", "bonded_pool"}

(* "BOB" is bob's address in upper case, which bech32 decodes as well.     *)
MCDecode == [s \in MCAddr \cup {"BOB", "junk"} |->
               CASE s = "BOB" -> "bob" [] s = "junk" -> "bad" [] OTHER -> s]
MCEncode == [a \in MCAddr |-> a]

MCGenesisBal == [a \in MCAddr |-> [d \in {"token"} |->
                   IF a \in {"alice", "bob"} THEN 1 ELSE 0]]

Mint(by, to, d, n) ==
  [type |-> "mint", authority |-> by, to |-> to, denom |-> d, amount |-> n]

Send(by, to, n) ==
  [type |-> "send", authority |-> by, to |-> to, denom |-> "token", amount |-> n]

MCTxMsg ==
  {Mint(by, to, "token", n) : by \in {"alice", "bob"},
                              to \in {"alice", "feicoin"}, n \in {0, 1, 2}}
  \cup {Mint("bob", "bonded_pool", "token", 1), Mint("bob", "junk", "token", 1),
        Mint("BOB", "alice", "token", 1), Mint("bob", "alice", "token", -1),
        Mint("bob", "alice", "bad denom", 1)}
  \cup {[type |-> "update_params", authority |-> a] : a \in {"gov", "bob"}}
  \cup {Send("alice", "feicoin", 1), Send("alice", "bob", 2),
        Send("bob", "bonded_pool", 1)}

(* Other modules pay alice a coin or burn one of hers.                     *)
MCOtherChange ==
  [account : {"alice"}, denom : {"token"}, amount : {-1, 1}]
=============================================================================
