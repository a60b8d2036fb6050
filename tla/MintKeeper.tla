----------------------------- MODULE MintKeeper -----------------------------
(***************************************************************************)
(* One node executing transactions one after the other.  A transaction is  *)
(* a sequence of messages; its handlers write to a branch of the store     *)
(* that is written back when the last message has succeeded and dropped    *)
(* when a message fails or panics (baseapp.runTx).                         *)
(*                                                                         *)
(* MintTokens first runs "feicoind keys show bob" as a child process, so   *)
(* the operator, or the wallet server's /create-wallet, may change the     *)
(* keyring before that read, between the read and the rest of the handler, *)
(* and between two messages of a transaction.                              *)
(*                                                                         *)
(* The app's other modules change the supply of the same denominations     *)
(* without a token_minted event: x/mint inflates stake in every block,     *)
(* slashing and gov burn, IBC mints and burns vouchers.                    *)
(***************************************************************************)
EXTENDS FeicoinState, Sequences

CONSTANTS
  Key,            \* addresses whose key can be in the keyring under "bob"
  GenesisBal,     \* the balances of the genesis file
  TxMsg,          \* the messages transactions are made of
  MaxMsgs,        \* bound: messages in a transaction
  OtherChange,    \* the changes of supply the other modules make
  MaxOthers       \* bound: what their changes of a denomination add up to

(* Only accounts with a private key sign, and gov for its proposals; no    *)
(* other module burns coins of the feicoin module account.                 *)
ASSUME KeeperAssumption ==
  /\ Key \subseteq Addr \ {FeicoinModule}
  /\ GenesisBal \in [Addr -> [Denom -> Nat]]
  /\ \A d \in Denom : SumBalances(GenesisBal, d) \in 0..MaxInt
  /\ TxMsg \subseteq Msg
  /\ \A m \in TxMsg : Signer(m) \in Addr \ {FeicoinModule}
  /\ MaxMsgs \in Nat
  /\ OtherChange \subseteq [account : Addr, denom : Denom, amount : Int]
  /\ \A c \in OtherChange : c.account = FeicoinModule => c.amount >= 0
  /\ MaxOthers \in Nat

VARIABLES
  store,    \* the committed state
  cache,    \* the branch the running transaction writes to
  msgs,     \* the messages of the running transaction
  next,     \* the index of the message to handle
  pc,       \* "idle", "handle" (message next) or "mint" (the keyring was read)
  bob,      \* the address getBobAddress returned to the running handler
  keyring,  \* the address under "bob" in the node's keyring, or NoKey
  everBob,  \* history: every address that was ever under "bob"
  others    \* history: what the other modules added to each denomination

vars == <<store, cache, msgs, next, pc, bob, keyring, everBob, others>>

KeyStr == {Encode[a] : a \in Key}

(* Signed transactions, and the messages of a gov proposal that has passed *)
(* (the gov EndBlocker runs them on a branch in the same way).             *)
Tx == {tx \in UNION {[1..n -> TxMsg] : n \in 1..MaxMsgs} :
         \A i, j \in DOMAIN tx : Signer(tx[i]) = Gov <=> Signer(tx[j]) = Gov}

TypeOK ==
  /\ store \in State
  /\ cache \in State
  /\ msgs \in Tx \cup {<< >>}
  /\ next \in 1..MaxMsgs + 1
  /\ pc \in {"idle", "handle", "mint"}
  /\ bob \in KeyStr \cup {NoKey}
  /\ keyring \in KeyStr \cup {NoKey}
  /\ everBob \subseteq KeyStr
  /\ others \in [Denom -> Int]

Init ==
  /\ store = InitGenesis(GenesisBal)
  /\ cache = store
  /\ msgs = << >>
  /\ next = 1
  /\ pc = "idle"
  /\ bob = NoKey
  /\ keyring \in KeyStr \cup {NoKey}
  /\ everBob = {keyring} \ {NoKey}
  /\ others = [d \in Denom |-> 0]

-----------------------------------------------------------------------------
Current == msgs[next]

(* The keyring is a directory outside the application's state.             *)
ChangeKeyring(k) ==
  /\ keyring' = k
  /\ everBob' = everBob \cup ({k} \ {NoKey})
  /\ UNCHANGED <<store, cache, msgs, next, pc, bob, others>>

BeginTx(tx) ==
  /\ pc = "idle"
  /\ pc' = "handle"
  /\ msgs' = tx
  /\ next' = 1
  /\ cache' = store
  /\ UNCHANGED <<store, bob, keyring, everBob, others>>

(* The transaction is over, with the store and the branch as given.        *)
EndTx(s) ==
  /\ store' = s
  /\ cache' = s
  /\ pc' = "idle"
  /\ msgs' = << >>
  /\ next' = 1
  /\ bob' = NoKey
  /\ UNCHANGED <<keyring, everBob, others>>

(* Mutant of FailTx: the messages that succeeded before are kept.          *)
KeepBranch == EndTx(cache)

(* A handler returned an error or panicked: the branch is dropped.         *)
FailTx == EndTx(store)

(* A handler returned: its writes stay in the branch.                      *)
NextMsg ==
  /\ cache' = Handle(cache, Current)
  /\ pc' = "handle"
  /\ next' = next + 1
  /\ bob' = NoKey
  /\ UNCHANGED <<store, msgs, keyring, everBob, others>>

Run == IF Succeeds(cache, Current, bob) THEN NextMsg ELSE FailTx

(* MintTokens, first half: the child process reads the keyring.            *)
GetBobAddress ==
  /\ pc = "handle"
  /\ next <= Len(msgs)
  /\ Current.type = "mint"
  /\ IF keyring = NoKey
     THEN FailTx
     ELSE /\ bob' = keyring
          /\ pc' = "mint"
          /\ UNCHANGED <<store, cache, msgs, next, keyring, everBob, others>>

(* MintTokens, second half: the checks, the mint and the transfer.         *)
MintTokens ==
  /\ pc = "mint"
  /\ Run

(* UpdateParams, and the bank's MsgSend.                                   *)
OtherMsg ==
  /\ pc = "handle"
  /\ next <= Len(msgs)
  /\ Current.type # "mint"
  /\ Run

(* All messages succeeded: the branch is written to the store.             *)
CommitTx ==
  /\ pc = "handle"
  /\ next > Len(msgs)
  /\ EndTx(cache)

(* Another module mints or burns coins of an account, at the beginning or  *)
(* the end of a block or in a transaction of its own messages.             *)
OtherModules(c) ==
  /\ pc = "idle"
  /\ store.supply[c.denom] + c.amount \in 0..MaxInt
  /\ store.bal[c.account][c.denom] + c.amount >= 0
  /\ others[c.denom] + c.amount \in -MaxOthers..MaxOthers
  /\ store' = Add([store EXCEPT !.supply[c.denom] = @ + c.amount],
                  c.account, c.denom, c.amount)
  /\ cache' = store'
  /\ others' = [others EXCEPT ![c.denom] = @ + c.amount]
  /\ UNCHANGED <<msgs, next, pc, bob, keyring, everBob>>

Next ==
  \/ \E k \in KeyStr \cup {NoKey} : ChangeKeyring(k)
  \/ \E tx \in Tx : BeginTx(tx)
  \/ GetBobAddress
  \/ MintTokens
  \/ OtherMsg
  \/ CommitTx
  \/ \E c \in OtherChange : OtherModules(c)

Spec == Init /\ [][Next]_vars

-----------------------------------------------------------------------------
(* What x/feicoin adds to the supply is what an indexer finds in the       *)
(* token_minted events of the committed transactions: no event without the *)
(* coins, even when a later message of the transaction fails, and, but for *)
(* the other modules, no coins without an event.                           *)
SupplyMatchesEvents ==
  \A d \in Denom :
    store.supply[d] = SumBalances(GenesisBal, d) + store.minted[d] + others[d]

(* Coins that reach the feicoin module account stay there: MintTokens      *)
(* forwards what it minted and never what was there before.                *)
ModuleNeverSpends ==
  [][\A d \in Denom : store'.bal[FeicoinModule][d] >= store.bal[FeicoinModule][d]]_vars

(* A key authorizes mints only by being, or having been, under bob in this *)
(* node's keyring: when a transaction changes the committed supply, each   *)
(* of its MintTokens messages names such a key.                            *)
OnlyBobMints ==
  [][store'.supply # store.supply /\ others' = others =>
       \A i \in 1..Len(msgs) :
         msgs[i].type = "mint" => msgs[i].authority \in everBob]_vars

MintsOf(d) == {i \in 1..Len(msgs) : msgs[i].type = "mint" /\ msgs[i].denom = d}

(* A transaction mints all of its MintTokens messages or none: a step that *)
(* changes the committed supply, and is not another module's, adds exactly *)
(* their amounts.                                                          *)
AllMintsOrNone ==
  [][\A d \in Denom : store'.supply[d] # store.supply[d] /\ others' = others =>
       store'.supply[d] - store.supply[d] =
         MapThenSumSet(LAMBDA i : msgs[i].amount, MintsOf(d))]_vars

(* The keeper's transactions, message by message and with keyring reads,   *)
(* implement the one-step transactions of MintLedger.                      *)
Ledger == INSTANCE MintLedger WITH
  GenesisSupply <- [d \in Denom |-> SumBalances(GenesisBal, d)],
  supply <- store.supply,
  issued <- store.minted,
  locked <- store.bal[FeicoinModule],
  minters <- everBob

KeepsLedger == Ledger!Spec
=============================================================================
