--------------------------- MODULE ReplicatedMint ---------------------------
(***************************************************************************)
(* Validators that execute the same blocks, each with a keyring of its     *)
(* own.  CometBFT orders the blocks; the header of a block carries the     *)
(* outcome (app hash and last results hash) of executing the one before,   *)
(* and a validator whose own outcome differs does not vote for the block   *)
(* and stops when it is decided.  app.go turns optimistic execution on:    *)
(* a validator executes a proposal when it receives it, and uses that      *)
(* result if the proposal is what is decided.                              *)
(*                                                                         *)
(* MintTokens asks the keyring of the validator that executes it who bob   *)
(* is, whenever that is: at the proposal, at the decision, or again when   *)
(* the validator restarts before it has committed the block.               *)
(***************************************************************************)
EXTENDS FeicoinState, Sequences

CONSTANTS
  Node,            \* validators, all of the same power
  KeyringChoice,   \* what a keyring may hold under bob: strings, or NoKey
  GenesisBal,      \* the balances of the genesis file
  TxMsg,           \* the messages of transactions, one message each
  None,            \* no transaction, no proposal, nothing executed
  MaxHeight        \* bound: blocks of the chain

(* What executing a block leaves: the state (app hash) and whether the     *)
(* transaction succeeded (last results hash); and a block.                 *)
Outcome == [state : State, ok : BOOLEAN]
Block == [tx : TxMsg \cup {None}, header : Outcome]
Attempt == [block : Block, outcome : Outcome]

ASSUME ReplicationAssumption ==
  /\ IsFiniteSet(Node) /\ Node # {}
  /\ KeyringChoice \subseteq AddrStr \cup {NoKey}
  /\ GenesisBal \in [Addr -> [Denom -> Nat]]
  /\ \A d \in Denom : SumBalances(GenesisBal, d) \in Nat
  /\ TxMsg \subseteq Msg
  /\ \A m \in TxMsg : Signer(m) \in Addr \ {FeicoinModule}
  /\ None \notin TxMsg \cup Block \cup Attempt
  /\ MaxHeight \in Nat

VARIABLES
  chain,     \* the decided blocks
  proposal,  \* the proposal of this round, or None
  voted,     \* the validators that precommit the proposal
  history,   \* per validator, the outcome of each height it has committed
  ahead,     \* per validator, the optimistic execution it keeps, or None
  halted,    \* the validators stopped by a header that does not match
  keyring,   \* per validator, the string under bob in its keyring, or NoKey
  agreed     \* history: all keyrings have had the same string, for good

vars == <<chain, proposal, voted, history, ahead, halted, keyring, agreed>>

TypeOK ==
  /\ chain \in Seq(Block)
  /\ proposal \in Block \cup {None}
  /\ voted \subseteq Node
  /\ history \in [Node -> Seq(Outcome)]
  /\ \A n \in Node : Len(history[n]) \in 1..Len(chain) + 1
  /\ ahead \in [Node -> Attempt \cup {None}]
  /\ halted \subseteq Node
  /\ keyring \in [Node -> KeyringChoice]
  /\ agreed \in BOOLEAN

Init ==
  /\ chain = << >>
  /\ proposal = None
  /\ voted = {}
  /\ history = [n \in Node |-> <<[state |-> InitGenesis(GenesisBal), ok |-> TRUE]>>]
  /\ ahead = [n \in Node |-> None]
  /\ halted = {}
  /\ keyring \in [Node -> KeyringChoice]
  /\ agreed = \A n, m \in Node : keyring[n] = keyring[m]

-----------------------------------------------------------------------------
Height(n) == Len(history[n]) - 1
Latest(n) == history[n][Len(history[n])]
AtTip(n) == n \notin halted /\ Height(n) = Len(chain)

(* A block on state s, with k under bob in the keyring: the transaction's  *)
(* writes are kept if its handler succeeds.                                *)
ExecuteOn(s, block, k) ==
  IF block.tx = None THEN [state |-> s, ok |-> TRUE]
  ELSE IF Succeeds(s, block.tx, k)
       THEN [state |-> Handle(s, block.tx), ok |-> TRUE]
       ELSE [state |-> s, ok |-> FALSE]

Execute(n, block) == ExecuteOn(Latest(n).state, block, keyring[n])

(* Mutant of HeaderMatches: the header's outcome is not compared.          *)
AnyHeader(n, block) == TRUE

HeaderMatches(n, block) == block.header = Latest(n)

Propose(n, tx) ==
  /\ AtTip(n)
  /\ proposal = None
  /\ Len(chain) < MaxHeight
  /\ proposal' = [tx |-> tx, header |-> Latest(n)]
  /\ UNCHANGED <<chain, voted, history, ahead, halted, keyring, agreed>>

(* A validator at the tip checks the header, executes the proposal ahead   *)
(* of the decision and votes for it.                                       *)
ProcessProposal(n) ==
  /\ AtTip(n)
  /\ proposal # None
  /\ n \notin voted
  /\ HeaderMatches(n, proposal)
  /\ ahead' = [ahead EXCEPT ![n] =
                 [block |-> proposal, outcome |-> Execute(n, proposal)]]
  /\ voted' = voted \cup {n}
  /\ UNCHANGED <<chain, proposal, history, halted, keyring, agreed>>

Quorum == 3 * Cardinality(voted) > 2 * Cardinality(Node)

Decide ==
  /\ proposal # None
  /\ Quorum
  /\ chain' = Append(chain, proposal)
  /\ proposal' = None
  /\ voted' = {}
  /\ UNCHANGED <<history, ahead, halted, keyring, agreed>>

(* The round ends without a decision; what was executed ahead remains.     *)
NewRound ==
  /\ proposal # None
  /\ ~Quorum
  /\ proposal' = None
  /\ voted' = {}
  /\ UNCHANGED <<chain, history, ahead, halted, keyring, agreed>>

(* Mutant of ExecutedAhead: of which block it was is not compared.         *)
ExecutedSomething(n, block) == ahead[n] # None

(* The optimistic execution counts only if it was of the decided block.    *)
ExecutedAhead(n, block) == ahead[n] # None /\ ahead[n].block = block

(* CometBFT hands over the decided blocks one by one, also to a validator  *)
(* that was not there when they were decided.                              *)
FinalizeBlock(n) ==
  /\ n \notin halted
  /\ Height(n) < Len(chain)
  /\ LET block == chain[Height(n) + 1]
     IN  IF HeaderMatches(n, block)
         THEN /\ history' = [history EXCEPT ![n] = Append(@,
                               IF ExecutedAhead(n, block)
                               THEN ahead[n].outcome
                               ELSE Execute(n, block))]
              /\ ahead' = [ahead EXCEPT ![n] = None]
              /\ UNCHANGED halted
         ELSE /\ halted' = halted \cup {n}
              /\ UNCHANGED <<history, ahead>>
  /\ UNCHANGED <<chain, proposal, voted, keyring, agreed>>

(* A restart before Commit loses what was executed ahead.                  *)
Restart(n) ==
  /\ ahead[n] # None
  /\ ahead' = [ahead EXCEPT ![n] = None]
  /\ UNCHANGED <<chain, proposal, voted, history, halted, keyring, agreed>>

ChangeKeyring(n, k) ==
  /\ keyring' = [keyring EXCEPT ![n] = k]
  /\ agreed' = (agreed /\ k = keyring[n])
  /\ UNCHANGED <<chain, proposal, voted, history, ahead, halted>>

Next ==
  \/ \E n \in Node, tx \in TxMsg \cup {None} : Propose(n, tx)
  \/ \E n \in Node : ProcessProposal(n)
  \/ Decide
  \/ NewRound
  \/ \E n \in Node : FinalizeBlock(n)
  \/ \E n \in Node : Restart(n)
  \/ \E n \in Node, k \in KeyringChoice : ChangeKeyring(n, k)

Spec == Init /\ [][Next]_vars

-----------------------------------------------------------------------------
(* The application is deterministic: validators that have executed the     *)
(* same blocks have the same outcome.  This is what the simulation's       *)
(* TestAppStateDeterminism asserts of two runs over the same blocks.       *)
SameOutcome ==
  \A n, m \in Node : Height(n) = Height(m) => Latest(n) = Latest(m)

(* As long as all keyrings hold the same key and none changes, validators  *)
(* agree on every outcome and none stops, though they execute a block at   *)
(* the proposal, at the decision, or again after another round or restart. *)
AgreedOutcome == agreed => SameOutcome /\ halted = {}

(* When validators disagree on the outcome of a block, none of those that  *)
(* got the outcome the next header does not carry executes another block:  *)
(* two histories differ at their end only.                                 *)
DivergenceIsConfined ==
  \A n, m \in Node :
    \A h \in 1..Len(history[n]) :
      h < Len(history[n]) /\ h < Len(history[m]) => history[n][h] = history[m][h]
=============================================================================
