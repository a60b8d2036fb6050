------------------------ MODULE ReplicatedMintProofs ------------------------
(***************************************************************************)
(* Theorems about ReplicatedMint, for any number of validators, any        *)
(* keyrings and any transactions.  The first part holds whatever the       *)
(* keyrings do; the second is about the runs in which all validators have  *)
(* the same key under bob and it never changes.                            *)
(***************************************************************************)
EXTENDS ReplicatedMint, TLAPS

(* A change of one balance that leaves no debt keeps the type of a state.  *)
LEMMA AddType ==
  ASSUME NEW s \in State, NEW a \in Addr, NEW d \in Denom, NEW n \in Int,
         s.bal[a][d] + n >= 0
  PROVE  Add(s, a, d, n) \in State /\ Add(s, a, d, n).bal[a][d] = s.bal[a][d] + n
<1> DEFINE row == [s.bal[a] EXCEPT ![d] = s.bal[a][d] + n]
           b2  == [s.bal EXCEPT ![a] = row]
<1>1. s.bal \in [Addr -> [Denom -> Nat]]
  BY DEF State
<1>2. row \in [Denom -> Nat] /\ row[d] = s.bal[a][d] + n
  BY <1>1
<1>3. b2 \in [Addr -> [Denom -> Nat]] /\ b2[a] = row
  BY <1>1, <1>2
<1>4. Add(s, a, d, n) = [s EXCEPT !.bal = b2]
  BY DEF Add
<1> QED
  BY <1>2, <1>3, <1>4 DEF State

(* So does a transfer of coins that the sender has.                        *)
LEMMA SendType ==
  ASSUME NEW s \in State, NEW from \in Addr, NEW to \in Addr,
         NEW d \in Denom, NEW n \in Nat, s.bal[from][d] >= n
  PROVE  SendCoins(s, from, to, d, n) \in State
<1>1. s.bal[from][d] \in Nat /\ -n \in Int /\ s.bal[from][d] + (-n) >= 0
  BY DEF State
<1>2. Add(s, from, d, -n) \in State
  BY <1>1, AddType
<1>3. Add(s, from, d, -n).bal[to][d] + n >= 0
  BY <1>2 DEF State
<1> QED
  BY <1>2, <1>3, AddType DEF SendCoins

LEMMA MintedType ==
  ASSUME NEW s \in State, NEW m \in MintMsg, NEW k, MintSucceeds(s, m, k)
  PROVE  Minted(s, m) \in State
<1>1. PICK d \in Denom, n \in Nat, to \in Addr :
        d = m.denom /\ n = m.amount /\ to = Decode[m.to]
  BY AddressAssumption DEF MintMsg, MintSucceeds, ValidCoin
<1> DEFINE s1 == [s EXCEPT !.supply[d] = @ + n]
           s2 == Add(s1, FeicoinModule, d, n)
           s3 == SendCoins(s2, FeicoinModule, to, d, n)
<1>2. s1 \in State /\ s1.bal[FeicoinModule][d] \in Nat
  BY ModuleAssumption DEF State
<1>a. Minted(s, m) = [s3 EXCEPT !.minted[d] = @ + n]
  BY <1>1 DEF Minted, EmitTokenMinted, MintCoins
<1> HIDE DEF s1
<1>3. s2 \in State /\ s2.bal[FeicoinModule][d] >= n
  BY <1>2, ModuleAssumption, AddType
<1> HIDE DEF s2
<1>4. s3 \in State
  BY <1>3, ModuleAssumption, SendType
<1> HIDE DEF s3
<1>5. s3.minted \in [Denom -> Nat] /\ s3.minted[d] \in Nat
  BY <1>4 DEF State
<1>6. [s3.minted EXCEPT ![d] = @ + n] \in [Denom -> Nat]
  BY <1>5
<1> QED
  BY <1>4, <1>6, <1>a DEF State

(* A handler that succeeds makes a state.                                  *)
LEMMA HandleType ==
  ASSUME NEW s \in State, NEW m \in Msg, NEW k, Succeeds(s, m, k),
         Signer(m) \in Addr
  PROVE  Handle(s, m) \in State
<1>1. CASE m \in MintMsg
  <2>1. m.type = "mint"
    BY <1>1 DEF MintMsg
  <2>2. Handle(s, m) = Minted(s, m) /\ MintSucceeds(s, m, k)
    BY <2>1 DEF Handle, Succeeds
  <2> QED
    BY <1>1, <2>2, MintedType
<1>2. CASE m \in SendMsg
  <2>1. /\ m.type = "send" /\ m.denom \in Denom /\ m.amount \in Nat /\ m.to \in Addr
    BY <1>2 DEF SendMsg
  <2>2. Handle(s, m) = Sent(s, m) /\ s.bal[Signer(m)][m.denom] >= m.amount
    BY <2>1 DEF Handle, Succeeds, SendSucceeds
  <2> QED
    BY <2>1, <2>2, SendType DEF Sent
<1>3. CASE m \in ParamsMsg
  BY <1>3 DEF ParamsMsg, Handle, ParamsSet, State
<1> QED
  BY <1>1, <1>2, <1>3 DEF Msg

LEMMA ExecuteType ==
  ASSUME NEW s \in State, NEW block \in Block, NEW k
  PROVE  ExecuteOn(s, block, k) \in Outcome
<1>1. CASE block.tx = None
  BY <1>1 DEF ExecuteOn, Outcome
<1>2. CASE block.tx # None
  <2>1. block.tx \in TxMsg
    BY <1>2 DEF Block
  <2>2. /\ block.tx \in Msg /\ Signer(block.tx) \in Addr
        /\ Signer(block.tx) # FeicoinModule
    BY <2>1, ReplicationAssumption
  <2>3. Succeeds(s, block.tx, k) => Handle(s, block.tx) \in State
    BY <2>2, HandleType
  <2> QED
    BY <1>2, <2>3 DEF ExecuteOn, Outcome
<1> QED
  BY <1>1, <1>2

(* Whatever the keyrings do, the outcomes a validator has built on are     *)
(* those that the decided headers carry.                                   *)
Prefix ==
  \A n \in Node : \A h \in 1..Len(history[n]) - 1 : history[n][h] = chain[h].header

RInv == TypeOK /\ Prefix

LEMMA InitRInv == Init => RInv
<1>1. SUFFICES ASSUME Init PROVE RInv
  OBVIOUS
<1> DEFINE s0 == InitGenesis(GenesisBal)
           o0 == [state |-> s0, ok |-> TRUE]
<1>a. agreed \in BOOLEAN
  BY <1>1 DEF Init
<1>2. s0 \in State
  <2>1. \A d \in Denom : SumBalances(GenesisBal, d) \in Nat
    BY ReplicationAssumption
  <2>2. [d \in Denom |-> SumBalances(GenesisBal, d)] \in [Denom -> Nat]
    BY <2>1
  <2> QED
    BY <2>2, ReplicationAssumption DEF InitGenesis, ParamsSet, State
<1>3. o0 \in Outcome
  BY <1>2 DEF Outcome
<1> HIDE DEF o0
<1>4. history = [n \in Node |-> <<o0>>]
  BY <1>1 DEF Init, o0
<1>5. \A n \in Node : history[n] \in Seq(Outcome) /\ Len(history[n]) = 1
  BY <1>3, <1>4
<1>6. TypeOK
  <2>1. chain \in Seq(Block) /\ Len(chain) = 0
    BY <1>1 DEF Init
  <2>2. history \in [Node -> Seq(Outcome)]
    BY <1>4, <1>5
  <2>3. \A n \in Node : Len(history[n]) \in 1..Len(chain) + 1
    BY <1>5, <2>1
  <2>4. /\ proposal = None /\ voted = {} /\ halted = {}
        /\ ahead = [n \in Node |-> None] /\ keyring \in [Node -> KeyringChoice]
    BY <1>1 DEF Init
  <2> HIDE DEF s0
  <2>5. ahead \in [Node -> Attempt \cup {None}]
    BY <2>4
  <2>6. proposal \in Block \cup {None} /\ voted \subseteq Node /\ halted \subseteq Node
    BY <2>4
  <2>7. chain \in Seq(Block)
    BY <2>1
  <2>8. keyring \in [Node -> KeyringChoice]
    BY <2>4
  <2> QED
    BY <1>a, <2>2, <2>3, <2>5, <2>6, <2>7, <2>8, Zenon DEF TypeOK
<1>7. Prefix
  <2>1. \A n \in Node : \A h \in 1..Len(history[n]) - 1 : FALSE
    <3>1. SUFFICES ASSUME NEW n \in Node, NEW h \in 1..Len(history[n]) - 1
                 PROVE  FALSE
      OBVIOUS
    <3>2. Len(history[n]) - 1 = 0
      BY <1>5
    <3>3. h \in 1..0
      BY <3>1, <3>2
    <3> QED
      BY <3>3
  <2> QED
    BY <2>1 DEF Prefix
<1> QED
  BY <1>6, <1>7 DEF RInv

(* The outcome a validator adds to its history when it executes a block.   *)
Result(n) ==
  LET block == chain[Height(n) + 1]
  IN  IF ExecutedAhead(n, block) THEN ahead[n].outcome ELSE Execute(n, block)

LEMMA FinalizeFacts ==
  ASSUME RInv, NEW n \in Node, n \notin halted, Height(n) < Len(chain)
  PROVE  /\ Len(history[n]) \in 1..Len(chain)
         /\ Height(n) + 1 = Len(history[n])
         /\ chain[Len(history[n])] \in Block
         /\ Latest(n) \in Outcome
         /\ Result(n) \in Outcome
         /\ Append(history[n], Result(n)) \in Seq(Outcome)
<1>1. /\ history[n] \in Seq(Outcome) /\ chain \in Seq(Block)
      /\ Len(history[n]) \in 1..Len(chain) + 1 /\ Len(chain) \in Nat
  BY DEF RInv, TypeOK
<1>2. Len(history[n]) \in 1..Len(chain) /\ Height(n) + 1 = Len(history[n])
  BY <1>1 DEF Height
<1>3. chain[Len(history[n])] \in Block /\ Latest(n) \in Outcome
  BY <1>1, <1>2 DEF Latest
<1>4. Latest(n).state \in State
  BY <1>3 DEF Outcome
<1>5. Execute(n, chain[Len(history[n])]) \in Outcome
  BY <1>3, <1>4, ExecuteType DEF Execute
<1>6. ahead[n] # None => ahead[n].outcome \in Outcome
  BY DEF RInv, TypeOK, Attempt
<1>7. Result(n) \in Outcome
  BY <1>2, <1>5, <1>6 DEF Result, ExecutedAhead
<1> QED
  BY <1>1, <1>2, <1>3, <1>7

LEMMA NextRInv == RInv /\ [Next]_vars => RInv'
<1> SUFFICES ASSUME RInv, [Next]_vars PROVE RInv'
  OBVIOUS
<1> USE DEF RInv
<1>1. ASSUME NEW n \in Node, NEW tx \in TxMsg \cup {None}, Propose(n, tx) PROVE RInv'
  <2>1. Latest(n) \in Outcome
    BY DEF TypeOK, Latest
  <2> QED
    BY <1>1, <2>1 DEF Propose, TypeOK, Prefix, Block
<1>2. ASSUME NEW n \in Node, ProcessProposal(n) PROVE RInv'
  <2>1. Latest(n) \in Outcome
    BY DEF TypeOK, Latest
  <2>2. proposal \in Block
    BY <1>2 DEF ProcessProposal, TypeOK
  <2>3. Execute(n, proposal) \in Outcome
    BY <2>1, <2>2, ExecuteType DEF Execute, Outcome
  <2>4. [block |-> proposal, outcome |-> Execute(n, proposal)] \in Attempt
    BY <2>2, <2>3 DEF Attempt
  <2> QED
    BY <1>2, <2>4 DEF ProcessProposal, TypeOK, Prefix
<1>3. CASE Decide
  <2>1. /\ chain' = Append(chain, proposal) /\ proposal \in Block
        /\ proposal' = None /\ voted' = {} /\ history' = history
        /\ ahead' = ahead /\ halted' = halted /\ keyring' = keyring
        /\ agreed' = agreed
    BY <1>3 DEF Decide, TypeOK
  <2>2. /\ chain' \in Seq(Block) /\ Len(chain') = Len(chain) + 1
        /\ \A h \in 1..Len(chain) : chain'[h] = chain[h]
    BY <2>1 DEF TypeOK
  <2>3. TypeOK'
    BY <2>1, <2>2 DEF TypeOK
  <2>4. Prefix'
    BY <2>1, <2>2 DEF Prefix, TypeOK
  <2> QED
    BY <2>3, <2>4
<1>4. CASE NewRound
  BY <1>4 DEF NewRound, TypeOK, Prefix
<1>5. ASSUME NEW n \in Node, FinalizeBlock(n) PROVE RInv'
  <2>1. /\ n \notin halted /\ Height(n) < Len(chain)
        /\ chain' = chain /\ proposal' = proposal /\ voted' = voted /\ keyring' = keyring
        /\ agreed' = agreed
    BY <1>5 DEF FinalizeBlock
  <2>2. /\ Len(history[n]) \in 1..Len(chain)
        /\ Height(n) + 1 = Len(history[n])
        /\ Append(history[n], Result(n)) \in Seq(Outcome)
    BY <2>1, FinalizeFacts
  <2> DEFINE block == chain[Height(n) + 1]
  <2>3. CASE HeaderMatches(n, block)
    <3>1. /\ history' = [history EXCEPT ![n] = Append(history[n], Result(n))]
          /\ ahead' = [ahead EXCEPT ![n] = None]
          /\ halted' = halted
      BY <1>5, <2>3 DEF FinalizeBlock, Result
    <3>2. /\ history[n] \in Seq(Outcome) /\ Len(chain) \in Nat
          /\ history \in [Node -> Seq(Outcome)]
      BY DEF TypeOK
    <3>3. /\ Len(history'[n]) = Len(history[n]) + 1
          /\ \A h \in 1..Len(history[n]) : history'[n][h] = history[n][h]
      BY <3>1, <3>2
    <3>4. \A m \in Node \ {n} : history'[m] = history[m]
      BY <3>1, <3>2
    <3>5. TypeOK'
      BY <2>1, <2>2, <3>1, <3>2, <3>3, <3>4 DEF TypeOK
    <3>6. history[n][Len(history[n])] = chain[Len(history[n])].header
      BY <2>2, <2>3 DEF HeaderMatches, Latest
    <3>7. ASSUME NEW m \in Node, NEW h \in 1..Len(history'[m]) - 1
          PROVE  history'[m][h] = chain'[h].header
      <4>1. CASE m # n
        BY <2>1, <3>4, <4>1 DEF Prefix
      <4>2. CASE m = n
        <5>1. h \in 1..Len(history[n]) /\ history'[n][h] = history[n][h]
          BY <2>2, <3>3, <4>2
        <5>2. CASE h = Len(history[n])
          BY <2>1, <3>6, <4>2, <5>1, <5>2
        <5>3. CASE h # Len(history[n])
          <6>1. h \in 1..Len(history[n]) - 1
            BY <2>2, <5>1, <5>3
          <6>2. history[n][h] = chain[h].header
            BY <6>1 DEF Prefix
          <6> QED
            BY <2>1, <4>2, <5>1, <6>2
        <5> QED
          BY <5>2, <5>3
      <4> QED
        BY <4>1, <4>2
    <3>8. Prefix'
      BY <3>7 DEF Prefix
    <3> QED
      BY <3>5, <3>8
  <2>4. CASE ~HeaderMatches(n, block)
    <3>1. history' = history /\ ahead' = ahead /\ halted' = halted \cup {n}
      BY <1>5, <2>4 DEF FinalizeBlock
    <3> QED
      BY <2>1, <3>1 DEF TypeOK, Prefix
  <2> QED
    BY <2>3, <2>4
<1>6. ASSUME NEW n \in Node, Restart(n) PROVE RInv'
  BY <1>6 DEF Restart, TypeOK, Prefix
<1>7. ASSUME NEW n \in Node, NEW k \in KeyringChoice, ChangeKeyring(n, k) PROVE RInv'
  BY <1>7 DEF ChangeKeyring, TypeOK, Prefix
<1>8. CASE UNCHANGED vars
  BY <1>8 DEF vars, TypeOK, Prefix
<1> QED
  BY <1>1, <1>2, <1>3, <1>4, <1>5, <1>6, <1>7, <1>8 DEF Next

LEMMA RInvariance == Spec => []RInv
BY InitRInv, NextRInv, PTL DEF Spec

(* The chain, the histories and the keyrings keep their types, so every    *)
(* outcome in a history is a state the bank and the module can be in.      *)
THEOREM ReplicasTypeCorrect == Spec => []TypeOK
<1>1. RInv => TypeOK
  BY DEF RInv
<1> QED
  BY <1>1, RInvariance, PTL

(* Keyrings that differ, or change while a block is executed ahead of its  *)
(* decision or again after a restart, make validators disagree on the last *)
(* block they have executed, never on an earlier one.                      *)
THEOREM DivergenceStaysAtTheEnd == Spec => []DivergenceIsConfined
<1>1. RInv => DivergenceIsConfined
  <2>1. SUFFICES ASSUME RInv, NEW n \in Node, NEW m \in Node,
                        NEW h \in 1..Len(history[n]),
                        h < Len(history[n]), h < Len(history[m])
                 PROVE  history[n][h] = history[m][h]
    BY DEF DivergenceIsConfined
  <2>2. Len(history[n]) \in Nat /\ Len(history[m]) \in Nat
    BY <2>1 DEF RInv, TypeOK
  <2>3. h \in 1..Len(history[n]) - 1 /\ h \in 1..Len(history[m]) - 1
    BY <2>1, <2>2
  <2> QED
    BY <2>1, <2>3 DEF RInv, Prefix
<1> QED
  BY <1>1, RInvariance, PTL

-----------------------------------------------------------------------------
(***************************************************************************)
(* From here on every keyring has held the same key so far.  Validators    *)
(* then compute the same outcomes whenever they execute a block, and the   *)
(* header of every decided block is the outcome all of them have.          *)
(***************************************************************************)
SameKey == \A n, m \in Node : keyring[n] = keyring[m]

(* An execution ahead of the decision was on the state the validator still *)
(* has.                                                                    *)
AheadIsRight ==
  \A n \in Node : ahead[n] # None => ahead[n].outcome = Execute(n, ahead[n].block)

Executed ==
  \A n \in Node : \A h \in 1..Len(history[n]) - 1 :
    history[n][h + 1] = ExecuteOn(history[n][h].state, chain[h], keyring[n])

SameHistory ==
  \A n, m \in Node : \A h \in 1..Len(history[n]) :
    h <= Len(history[m]) => history[n][h] = history[m][h]

HeaderIsOutcome ==
  \A h \in 1..Len(chain) : \E p \in Node :
    h <= Len(history[p]) /\ history[p][h] = chain[h].header

ProposalIsOutcome ==
  proposal # None => \E p \in Node :
    Len(history[p]) = Len(chain) + 1 /\ Latest(p) = proposal.header

SInv ==
  /\ SameKey
  /\ AheadIsRight
  /\ Executed
  /\ SameHistory
  /\ HeaderIsOutcome
  /\ ProposalIsOutcome
  /\ halted = {}

LEMMA InitSInv == Init /\ agreed => SInv
<1>1. SUFFICES ASSUME Init, agreed PROVE SInv
  OBVIOUS
<1> DEFINE o0 == [state |-> InitGenesis(GenesisBal), ok |-> TRUE]
<1>2. /\ SameKey /\ chain = << >> /\ proposal = None /\ halted = {}
      /\ ahead = [n \in Node |-> None] /\ history = [n \in Node |-> <<o0>>]
  BY <1>1 DEF Init, SameKey
<1> HIDE DEF o0
<1>3. \A n \in Node : Len(history[n]) = 1 /\ history[n][1] = o0
  BY <1>2
<1>4. SameHistory
  BY <1>3 DEF SameHistory
<1>5. \A n \in Node : \A h \in 1..Len(history[n]) - 1 : FALSE
  <2>1. SUFFICES ASSUME NEW n \in Node, NEW h \in 1..Len(history[n]) - 1
               PROVE  FALSE
    OBVIOUS
  <2>2. Len(history[n]) - 1 = 0
    BY <1>3
  <2>3. h \in 1..0
    BY <2>1, <2>2
  <2> QED
    BY <2>3
<1>6. \A h \in 1..Len(chain) : FALSE
  BY <1>2
<1>7. AheadIsRight /\ Executed /\ HeaderIsOutcome /\ ProposalIsOutcome
  BY <1>2, <1>5, <1>6 DEF AheadIsRight, Executed, HeaderIsOutcome, ProposalIsOutcome
<1> QED
  BY <1>2, <1>4, <1>7 DEF SInv

(* Executing the next block, with a header that matches.                   *)
LEMMA FinalizeSInv ==
  ASSUME RInv, SInv, NEW n \in Node, Height(n) < Len(chain), n \notin halted,
         history' = [history EXCEPT ![n] = Append(history[n], Result(n))],
         ahead' = [ahead EXCEPT ![n] = None], halted' = halted,
         chain' = chain, proposal' = proposal, keyring' = keyring
  PROVE  SInv'
<1> DEFINE L == Len(history[n])
           k == keyring[n]
<1>1. /\ L \in 1..Len(chain) /\ Height(n) + 1 = L /\ Len(chain) \in Nat
      /\ history \in [Node -> Seq(Outcome)] /\ history[n] \in Seq(Outcome)
      /\ ahead \in [Node -> Attempt \cup {None}]
  BY FinalizeFacts DEF RInv, TypeOK
<1>2. Result(n) = ExecuteOn(history[n][L].state, chain[L], k)
  BY <1>1 DEF Result, ExecutedAhead, SInv, AheadIsRight, Execute, Latest
<1>k. history[n] \in Seq(Outcome) /\ Len(history[n]) = L /\ L \in Nat
  BY <1>1
<1>3. /\ Len(history'[n]) = L + 1
      /\ \A h \in 1..L : history'[n][h] = history[n][h]
      /\ history'[n][L + 1] = ExecuteOn(history[n][L].state, chain[L], k)
  <2>1. history'[n] = Append(history[n], Result(n))
    BY <1>1
  <2>2. Result(n) \in Outcome
    BY FinalizeFacts
  <2> HIDE DEF L
  <2> QED
    BY <1>k, <1>2, <2>1, <2>2
<1>4. \A m \in Node \ {n} : history'[m] = history[m]
  BY <1>1
<1>5. \A m \in Node : Len(history[m]) \in Nat
  BY <1>1
<1> HIDE DEF L, k
<1>6. ASSUME NEW m \in Node, L + 1 <= Len(history[m])
      PROVE  history[m][L + 1] = history'[n][L + 1]
  <2>1. L \in 1..Len(history[m]) - 1
    BY <1>1, <1>5, <1>6
  <2>2. history[m][L + 1] = ExecuteOn(history[m][L].state, chain[L], keyring[m])
    BY <2>1 DEF SInv, Executed
  <2>3. history[n][L] = history[m][L]
    <3>1. L \in 1..Len(history[n]) /\ L <= Len(history[m])
      BY <1>1, <1>5, <2>1 DEF L
    <3>2. SameHistory
      BY DEF SInv
    <3> QED
      BY <3>1, <3>2 DEF SameHistory
  <2> QED
    BY <1>3, <2>2, <2>3 DEF SInv, SameKey, k
<1>7. SameHistory'
  <2>1. SUFFICES ASSUME NEW a \in Node, NEW b \in Node, NEW h \in 1..Len(history'[a]),
                        h <= Len(history'[b])
                 PROVE  history'[a][h] = history'[b][h]
    BY DEF SameHistory
  <2>2. CASE a = n /\ b # n
    <3>1. history'[b] = history[b]
      BY <1>4, <2>2
    <3>2. CASE h = L + 1
      BY <1>6, <2>1, <2>2, <3>1, <3>2
    <3>3. CASE h # L + 1
      <4>1. h \in 1..L
        BY <1>1, <1>3, <2>1, <2>2, <3>3
      <4> QED
        BY <1>3, <2>1, <2>2, <3>1, <4>1 DEF SInv, SameHistory, L
    <3> QED
      BY <3>2, <3>3
  <2>3. CASE a # n /\ b = n
    <3>1. history'[a] = history[a]
      BY <1>4, <2>3
    <3>2. CASE h = L + 1
      BY <1>5, <1>6, <2>1, <2>3, <3>1, <3>2
    <3>3. CASE h # L + 1
      <4>1. h \in 1..L
        BY <1>1, <1>3, <1>5, <2>1, <2>3, <3>1, <3>3
      <4> QED
        BY <1>3, <2>1, <2>3, <3>1, <4>1 DEF SInv, SameHistory, L
    <3> QED
      BY <3>2, <3>3
  <2>4. CASE a # n /\ b # n
    BY <1>4, <2>1, <2>4 DEF SInv, SameHistory
  <2> QED
    BY <2>2, <2>3, <2>4
<1>8. Executed'
  <2>1. SUFFICES ASSUME NEW m \in Node, NEW h \in 1..Len(history'[m]) - 1
                 PROVE  history'[m][h + 1] =
                          ExecuteOn(history'[m][h].state, chain[h], keyring[m])
    BY DEF Executed
  <2>2. CASE m # n
    BY <1>4, <2>1, <2>2 DEF SInv, Executed
  <2>3. CASE m = n /\ h = L
    BY <1>1, <1>3, <2>3 DEF k, L
  <2>4. CASE m = n /\ h # L
    <3>1. h \in 1..L - 1 /\ h \in 1..L /\ h + 1 \in 1..L
      BY <1>1, <1>3, <2>1, <2>4
    <3>2. history[n][h + 1] = ExecuteOn(history[n][h].state, chain[h], keyring[n])
      BY <3>1 DEF SInv, Executed, L
    <3> QED
      BY <1>3, <2>4, <3>1, <3>2
  <2> QED
    BY <2>2, <2>3, <2>4
<1>9. \A p \in Node : \A h \in 1..Len(history[p]) :
        h <= Len(history'[p]) /\ history'[p][h] = history[p][h]
  BY <1>1, <1>3, <1>4, <1>5 DEF L
<1>10. HeaderIsOutcome'
  <2>1. SUFFICES ASSUME NEW h \in 1..Len(chain)
                 PROVE  \E p \in Node : h <= Len(history'[p])
                                        /\ history'[p][h] = chain[h].header
    BY DEF HeaderIsOutcome
  <2>2. PICK p \in Node : h <= Len(history[p]) /\ history[p][h] = chain[h].header
    BY <2>1 DEF SInv, HeaderIsOutcome
  <2>3. h \in 1..Len(history[p])
    BY <1>5, <2>2
  <2> QED
    BY <1>9, <2>2, <2>3
<1>11. ProposalIsOutcome'
  <2>1. SUFFICES ASSUME proposal # None
                 PROVE  \E p \in Node : Len(history'[p]) = Len(chain) + 1
                          /\ history'[p][Len(history'[p])] = proposal.header
    BY DEF ProposalIsOutcome, Latest
  <2>2. PICK p \in Node : Len(history[p]) = Len(chain) + 1 /\ Latest(p) = proposal.header
    BY <2>1 DEF SInv, ProposalIsOutcome
  <2>3. p # n
    BY <1>1, <2>2 DEF L
  <2> QED
    BY <1>4, <2>2, <2>3 DEF Latest
<1>12. AheadIsRight'
  <2>1. SUFFICES ASSUME NEW m \in Node, ahead'[m] # None
                 PROVE  ahead'[m].outcome =
                   ExecuteOn(history'[m][Len(history'[m])].state, ahead'[m].block, keyring[m])
    BY DEF AheadIsRight, Execute, Latest
  <2>2. m # n /\ ahead'[m] = ahead[m] /\ history'[m] = history[m]
    BY <1>1, <1>4, <2>1
  <2> QED
    BY <2>1, <2>2 DEF SInv, AheadIsRight, Execute, Latest
<1> QED
  BY <1>7, <1>8, <1>10, <1>11, <1>12 DEF SInv, SameKey

(* With the same key everywhere, the next header always matches.           *)
LEMMA HeaderAlwaysMatches ==
  ASSUME RInv, SInv, NEW n \in Node, Height(n) < Len(chain), n \notin halted
  PROVE  HeaderMatches(n, chain[Height(n) + 1])
<1> DEFINE L == Len(history[n])
<1>1. L \in 1..Len(chain) /\ Height(n) + 1 = L
  BY FinalizeFacts
<1>2. PICK p \in Node : L <= Len(history[p]) /\ history[p][L] = chain[L].header
  BY <1>1 DEF SInv, HeaderIsOutcome
<1>3. L \in 1..L
  BY <1>1 DEF RInv, TypeOK
<1>4. history[n][L] = history[p][L]
  BY <1>2, <1>3 DEF SInv, SameHistory
<1> QED
  BY <1>1, <1>2, <1>4 DEF HeaderMatches, Latest

LEMMA NextSInv == RInv /\ SInv /\ [Next]_vars /\ agreed' => SInv'
<1> SUFFICES ASSUME RInv, SInv, [Next]_vars, agreed' PROVE SInv'
  OBVIOUS
<1>1. ASSUME NEW n \in Node, NEW tx \in TxMsg \cup {None}, Propose(n, tx) PROVE SInv'
  <2>1. /\ chain' = chain /\ history' = history /\ ahead' = ahead
        /\ halted' = halted /\ keyring' = keyring
        /\ Height(n) = Len(chain) /\ proposal' = [tx |-> tx, header |-> Latest(n)]
    BY <1>1 DEF Propose, AtTip
  <2>2. Len(history[n]) = Len(chain) + 1
    <3>1. Len(history[n]) \in Nat /\ Len(chain) \in Nat
      BY DEF RInv, TypeOK
    <3> QED
      BY <2>1, <3>1 DEF Height
  <2>3. Latest(n) = proposal'.header
    BY <2>1
  <2>4. ProposalIsOutcome'
    BY <2>1, <2>2, <2>3 DEF ProposalIsOutcome, Latest
  <2> QED
    BY <2>1, <2>4 DEF SInv, SameKey, AheadIsRight, Execute, Latest, Executed,
                      SameHistory, HeaderIsOutcome
<1>2. ASSUME NEW n \in Node, ProcessProposal(n) PROVE SInv'
  <2>1. /\ chain' = chain /\ proposal' = proposal /\ history' = history
        /\ halted' = halted /\ keyring' = keyring
        /\ ahead' = [ahead EXCEPT ![n] =
                       [block |-> proposal, outcome |-> Execute(n, proposal)]]
    BY <1>2 DEF ProcessProposal
  <2>2. AheadIsRight'
    <3>1. SUFFICES ASSUME NEW m \in Node, ahead'[m] # None
                   PROVE  ahead'[m].outcome = Execute(m, ahead'[m].block)
      BY <2>1 DEF AheadIsRight, Execute, Latest
    <3>2. ahead \in [Node -> Attempt \cup {None}]
      BY DEF RInv, TypeOK
    <3>3. CASE m = n
      BY <2>1, <3>2, <3>3
    <3>4. CASE m # n
      <4>1. ahead'[m] = ahead[m]
        BY <2>1, <3>2, <3>4
      <4> QED
        BY <3>1, <4>1 DEF SInv, AheadIsRight
    <3> QED
      BY <3>3, <3>4
  <2> QED
    BY <2>1, <2>2 DEF SInv, SameKey, Latest, Executed, SameHistory,
                      HeaderIsOutcome, ProposalIsOutcome
<1>3. CASE Decide
  <2>1. /\ chain' = Append(chain, proposal) /\ proposal # None /\ proposal' = None
        /\ history' = history /\ ahead' = ahead /\ halted' = halted /\ keyring' = keyring
    BY <1>3 DEF Decide
  <2>2. proposal \in Block /\ chain \in Seq(Block)
    BY <2>1 DEF RInv, TypeOK
  <2>3. /\ Len(chain') = Len(chain) + 1 /\ Len(chain) \in Nat
        /\ chain'[Len(chain) + 1] = proposal
        /\ \A h \in 1..Len(chain) : chain'[h] = chain[h]
    BY <2>1, <2>2
  <2>4. HeaderIsOutcome'
    <3>1. SUFFICES ASSUME NEW h \in 1..Len(chain')
                   PROVE  \E p \in Node : h <= Len(history[p])
                                          /\ history[p][h] = chain'[h].header
      BY <2>1 DEF HeaderIsOutcome
    <3>2. CASE h = Len(chain) + 1
      <4>1. PICK p \in Node : Len(history[p]) = Len(chain) + 1
                              /\ Latest(p) = proposal.header
        BY <2>1 DEF SInv, ProposalIsOutcome
      <4>2. history[p][h] = proposal.header /\ h <= Len(history[p])
        BY <2>3, <3>2, <4>1 DEF Latest
      <4> QED
        BY <2>3, <3>2, <4>2
    <3>3. CASE h # Len(chain) + 1
      <4>1. h \in 1..Len(chain)
        BY <2>3, <3>1, <3>3
      <4> QED
        BY <2>3, <4>1 DEF SInv, HeaderIsOutcome
    <3> QED
      BY <3>2, <3>3
  <2>5. Executed'
    <3>1. SUFFICES ASSUME NEW m \in Node, NEW h \in 1..Len(history[m]) - 1
                   PROVE  history[m][h + 1] =
                            ExecuteOn(history[m][h].state, chain'[h], keyring[m])
      BY <2>1 DEF Executed
    <3>2. h \in 1..Len(chain)
      <4>1. Len(history[m]) \in 1..Len(chain) + 1
        BY DEF RInv, TypeOK
      <4> QED
        BY <2>3, <3>1, <4>1
    <3> QED
      BY <2>3, <3>1, <3>2 DEF SInv, Executed
  <2>6. ProposalIsOutcome'
    BY <2>1 DEF ProposalIsOutcome
  <2> QED
    BY <2>1, <2>4, <2>5, <2>6 DEF SInv, SameKey, AheadIsRight, Execute, Latest,
                                  SameHistory
<1>4. CASE NewRound
  <2>1. /\ chain' = chain /\ proposal' = None /\ history' = history
        /\ ahead' = ahead /\ halted' = halted /\ keyring' = keyring
    BY <1>4 DEF NewRound
  <2> QED
    BY <2>1 DEF SInv, SameKey, AheadIsRight, Execute, Latest, Executed, SameHistory,
                HeaderIsOutcome, ProposalIsOutcome
<1>5. ASSUME NEW n \in Node, FinalizeBlock(n) PROVE SInv'
  <2>1. n \notin halted /\ Height(n) < Len(chain)
    BY <1>5 DEF FinalizeBlock
  <2>2. HeaderMatches(n, chain[Height(n) + 1])
    BY <2>1, HeaderAlwaysMatches
  <2>3. /\ history' = [history EXCEPT ![n] = Append(history[n], Result(n))]
        /\ ahead' = [ahead EXCEPT ![n] = None] /\ halted' = halted
        /\ chain' = chain /\ proposal' = proposal /\ keyring' = keyring
    BY <1>5, <2>2 DEF FinalizeBlock, Result
  <2> QED
    BY <2>1, <2>3, FinalizeSInv
<1>6. ASSUME NEW n \in Node, Restart(n) PROVE SInv'
  <2>1. /\ chain' = chain /\ proposal' = proposal /\ history' = history
        /\ halted' = halted /\ keyring' = keyring
        /\ ahead' = [ahead EXCEPT ![n] = None]
    BY <1>6 DEF Restart
  <2>2. \A m \in Node : ahead'[m] # None => ahead'[m] = ahead[m]
    BY <2>1 DEF RInv, TypeOK
  <2>3. AheadIsRight'
    BY <2>1, <2>2 DEF SInv, AheadIsRight, Execute, Latest
  <2> QED
    BY <2>1, <2>3 DEF SInv, SameKey, Latest, Executed, SameHistory,
                      HeaderIsOutcome, ProposalIsOutcome
<1>7. ASSUME NEW n \in Node, NEW k \in KeyringChoice, ChangeKeyring(n, k) PROVE SInv'
  <2>1. keyring' = keyring
    BY <1>7 DEF ChangeKeyring, RInv, TypeOK
  <2> QED
    BY <1>7, <2>1 DEF ChangeKeyring, SInv, SameKey, AheadIsRight, Execute, Latest,
                      Executed, SameHistory, HeaderIsOutcome, ProposalIsOutcome
<1>8. CASE UNCHANGED vars
  BY <1>8 DEF vars, SInv, SameKey, AheadIsRight, Execute, Latest, Executed, SameHistory,
              HeaderIsOutcome, ProposalIsOutcome
<1> QED
  BY <1>1, <1>2, <1>3, <1>4, <1>5, <1>6, <1>7, <1>8 DEF Next

(* Keyrings that have come to differ never count as agreed again.          *)
LEMMA AgreedBefore == [Next]_vars /\ agreed' => agreed
BY DEF Next, vars, Propose, ProcessProposal, Decide, NewRound, FinalizeBlock, Restart,
       ChangeKeyring

LEMMA SInvariance == Spec => [](RInv /\ (agreed => SInv))
<1>1. Init => RInv /\ (agreed => SInv)
  BY InitRInv, InitSInv
<1>2. RInv /\ (agreed => SInv) /\ [Next]_vars => (RInv /\ (agreed => SInv))'
  BY NextRInv, NextSInv, AgreedBefore
<1> QED
  BY <1>1, <1>2, PTL DEF Spec

(* As long as all validators have had the same key under bob, they agree   *)
(* on the outcome of every block, though they execute it at different      *)
(* times, some of them more than once, and none stops.                     *)
THEOREM SameKeyringSameOutcome == Spec => []AgreedOutcome
<1>1. RInv /\ SInv => SameOutcome
  <2>1. SUFFICES ASSUME RInv, SInv, NEW n \in Node, NEW m \in Node, Height(n) = Height(m)
                 PROVE  Latest(n) = Latest(m)
    BY DEF SameOutcome
  <2>2. /\ Len(history[n]) \in Nat /\ Len(history[m]) \in Nat
        /\ Len(history[n]) \in 1..Len(history[n])
    BY <2>1 DEF RInv, TypeOK
  <2>3. Len(history[n]) = Len(history[m])
    BY <2>1, <2>2 DEF Height
  <2> QED
    BY <2>1, <2>2, <2>3 DEF SInv, SameHistory, Latest
<1>2. RInv /\ (agreed => SInv) => AgreedOutcome
  BY <1>1 DEF AgreedOutcome, SInv
<1> QED
  BY <1>2, SInvariance, PTL
=============================================================================
