-------------------------- MODULE MintKeeperProofs --------------------------
(***************************************************************************)
(* Theorems about MintKeeper, for every set of accounts, denominations,    *)
(* messages and keys, and every length of a transaction.                   *)
(***************************************************************************)
EXTENDS MintKeeper, FoldTheorems, FiniteSetTheorems, TLAPS

-----------------------------------------------------------------------------
(* The handlers of FeicoinState.                                           *)

(***************************************************************************)
(* What a handler does to the state: the supply and the events grow by the *)
(* same amount, which is that of the message if it is a mint of that       *)
(* denomination and zero otherwise, the supply stays within MaxInt, and    *)
(* the module account loses nothing.                                       *)
(***************************************************************************)
Increase(m, d) == IF m.type = "mint" /\ m.denom = d THEN m.amount ELSE 0

Grows(s, t, m) ==
  \A d \in Denom :
    /\ Increase(m, d) \in Nat
    /\ t.supply[d] = s.supply[d] + Increase(m, d)
    /\ t.minted[d] = s.minted[d] + Increase(m, d)
    /\ t.supply[d] <= MaxInt \/ t.supply[d] = s.supply[d]
    /\ t.bal[FeicoinModule][d] >= s.bal[FeicoinModule][d]

(* Add changes one balance, and nothing else of the state.                 *)
LEMMA AddType ==
  ASSUME NEW s \in State, NEW a \in Addr, NEW d \in Denom, NEW n \in Int,
         s.bal[a][d] + n >= 0
  PROVE  LET t == Add(s, a, d, n)
         IN  /\ t \in State
             /\ t.supply = s.supply
             /\ t.minted = s.minted
             /\ \A b \in Addr, e \in Denom :
                  t.bal[b][e] = s.bal[b][e] + IF b = a /\ e = d THEN n ELSE 0
<1> DEFINE row == [s.bal[a] EXCEPT ![d] = s.bal[a][d] + n]
           b2  == [s.bal EXCEPT ![a] = row]
<1>1. s.bal \in [Addr -> [Denom -> Nat]]
  BY DEF State
<1>2. row \in [Denom -> Nat] /\ \A e \in Denom :
        row[e] = s.bal[a][e] + IF e = d THEN n ELSE 0
  BY <1>1
<1>3. b2 \in [Addr -> [Denom -> Nat]] /\ \A b \in Addr, e \in Denom :
        b2[b][e] = s.bal[b][e] + IF b = a /\ e = d THEN n ELSE 0
  BY <1>1, <1>2
<1>4. Add(s, a, d, n) = [s EXCEPT !.bal = b2]
  BY DEF Add
<1> HIDE DEF row, b2
<1>5. /\ Add(s, a, d, n) \in State /\ Add(s, a, d, n).bal = b2
      /\ Add(s, a, d, n).supply = s.supply /\ Add(s, a, d, n).minted = s.minted
  BY <1>3, <1>4 DEF State
<1> QED
  BY <1>3, <1>5

(* SendCoins with enough coins moves them, and changes nothing else.       *)
LEMMA SendType ==
  ASSUME NEW s \in State, NEW from \in Addr, NEW to \in Addr,
         NEW d \in Denom, NEW n \in Nat, s.bal[from][d] >= n
  PROVE  LET t == SendCoins(s, from, to, d, n)
         IN  /\ t \in State
             /\ t.supply = s.supply
             /\ t.minted = s.minted
             /\ \A b \in Addr, e \in Denom :
                  t.bal[b][e] = s.bal[b][e]
                    - (IF b = from /\ e = d THEN n ELSE 0)
                    + (IF b = to /\ e = d THEN n ELSE 0)
<1> DEFINE u == Add(s, from, d, -n)
           t == Add(u, to, d, n)
<1>0. s.bal \in [Addr -> [Denom -> Nat]]
  BY DEF State
<1>1. s.bal[from][d] \in Nat /\ -n \in Int /\ s.bal[from][d] + (-n) >= 0
  BY <1>0
<1>2. /\ u \in State
      /\ u.supply = s.supply
      /\ u.minted = s.minted
      /\ \A b \in Addr, e \in Denom :
           u.bal[b][e] = s.bal[b][e] + IF b = from /\ e = d THEN -n ELSE 0
  BY <1>1, AddType
<1>3. u.bal \in [Addr -> [Denom -> Nat]]
  BY <1>2 DEF State
<1>4. u.bal[to][d] + n >= 0
  BY <1>3
<1>5. /\ t \in State
      /\ t.supply = u.supply
      /\ t.minted = u.minted
      /\ \A b \in Addr, e \in Denom :
           t.bal[b][e] = u.bal[b][e] + IF b = to /\ e = d THEN n ELSE 0
  BY <1>2, <1>4, AddType
<1>6. ASSUME NEW b \in Addr, NEW e \in Denom
      PROVE  t.bal[b][e] = s.bal[b][e] - (IF b = from /\ e = d THEN n ELSE 0)
                                       + (IF b = to /\ e = d THEN n ELSE 0)
  <2>1. s.bal[b][e] \in Nat /\ u.bal[b][e] \in Nat
    BY <1>0, <1>3
  <2> QED
    BY <2>1, <1>2, <1>5
<1> HIDE DEF u, t
<1>7. SendCoins(s, from, to, d, n) = t
  BY DEF SendCoins, u, t
<1> QED
  BY <1>2, <1>5, <1>6, <1>7

(* A mint that succeeds.                                                   *)
LEMMA MintedType ==
  ASSUME NEW s \in State, NEW m \in MintMsg, NEW k, MintSucceeds(s, m, k)
  PROVE  Minted(s, m) \in State /\ Grows(s, Minted(s, m), m)
<1> DEFINE d == m.denom
           n == m.amount
           to == Decode[m.to]
           s1 == [s EXCEPT !.supply[d] = @ + n]
           s2 == Add(s1, FeicoinModule, d, n)
           s3 == SendCoins(s2, FeicoinModule, to, d, n)
<1>1. d \in Denom /\ n \in Nat /\ to \in Addr /\ FeicoinModule \in Addr
  BY AddressAssumption, ModuleAssumption DEF MintMsg, MintSucceeds, ValidCoin
<1>2. s.supply \in [Denom -> Nat] /\ s.bal \in [Addr -> [Denom -> Nat]]
      /\ s.minted \in [Denom -> Nat]
  BY DEF State
<1>3. s.supply[d] + n <= MaxInt
  BY <1>1, <1>2, NumberAssumption DEF MintSucceeds, MintOverflows
<1>4. /\ s1 \in State /\ s1.bal = s.bal /\ s1.minted = s.minted
      /\ s1.supply = [s.supply EXCEPT ![d] = s.supply[d] + n]
  BY <1>1, <1>2 DEF State
<1>5. s1.bal[FeicoinModule][d] + n >= 0
  BY <1>1, <1>2, <1>4
<1>a. Minted(s, m) = [s3 EXCEPT !.minted[d] = @ + n]
  BY DEF Minted, EmitTokenMinted, MintCoins
<1> HIDE DEF d, n, to, s1
<1>6. /\ s2 \in State /\ s2.supply = s1.supply /\ s2.minted = s1.minted
      /\ \A b \in Addr, e \in Denom :
           s2.bal[b][e] = s1.bal[b][e] + IF b = FeicoinModule /\ e = d THEN n ELSE 0
  BY <1>1, <1>4, <1>5, AddType
<1> HIDE DEF s2
<1>7. s2.bal[FeicoinModule][d] >= n
  BY <1>1, <1>2, <1>4, <1>6
<1>8. /\ s3 \in State /\ s3.supply = s2.supply /\ s3.minted = s2.minted
      /\ \A b \in Addr, e \in Denom :
           s3.bal[b][e] = s2.bal[b][e]
             - (IF b = FeicoinModule /\ e = d THEN n ELSE 0)
             + (IF b = to /\ e = d THEN n ELSE 0)
  BY <1>1, <1>6, <1>7, SendType
<1> HIDE DEF s3
<1>9. \A e \in Denom : s3.bal[FeicoinModule][e] >= s.bal[FeicoinModule][e]
  BY <1>1, <1>2, <1>4, <1>6, <1>8
<1>10. s3.minted \in [Denom -> Nat]
  BY <1>8 DEF State
<1>11. [s3.minted EXCEPT ![d] = s3.minted[d] + n] \in [Denom -> Nat]
  BY <1>1, <1>10
<1>12. /\ Minted(s, m) \in State
       /\ Minted(s, m).supply = s3.supply
       /\ Minted(s, m).bal = s3.bal
       /\ Minted(s, m).minted = [s3.minted EXCEPT ![d] = s3.minted[d] + n]
  BY <1>8, <1>a, <1>11 DEF State
<1>13. m.type = "mint"
  BY DEF MintMsg
<1> QED
  <2>1. SUFFICES ASSUME NEW e \in Denom
        PROVE /\ Increase(m, e) \in Nat
              /\ Minted(s, m).supply[e] = s.supply[e] + Increase(m, e)
              /\ Minted(s, m).minted[e] = s.minted[e] + Increase(m, e)
              /\ Minted(s, m).supply[e] <= MaxInt \/ Minted(s, m).supply[e] = s.supply[e]
              /\ Minted(s, m).bal[FeicoinModule][e] >= s.bal[FeicoinModule][e]
    BY <1>12 DEF Grows
  <2>2. Increase(m, e) = IF e = d THEN n ELSE 0
    BY <1>13 DEF Increase, d, n
  <2>3. Minted(s, m).bal[FeicoinModule][e] >= s.bal[FeicoinModule][e]
    BY <1>9, <1>12
  <2>4. Minted(s, m).supply = [s.supply EXCEPT ![d] = s.supply[d] + n]
    BY <1>4, <1>6, <1>8, <1>12
  <2>5. Minted(s, m).minted = [s.minted EXCEPT ![d] = s.minted[d] + n]
    BY <1>4, <1>6, <1>8, <1>12
  <2> QED
    BY <1>1, <1>2, <1>3, <2>2, <2>3, <2>4, <2>5

(* A bank transfer that succeeds.                                          *)
LEMMA SentType ==
  ASSUME NEW s \in State, NEW m \in SendMsg, Signer(m) \in Addr, SendSucceeds(s, m),
         Signer(m) # FeicoinModule
  PROVE  Sent(s, m) \in State /\ Grows(s, Sent(s, m), m)
<1>1. s.bal \in [Addr -> [Denom -> Nat]] /\ s.supply \in [Denom -> Nat]
      /\ s.minted \in [Denom -> Nat]
  BY DEF State
<1>2. m.denom \in Denom /\ m.amount \in Nat /\ m.to \in Addr /\ m.type = "send"
  BY DEF SendMsg
<1> DEFINE from == Signer(m)
           to == m.to
           d == m.denom
           n == m.amount
           t == SendCoins(s, from, to, d, n)
<1>3. from \in Addr /\ to \in Addr /\ d \in Denom /\ n \in Nat /\ s.bal[from][d] >= n
  BY <1>2 DEF SendSucceeds
<1> HIDE DEF from, to, d, n
<1>4. /\ t \in State
      /\ t.supply = s.supply
      /\ t.minted = s.minted
      /\ \A b \in Addr, e \in Denom :
           t.bal[b][e] = s.bal[b][e] - (IF b = from /\ e = d THEN n ELSE 0)
                                     + (IF b = to /\ e = d THEN n ELSE 0)
  BY <1>3, SendType
<1> HIDE DEF t
<1>t. Sent(s, m) = t
  BY DEF Sent, t, from, to, d, n
<1>f. from # FeicoinModule
  BY DEF from
<1>5. \A e \in Denom : t.bal[FeicoinModule][e] >= s.bal[FeicoinModule][e]
  BY <1>1, <1>3, <1>4, <1>f, ModuleAssumption
<1>6. \A e \in Denom : Increase(m, e) = 0
  BY <1>2 DEF Increase
<1> QED
  BY <1>1, <1>4, <1>5, <1>6, <1>t DEF Grows

(* Every handler keeps the type of the state and grows it as its message   *)
(* says.                                                                   *)
LEMMA HandleType ==
  ASSUME NEW s \in State, NEW m \in Msg, NEW k, Succeeds(s, m, k),
         Signer(m) \in Addr, Signer(m) # FeicoinModule
  PROVE  Handle(s, m) \in State /\ Grows(s, Handle(s, m), m)
<1>1. CASE m \in MintMsg
  <2>1. m.type = "mint"
    BY <1>1 DEF MintMsg
  <2>2. Handle(s, m) = Minted(s, m) /\ MintSucceeds(s, m, k)
    BY <2>1 DEF Handle, Succeeds
  <2> QED
    BY <1>1, <2>2, MintedType
<1>2. CASE m \in SendMsg
  <2>1. m.type = "send"
    BY <1>2 DEF SendMsg
  <2>2. Handle(s, m) = Sent(s, m) /\ SendSucceeds(s, m)
    BY <2>1 DEF Handle, Succeeds
  <2> QED
    BY <1>2, <2>2, SentType
<1>3. CASE m \in ParamsMsg
  <2>1. m.type = "update_params"
    BY <1>3 DEF ParamsMsg
  <2>2. Handle(s, m) = [s EXCEPT !.params = TRUE]
    BY <2>1 DEF Handle, ParamsSet
  <2>3. \A e \in Denom : Increase(m, e) = 0
    BY <2>1 DEF Increase
  <2>4. s.bal \in [Addr -> [Denom -> Nat]] /\ s.supply \in [Denom -> Nat]
        /\ s.minted \in [Denom -> Nat]
    BY DEF State
  <2>5. /\ Handle(s, m) \in State
        /\ Handle(s, m).supply = s.supply
        /\ Handle(s, m).bal = s.bal
        /\ Handle(s, m).minted = s.minted
    BY <2>2 DEF State
  <2> QED
    BY <2>3, <2>4, <2>5, ModuleAssumption DEF Grows
<1> QED
  BY <1>1, <1>2, <1>3 DEF Msg

-----------------------------------------------------------------------------
(***************************************************************************)
(* The inductive invariant.  SupplyMatchesEvents speaks of the store only; *)
(* it is inductive together with what is known of the branch the running   *)
(* transaction writes to, since a commit replaces the one by the other.    *)
(***************************************************************************)
Position ==
  /\ pc # "idle" => msgs \in Tx
  /\ pc = "mint" => next <= Len(msgs) /\ Current.type = "mint"
  /\ pc = "idle" => msgs = << >>

BobKnown ==
  /\ bob \in everBob \cup {NoKey}
  /\ keyring \in everBob \cup {NoKey}

Accounted(s) ==
  \A d \in Denom :
    /\ s.supply[d] = SumBalances(GenesisBal, d) + s.minted[d] + others[d]
    /\ s.supply[d] <= MaxInt

BranchAhead ==
  \A d \in Denom : cache.bal[FeicoinModule][d] >= store.bal[FeicoinModule][d]

Granted ==
  \A d \in Denom : cache.supply[d] # store.supply[d] =>
    everBob # {} /\ cache.supply[d] > store.supply[d]

HandledByBob ==
  \A i \in 1..Len(msgs) :
    i < next /\ msgs[i].type = "mint" => msgs[i].authority \in everBob

IInv ==
  /\ TypeOK
  /\ Position
  /\ BobKnown
  /\ Accounted(store)
  /\ Accounted(cache)
  /\ BranchAhead
  /\ Granted
  /\ HandledByBob

LEMMA TxType == \A tx \in Tx : /\ Len(tx) \in 1..MaxMsgs
                               /\ DOMAIN tx = 1..Len(tx)
                               /\ \A i \in 1..Len(tx) : tx[i] \in TxMsg
<1>1. SUFFICES ASSUME NEW tx \in Tx
               PROVE  /\ Len(tx) \in 1..MaxMsgs
                      /\ DOMAIN tx = 1..Len(tx)
                      /\ \A i \in 1..Len(tx) : tx[i] \in TxMsg
  OBVIOUS
<1>2. PICK n \in 1..MaxMsgs : tx \in [1..n -> TxMsg]
  BY DEF Tx
<1>3. MaxMsgs \in Nat /\ n \in Nat
  BY KeeperAssumption
<1>4. Len(tx) = n
  BY <1>2, <1>3
<1> QED
  BY <1>2, <1>3, <1>4

LEMMA InitInv == Init => IInv
<1>1. SUFFICES ASSUME Init PROVE IInv
  OBVIOUS
<1> DEFINE s0 == InitGenesis(GenesisBal)
<1>2. \A d \in Denom : SumBalances(GenesisBal, d) \in 0..MaxInt
  BY KeeperAssumption
<1>3. MaxInt \in Nat
  BY NumberAssumption
<1>4. /\ s0 \in State
      /\ s0.supply = [d \in Denom |-> SumBalances(GenesisBal, d)]
      /\ s0.minted = [d \in Denom |-> 0]
      /\ s0.bal = GenesisBal
  <2>1. [d \in Denom |-> SumBalances(GenesisBal, d)] \in [Denom -> Nat]
    BY <1>2, <1>3
  <2>2. GenesisBal \in [Addr -> [Denom -> Nat]]
    BY KeeperAssumption
  <2> QED
    BY <2>1, <2>2 DEF InitGenesis, ParamsSet, State
<1> HIDE DEF s0
<1>5. store = s0 /\ cache = s0
  BY <1>1 DEF Init, s0
<1>6. Accounted(s0)
  BY <1>1, <1>2, <1>3, <1>4 DEF Init, Accounted
<1>7. TypeOK
  BY <1>1, <1>4, <1>5, KeeperAssumption DEF Init, TypeOK
<1>8. BranchAhead
  <2>1. s0.bal[FeicoinModule] \in [Denom -> Nat]
    BY <1>4, ModuleAssumption DEF State
  <2> QED
    BY <1>5, <2>1 DEF BranchAhead
<1>9. Position /\ HandledByBob /\ BobKnown /\ Granted
  BY <1>1 DEF Init, Position, HandledByBob, BobKnown, Granted
<1> QED
  BY <1>5, <1>6, <1>7, <1>8, <1>9 DEF IInv

(* Ending a transaction, by a commit or by dropping its branch.            *)
LEMMA EndTxInv ==
  ASSUME IInv, NEW s \in {store, cache}, EndTx(s)
  PROVE  IInv'
<1>1. /\ store' = s /\ cache' = s /\ pc' = "idle" /\ msgs' = << >> /\ next' = 1
      /\ bob' = NoKey /\ keyring' = keyring /\ everBob' = everBob
      /\ others' = others
  BY DEF EndTx
<1>2. s \in State /\ Accounted(s)
  BY DEF IInv, TypeOK
<1>3. TypeOK'
  <2>1. 1 \in 1..MaxMsgs + 1
    BY KeeperAssumption
  <2> QED
    BY <1>1, <1>2, <2>1 DEF IInv, TypeOK
<1>4. Accounted(store)' /\ Accounted(cache)'
  BY <1>1, <1>2 DEF Accounted
<1>5. BranchAhead'
  <2>1. s.bal[FeicoinModule] \in [Denom -> Nat]
    BY <1>2, ModuleAssumption DEF State
  <2> QED
    BY <1>1, <2>1 DEF BranchAhead
<1>6. Position' /\ HandledByBob' /\ BobKnown' /\ Granted'
  BY <1>1 DEF IInv, Position, HandledByBob, BobKnown, Granted
<1> QED
  BY <1>3, <1>4, <1>5, <1>6 DEF IInv

(* A handler that succeeds.                                                *)
LEMMA NextMsgInv ==
  ASSUME IInv, pc # "idle", next <= Len(msgs), Succeeds(cache, Current, bob), NextMsg
  PROVE  IInv'
<1>1. /\ cache' = Handle(cache, Current) /\ pc' = "handle" /\ next' = next + 1
      /\ bob' = NoKey /\ store' = store /\ msgs' = msgs
      /\ keyring' = keyring /\ everBob' = everBob /\ others' = others
  BY DEF NextMsg
<1>2. msgs \in Tx /\ next \in 1..MaxMsgs + 1 /\ cache \in State /\ store \in State
  BY DEF IInv, Position, TypeOK
<1>3. Len(msgs) \in 1..MaxMsgs /\ next \in 1..Len(msgs) /\ MaxMsgs \in Nat
  BY <1>2, TxType, KeeperAssumption
<1>4. Current \in TxMsg
  BY <1>2, <1>3, TxType DEF Current
<1>5. cache' \in State /\ Grows(cache, cache', Current)
  BY <1>1, <1>2, <1>4, HandleType, KeeperAssumption
<1>6. TypeOK'
  <2>1. next + 1 \in 1..MaxMsgs + 1
    BY <1>3
  <2> QED
    BY <1>1, <1>5, <2>1 DEF IInv, TypeOK
<1>7. Accounted(cache)'
  <2>1. SUFFICES ASSUME NEW d \in Denom
                 PROVE  /\ cache'.supply[d] = SumBalances(GenesisBal, d)
                                               + cache'.minted[d] + others[d]
                        /\ cache'.supply[d] <= MaxInt
    BY <1>1 DEF Accounted
  <2>2. /\ cache.supply[d] = SumBalances(GenesisBal, d) + cache.minted[d] + others[d]
        /\ cache.supply[d] <= MaxInt
    BY DEF IInv, Accounted
  <2>3. /\ Increase(Current, d) \in Nat
        /\ cache'.supply[d] = cache.supply[d] + Increase(Current, d)
        /\ cache'.minted[d] = cache.minted[d] + Increase(Current, d)
        /\ cache'.supply[d] <= MaxInt \/ cache'.supply[d] = cache.supply[d]
    BY <1>5 DEF Grows
  <2>4. cache.minted[d] \in Nat
    BY <1>2 DEF State
  <2>5. SumBalances(GenesisBal, d) \in Nat /\ others[d] \in Int
    BY KeeperAssumption, NumberAssumption DEF IInv, TypeOK
  <2> QED
    BY <2>2, <2>3, <2>4, <2>5
<1>8. BranchAhead'
  <2>1. SUFFICES ASSUME NEW d \in Denom
                 PROVE  cache'.bal[FeicoinModule][d] >= store.bal[FeicoinModule][d]
    BY <1>1 DEF BranchAhead
  <2>2. /\ cache'.bal[FeicoinModule][d] >= cache.bal[FeicoinModule][d]
        /\ cache.bal[FeicoinModule][d] >= store.bal[FeicoinModule][d]
    BY <1>5 DEF Grows, IInv, BranchAhead
  <2>3. /\ cache'.bal[FeicoinModule][d] \in Nat
        /\ cache.bal[FeicoinModule][d] \in Nat
        /\ store.bal[FeicoinModule][d] \in Nat
    BY <1>2, <1>5, ModuleAssumption DEF State
  <2> QED
    BY <2>2, <2>3
<1>9. HandledByBob'
  <2>1. Current.type = "mint" => Current.authority \in everBob
    <3>1. SUFFICES ASSUME Current.type = "mint" PROVE Current.authority \in everBob
      OBVIOUS
    <3>2. MintSucceeds(cache, Current, bob)
      BY <3>1 DEF Succeeds
    <3>3. bob # NoKey /\ Current.authority = bob
      BY <3>2 DEF MintSucceeds, Authorized
    <3> QED
      BY <3>3 DEF IInv, BobKnown
  <2>2. SUFFICES ASSUME NEW i \in 1..Len(msgs), i < next + 1, msgs[i].type = "mint"
                 PROVE  msgs[i].authority \in everBob
    BY <1>1 DEF HandledByBob
  <2>3. CASE i = next
    BY <2>1, <2>2, <2>3 DEF Current
  <2>4. CASE i < next
    BY <2>2, <2>4 DEF IInv, HandledByBob
  <2> QED
    BY <1>3, <2>2, <2>3, <2>4
<1>10. Position' /\ BobKnown'
  BY <1>1, <1>2 DEF IInv, Position, BobKnown
<1>g. Granted'
  <2>1. SUFFICES ASSUME NEW d \in Denom, cache'.supply[d] # store.supply[d]
                 PROVE  everBob # {} /\ cache'.supply[d] > store.supply[d]
    BY <1>1 DEF Granted
  <2>2. /\ Increase(Current, d) \in Nat
        /\ cache'.supply[d] = cache.supply[d] + Increase(Current, d)
    BY <1>5 DEF Grows
  <2>3. cache.supply[d] \in Nat /\ store.supply[d] \in Nat
    BY <1>2 DEF State
  <2>4. cache.supply[d] # store.supply[d] =>
          everBob # {} /\ cache.supply[d] > store.supply[d]
    BY DEF IInv, Granted
  <2>5. CASE Current.type = "mint"
    <3>1. bob # NoKey
      BY <2>5 DEF Succeeds, MintSucceeds
    <3>2. everBob # {}
      BY <3>1 DEF IInv, BobKnown
    <3> QED
      BY <2>1, <2>2, <2>3, <2>4, <3>2
  <2>6. CASE Current.type # "mint"
    BY <2>1, <2>2, <2>3, <2>4, <2>6 DEF Increase
  <2> QED
    BY <2>5, <2>6
<1>11. Accounted(store)'
  BY <1>1 DEF IInv, Accounted
<1> QED
  BY <1>6, <1>7, <1>8, <1>9, <1>10, <1>g, <1>11 DEF IInv

LEMMA RunInv ==
  ASSUME IInv, pc # "idle", next <= Len(msgs), Run
  PROVE  IInv'
<1>1. CASE Succeeds(cache, Current, bob)
  BY <1>1, NextMsgInv DEF Run
<1>2. CASE ~Succeeds(cache, Current, bob)
  BY <1>2, EndTxInv DEF Run, FailTx
<1> QED
  BY <1>1, <1>2

(* What a change by another module does to the committed state.            *)
LEMMA OthersStep ==
  ASSUME IInv, NEW c \in OtherChange, OtherModules(c)
  PROVE  /\ store' \in State /\ cache' = store'
         /\ others' \in [Denom -> Int]
         /\ \A d \in Denom :
              /\ store'.minted[d] = store.minted[d]
              /\ store'.supply[d] = store.supply[d] + (others'[d] - others[d])
              /\ store'.supply[d] \in 0..MaxInt
              /\ store'.bal[FeicoinModule][d] >= store.bal[FeicoinModule][d]
<1> DEFINE a == c.account
           e == c.denom
           n == c.amount
           s1 == [store EXCEPT !.supply[e] = @ + n]
<1>1. /\ a \in Addr /\ e \in Denom /\ n \in Int
      /\ a = FeicoinModule => n >= 0
  BY KeeperAssumption
<1>2. /\ store.supply \in [Denom -> Nat] /\ store.bal \in [Addr -> [Denom -> Nat]]
      /\ store.minted \in [Denom -> Nat] /\ others \in [Denom -> Int]
      /\ store \in State
  BY DEF IInv, TypeOK, State
<1>3. /\ store.supply[e] + n \in 0..MaxInt
      /\ store.bal[a][e] + n >= 0
      /\ store' = Add(s1, a, e, n)
      /\ cache' = store'
      /\ others' = [others EXCEPT ![e] = others[e] + n]
  BY DEF OtherModules
<1>4. \A d \in Denom : store.supply[d] \in 0..MaxInt
  BY <1>2, NumberAssumption DEF IInv, Accounted
<1>5. store.supply[e] + n \in Nat
  BY <1>3, NumberAssumption
<1>6. [store.supply EXCEPT ![e] = store.supply[e] + n] \in [Denom -> Nat]
  BY <1>1, <1>2, <1>5
<1>7. /\ s1 \in State /\ s1.bal = store.bal /\ s1.minted = store.minted
      /\ s1.supply = [store.supply EXCEPT ![e] = store.supply[e] + n]
  BY <1>2, <1>6 DEF State
<1> HIDE DEF a, e, n, s1
<1>8. /\ store' \in State /\ store'.supply = s1.supply /\ store'.minted = s1.minted
      /\ \A b \in Addr, d \in Denom :
           store'.bal[b][d] = s1.bal[b][d] + IF b = a /\ d = e THEN n ELSE 0
  <2>1. s1.bal[a][e] + n >= 0
    BY <1>3, <1>7
  <2> QED
    BY <1>1, <1>3, <1>7, <2>1, AddType
<1>9. others' \in [Denom -> Int]
  BY <1>1, <1>2, <1>3
<1>10. ASSUME NEW d \in Denom
       PROVE  /\ store'.minted[d] = store.minted[d]
              /\ store'.supply[d] = store.supply[d] + (others'[d] - others[d])
              /\ store'.supply[d] \in 0..MaxInt
              /\ store'.bal[FeicoinModule][d] >= store.bal[FeicoinModule][d]
  <2>1. store'.minted[d] = store.minted[d]
    BY <1>7, <1>8
  <2>2. /\ store'.supply[d] = IF d = e THEN store.supply[e] + n ELSE store.supply[d]
        /\ others'[d] = IF d = e THEN others[e] + n ELSE others[d]
    BY <1>1, <1>2, <1>3, <1>7, <1>8
  <2>3. /\ store.supply[d] \in 0..MaxInt /\ store.supply[d] \in Int
        /\ others[d] \in Int
    BY <1>2, <1>4
  <2>4. /\ store'.supply[d] = store.supply[d] + (others'[d] - others[d])
        /\ store'.supply[d] \in 0..MaxInt
    BY <1>1, <1>3, <2>2, <2>3
  <2>5. store'.bal[FeicoinModule][d] >= store.bal[FeicoinModule][d]
    <3>1. store.bal[FeicoinModule][d] \in Nat /\ FeicoinModule \in Addr
      BY <1>2, ModuleAssumption
    <3>2. store'.bal[FeicoinModule][d] =
            store.bal[FeicoinModule][d] + IF FeicoinModule = a /\ d = e THEN n ELSE 0
      BY <1>7, <1>8, <3>1
    <3> QED
      BY <1>1, <3>1, <3>2
  <2> QED
    BY <2>1, <2>4, <2>5
<1> QED
  BY <1>3, <1>8, <1>9, <1>10

LEMMA OthersInv ==
  ASSUME IInv, NEW c \in OtherChange, OtherModules(c)
  PROVE  IInv'
<1>1. /\ msgs' = msgs /\ next' = next /\ pc = "idle" /\ pc' = pc /\ bob' = bob
      /\ keyring' = keyring /\ everBob' = everBob
  BY DEF OtherModules
<1>2. store' \in State /\ cache' = store' /\ others' \in [Denom -> Int]
  BY OthersStep
<1>3. TypeOK'
  BY <1>1, <1>2 DEF IInv, TypeOK
<1>4. ASSUME NEW d \in Denom
      PROVE  /\ store'.supply[d] = SumBalances(GenesisBal, d)
                                     + store'.minted[d] + others'[d]
             /\ store'.supply[d] <= MaxInt
  <2>1. /\ store'.minted[d] = store.minted[d]
        /\ store'.supply[d] = store.supply[d] + (others'[d] - others[d])
        /\ store'.supply[d] \in 0..MaxInt
    BY OthersStep
  <2>2. store.supply[d] = SumBalances(GenesisBal, d) + store.minted[d] + others[d]
    BY DEF IInv, Accounted
  <2>3. SumBalances(GenesisBal, d) \in Nat /\ others[d] \in Int /\ others'[d] \in Int
    BY <1>2, KeeperAssumption, NumberAssumption DEF IInv, TypeOK
  <2>4. store.minted[d] \in Nat
    BY DEF IInv, TypeOK, State
  <2> QED
    BY <2>1, <2>2, <2>3, <2>4, NumberAssumption
<1>5. Accounted(store)' /\ Accounted(cache)'
  BY <1>2, <1>4 DEF Accounted
<1>6. BranchAhead'
  <2>1. store'.bal[FeicoinModule] \in [Denom -> Nat]
    BY <1>2, ModuleAssumption DEF State
  <2> QED
    BY <1>2, <2>1 DEF BranchAhead
<1>7. Position' /\ HandledByBob' /\ BobKnown' /\ Granted'
  BY <1>1, <1>2 DEF IInv, Position, HandledByBob, BobKnown, Granted
<1> QED
  BY <1>3, <1>5, <1>6, <1>7 DEF IInv

LEMMA NextInv == IInv /\ [Next]_vars => IInv'
<1> SUFFICES ASSUME IInv, [Next]_vars PROVE IInv'
  OBVIOUS
<1>1. ASSUME NEW k \in KeyStr \cup {NoKey}, ChangeKeyring(k) PROVE IInv'
  <2>1. /\ store' = store /\ cache' = cache /\ msgs' = msgs /\ next' = next
        /\ pc' = pc /\ bob' = bob /\ keyring' = k
        /\ everBob' = everBob \cup ({k} \ {NoKey}) /\ others' = others
    BY <1>1 DEF ChangeKeyring
  <2>2. TypeOK'
    BY <2>1 DEF IInv, TypeOK
  <2>3. Position' /\ BranchAhead'
    BY <2>1 DEF IInv, Position, BranchAhead, Current
  <2>4. BobKnown' /\ HandledByBob' /\ Granted'
    BY <2>1 DEF IInv, BobKnown, HandledByBob, Granted
  <2>5. Accounted(store)' /\ Accounted(cache)'
    BY <2>1 DEF IInv, Accounted
  <2> QED
    BY <2>2, <2>3, <2>4, <2>5 DEF IInv
<1>2. ASSUME NEW tx \in Tx, BeginTx(tx) PROVE IInv'
  <2>1. /\ store' = store /\ cache' = store /\ msgs' = tx /\ next' = 1 /\ pc = "idle"
        /\ pc' = "handle" /\ bob' = bob /\ keyring' = keyring /\ everBob' = everBob
        /\ others' = others
    BY <1>2 DEF BeginTx
  <2>2. TypeOK'
    BY <2>1, KeeperAssumption DEF IInv, TypeOK
  <2>3. Position' /\ BobKnown' /\ HandledByBob' /\ Granted'
    BY <2>1 DEF IInv, Position, BobKnown, HandledByBob, Granted
  <2>4. BranchAhead'
    <3>1. store.bal[FeicoinModule] \in [Denom -> Nat]
      BY ModuleAssumption DEF IInv, TypeOK, State
    <3> QED
      BY <2>1, <3>1 DEF BranchAhead
  <2>5. Accounted(store)' /\ Accounted(cache)'
    BY <2>1 DEF IInv, Accounted
  <2> QED
    BY <2>2, <2>3, <2>4, <2>5 DEF IInv
<1>3. CASE GetBobAddress
  <2>1. CASE keyring = NoKey
    BY <1>3, <2>1, EndTxInv DEF GetBobAddress, FailTx
  <2>2. CASE keyring # NoKey
    <3>1. /\ bob' = keyring /\ pc' = "mint" /\ store' = store /\ cache' = cache
          /\ msgs' = msgs /\ next' = next /\ keyring' = keyring /\ everBob' = everBob
          /\ pc = "handle" /\ next <= Len(msgs) /\ Current.type = "mint"
          /\ others' = others
      BY <1>3, <2>2 DEF GetBobAddress
    <3>2. TypeOK'
      BY <3>1 DEF IInv, TypeOK
    <3>3. Position' /\ BobKnown' /\ HandledByBob' /\ BranchAhead' /\ Granted'
      BY <3>1 DEF IInv, Position, BobKnown, HandledByBob, BranchAhead, Current, Granted
    <3>4. Accounted(store)' /\ Accounted(cache)'
      BY <3>1 DEF IInv, Accounted
    <3> QED
      BY <3>2, <3>3, <3>4 DEF IInv
  <2> QED
    BY <2>1, <2>2
<1>4. CASE MintTokens
  BY <1>4, RunInv DEF MintTokens, IInv, Position
<1>5. CASE OtherMsg
  BY <1>5, RunInv DEF OtherMsg
<1>6. CASE CommitTx
  BY <1>6, EndTxInv DEF CommitTx
<1>7. CASE UNCHANGED vars
  <2>1. /\ store' = store /\ cache' = cache /\ msgs' = msgs /\ next' = next
        /\ pc' = pc /\ bob' = bob /\ keyring' = keyring /\ everBob' = everBob
        /\ others' = others
    BY <1>7 DEF vars
  <2> QED
    BY <2>1 DEF IInv, TypeOK, Position, BobKnown, Accounted, BranchAhead,
                Granted, HandledByBob, Current
<1> QED
  BY <1>1, <1>2, <1>3, <1>4, <1>5, <1>6, <1>7, OthersInv DEF Next

LEMMA Invariance == Spec => []IInv
BY InitInv, NextInv, PTL DEF Spec

-----------------------------------------------------------------------------
(* The state, the branch, the position in the transaction and the keyring  *)
(* keep their types: no balance becomes negative on any path through       *)
(* MintTokens, UpdateParams and the bank.                                  *)
THEOREM TypeCorrect == Spec => []TypeOK
<1>1. IInv => TypeOK
  BY DEF IInv
<1> QED
  BY <1>1, Invariance, PTL

(* The committed supply is the genesis supply, the token_minted events of  *)
(* the committed transactions and what the other modules added, whatever   *)
(* transactions fail half way.                                             *)
THEOREM SupplyIsEvents == Spec => []SupplyMatchesEvents
<1>1. IInv => SupplyMatchesEvents
  BY DEF IInv, Accounted, SupplyMatchesEvents
<1> QED
  BY <1>1, Invariance, PTL

(* No transaction takes coins out of the feicoin module account.           *)
THEOREM ModuleKeepsItsCoins == Spec => ModuleNeverSpends
<1> DEFINE Kept == \A d \in Denom :
             store'.bal[FeicoinModule][d] >= store.bal[FeicoinModule][d]
<1>1. IInv /\ [Next]_vars => [Kept]_vars
  <2>1. SUFFICES ASSUME IInv, Next PROVE Kept
    OBVIOUS
  <2>o. CASE \E c \in OtherChange : OtherModules(c)
    BY <2>1, <2>o, OthersStep
  <2>2. CASE store' = store \/ store' = cache
    <3>1. store.bal[FeicoinModule] \in [Denom -> Nat]
      BY <2>1, ModuleAssumption DEF IInv, TypeOK, State
    <3> QED
      BY <2>1, <2>2, <3>1 DEF IInv, BranchAhead
  <2> QED
    BY <2>1, <2>o, <2>2 DEF Next, ChangeKeyring, BeginTx, GetBobAddress, MintTokens, OtherMsg,
                CommitTx, Run, NextMsg, FailTx, EndTx
<1> QED
  BY <1>1, Invariance, PTL DEF Spec, ModuleNeverSpends

(* A step that changes the committed supply, and is not another module's,  *)
(* commits a transaction.                                                  *)
LEMMA SupplySteps ==
  ASSUME IInv, Next, others' = others, store'.supply # store.supply
  PROVE  CommitTx
<1>1. ASSUME NEW c \in OtherChange, OtherModules(c) PROVE FALSE
  <2>1. /\ store' \in State /\ store \in State
        /\ store'.supply \in [Denom -> Nat] /\ store.supply \in [Denom -> Nat]
        /\ others \in [Denom -> Int]
    BY <1>1, OthersStep DEF IInv, TypeOK, State
  <2>2. ASSUME NEW d \in Denom PROVE store'.supply[d] = store.supply[d]
    <3>1. store'.supply[d] = store.supply[d] + (others'[d] - others[d])
      BY <1>1, OthersStep
    <3>2. others[d] \in Int /\ others'[d] = others[d] /\ store.supply[d] \in Int
      BY <2>1
    <3> QED
      BY <3>1, <3>2
  <2> QED
    BY <2>1, <2>2
<1>2. store' = store \/ CommitTx \/ \E c \in OtherChange : OtherModules(c)
  BY DEF Next, ChangeKeyring, BeginTx, GetBobAddress, MintTokens, OtherMsg,
         Run, NextMsg, FailTx, EndTx
<1> QED
  BY <1>1, <1>2

(* Transactions change the committed supply only with the authorization of *)
(* addresses that are or were under bob in the keyring.                    *)
THEOREM MintsAreAuthorized == Spec => OnlyBobMints
<1> DEFINE Auth == store'.supply # store.supply /\ others' = others =>
             \A i \in 1..Len(msgs) :
               msgs[i].type = "mint" => msgs[i].authority \in everBob
<1>1. IInv /\ [Next]_vars => [Auth]_vars
  <2>1. SUFFICES ASSUME IInv, Next, store'.supply # store.supply, others' = others,
                        NEW i \in 1..Len(msgs), msgs[i].type = "mint"
                 PROVE  msgs[i].authority \in everBob
    OBVIOUS
  <2>2. CommitTx
    BY <2>1, SupplySteps
  <2>4. next > Len(msgs) /\ msgs \in Tx
    BY <2>1, <2>2 DEF CommitTx, IInv, Position
  <2>5. Len(msgs) \in Nat /\ next \in Nat /\ i < next
    BY <2>1, <2>4, TxType, KeeperAssumption DEF IInv, TypeOK
  <2> QED
    BY <2>1, <2>5 DEF IInv, HandledByBob
<1> QED
  BY <1>1, Invariance, PTL DEF Spec, OnlyBobMints

-----------------------------------------------------------------------------
(***************************************************************************)
(* Mints of a transaction.  The branch is ahead of the store by the        *)
(* amounts of the mints handled so far.                                    *)
(***************************************************************************)
Amounts == [i \in 1..Len(msgs) |-> msgs[i].amount]

HandledMints(d) == {i \in MintsOf(d) : i < next}

BranchAheadBy ==
  pc # "idle" =>
    \A d \in Denom : cache.supply[d] = store.supply[d] + Sum(Amounts, HandledMints(d))

(* Sums over the mints of the running transaction.                         *)
LEMMA MintSums ==
  ASSUME msgs \in Tx, NEW d
  PROVE  LET S == MintsOf(d)
         IN  /\ IsFiniteSet(S)
             /\ \A i \in S : Amounts[i] = msgs[i].amount /\ Amounts[i] \in Int
             /\ Sum(Amounts, {}) = 0
             /\ \A B \in SUBSET S : Sum(Amounts, B) \in Int
             /\ \A B \in SUBSET S : \A i \in B :
                  Sum(Amounts, B) = Amounts[i] + Sum(Amounts, B \ {i})
<1> DEFINE S == MintsOf(d)
<1>1. Len(msgs) \in Nat /\ \A i \in 1..Len(msgs) : msgs[i] \in Msg
  BY TxType, KeeperAssumption
<1>2. IsFiniteSet(S)
  <2>1. IsFiniteSet(1..Len(msgs))
    BY <1>1, FS_Interval
  <2>2. S \subseteq 1..Len(msgs)
    BY DEF MintsOf
  <2> QED
    BY <2>1, <2>2, FS_Subset
<1>3. ASSUME NEW i \in S PROVE Amounts[i] = msgs[i].amount /\ Amounts[i] \in Int
  <2>1. i \in 1..Len(msgs) /\ msgs[i] \in Msg /\ msgs[i].type = "mint"
    BY <1>1 DEF MintsOf
  <2>2. msgs[i] \in MintMsg
    BY <2>1 DEF Msg, MintMsg, ParamsMsg, SendMsg
  <2>3. msgs[i].amount \in Int
    BY <2>2 DEF MintMsg
  <2> QED
    BY <2>1, <2>3 DEF Amounts
<1> HIDE DEF S
<1>4. /\ Sum(Amounts, {}) = 0
      /\ \A B \in SUBSET S : Sum(Amounts, B) \in Int
      /\ \A B \in SUBSET S : \A i \in B :
           Sum(Amounts, B) = Amounts[i] + Sum(Amounts, B \ {i})
  BY <1>2, <1>3, SumStep
<1> QED
  BY <1>2, <1>3, <1>4 DEF S

(* A handler adds its own amount, if it mints.                             *)
LEMMA HandledMintsStep ==
  ASSUME msgs \in Tx, next \in 1..Len(msgs), NEW d \in Denom, NEW B,
         B = {i \in MintsOf(d) : i < next + 1}
  PROVE  Sum(Amounts, B) = Sum(Amounts, HandledMints(d)) + Increase(Current, d)
<1> DEFINE H == HandledMints(d)
<1>1. Len(msgs) \in Nat /\ next \in Nat
  BY TxType, KeeperAssumption
<1>2. B \in SUBSET MintsOf(d) /\ H \in SUBSET MintsOf(d)
  BY DEF HandledMints
<1>3. Sum(Amounts, H) \in Int
  BY <1>2, MintSums
<1>4. CASE Current.type = "mint" /\ Current.denom = d
  <2>1. next \in MintsOf(d) /\ next \in B
    BY <1>1, <1>4 DEF MintsOf, Current
  <2>2. B \ {next} = H
    BY <1>1, <2>1 DEF HandledMints, MintsOf
  <2>3. Sum(Amounts, B) = Amounts[next] + Sum(Amounts, B \ {next})
    BY <1>2, <2>1, MintSums
  <2>4. Amounts[next] = Increase(Current, d) /\ Amounts[next] \in Int
    BY <1>4, <2>1, MintSums DEF Increase, Current
  <2>5. PICK a \in Int, h \in Int : a = Amounts[next] /\ h = Sum(Amounts, H)
    BY <1>3, <2>4
  <2> HIDE DEF H
  <2>6. Sum(Amounts, B) = a + h /\ Increase(Current, d) = a
    BY <2>2, <2>3, <2>4, <2>5
  <2> QED
    BY <2>5, <2>6 DEF H
<1>5. CASE ~(Current.type = "mint" /\ Current.denom = d)
  <2>1. next \notin MintsOf(d)
    BY <1>5 DEF MintsOf, Current
  <2>2. B = H
    BY <1>1, <2>1 DEF HandledMints, MintsOf
  <2>3. Increase(Current, d) = 0
    BY <1>5 DEF Increase
  <2>4. PICK h \in Int : h = Sum(Amounts, H)
    BY <1>3
  <2> HIDE DEF H
  <2>5. Sum(Amounts, B) = h
    BY <2>2, <2>4
  <2> QED
    BY <2>3, <2>4, <2>5 DEF H
<1> QED
  BY <1>4, <1>5

LEMMA NextMsgAheadBy ==
  ASSUME IInv, BranchAheadBy, pc # "idle", next <= Len(msgs),
         Succeeds(cache, Current, bob), NextMsg
  PROVE  BranchAheadBy'
<1>1. /\ cache' = Handle(cache, Current) /\ next' = next + 1
      /\ store' = store /\ msgs' = msgs
  BY DEF NextMsg
<1>2. msgs \in Tx /\ next \in 1..MaxMsgs + 1 /\ cache \in State /\ store \in State
  BY DEF IInv, Position, TypeOK
<1>3. Len(msgs) \in 1..MaxMsgs /\ next \in 1..Len(msgs) /\ MaxMsgs \in Nat
  BY <1>2, TxType, KeeperAssumption
<1>4. Current \in TxMsg
  BY <1>2, <1>3, TxType DEF Current
<1>5. Grows(cache, cache', Current)
  BY <1>1, <1>2, <1>4, HandleType, KeeperAssumption
<1>6. Amounts' = Amounts
  BY <1>1 DEF Amounts
<1>7. ASSUME NEW d \in Denom
      PROVE  cache'.supply[d] = store'.supply[d] + Sum(Amounts, HandledMints(d)')
  <2>1. HandledMints(d)' = {i \in MintsOf(d) : i < next + 1}
    BY <1>1 DEF HandledMints, MintsOf
  <2>2. Sum(Amounts, HandledMints(d)') = Sum(Amounts, HandledMints(d)) + Increase(Current, d)
    BY <1>2, <1>3, <2>1, HandledMintsStep
  <2>3. cache.supply[d] = store.supply[d] + Sum(Amounts, HandledMints(d))
    BY DEF BranchAheadBy
  <2>4. /\ cache'.supply[d] = cache.supply[d] + Increase(Current, d)
        /\ Increase(Current, d) \in Nat
    BY <1>5 DEF Grows
  <2>5. HandledMints(d) \in SUBSET MintsOf(d)
    BY DEF HandledMints
  <2>a. Sum(Amounts, HandledMints(d)) \in Int
    BY <1>2, <2>5, MintSums
  <2>6. Sum(Amounts, HandledMints(d)) \in Int /\ store.supply[d] \in Int
    BY <1>2, <2>a DEF State
  <2>7. store' = store
    BY <1>1
  <2> QED
    BY <2>2, <2>3, <2>4, <2>6, <2>7
<1> QED
  BY <1>6, <1>7 DEF BranchAheadBy

LEMMA NextAheadBy == IInv /\ BranchAheadBy /\ [Next]_vars => BranchAheadBy'
<1> SUFFICES ASSUME IInv, BranchAheadBy, [Next]_vars PROVE BranchAheadBy'
  OBVIOUS
<1>1. ASSUME pc' = "idle" PROVE BranchAheadBy'
  BY <1>1 DEF BranchAheadBy
<1>2. ASSUME UNCHANGED <<store, cache, msgs, next>>, pc # "idle" PROVE BranchAheadBy'
  BY <1>2 DEF BranchAheadBy, Amounts, HandledMints, MintsOf
<1>3. ASSUME UNCHANGED <<store, cache, msgs, next, pc>> PROVE BranchAheadBy'
  BY <1>3 DEF BranchAheadBy, Amounts, HandledMints, MintsOf
<1>4. ASSUME NEW tx \in Tx, BeginTx(tx) PROVE BranchAheadBy'
  <2>1. cache' = store /\ store' = store /\ msgs' = tx /\ next' = 1 /\ store \in State
    BY <1>4 DEF BeginTx, IInv, TypeOK
  <2>2. ASSUME NEW d \in Denom
        PROVE  cache'.supply[d] = store'.supply[d] + Sum(Amounts', HandledMints(d)')
    <3>1. HandledMints(d)' = {}
      BY <2>1 DEF HandledMints, MintsOf
    <3>2. Sum(Amounts', {}) = 0
      BY FS_EmptySet, SumStep
    <3>3. store.supply[d] \in Int
      BY <2>1 DEF State
    <3> QED
      BY <2>1, <3>1, <3>2, <3>3
  <2> QED
    BY <2>2 DEF BranchAheadBy
<1>5. ASSUME Run, pc # "idle", next <= Len(msgs) PROVE BranchAheadBy'
  BY <1>1, <1>5, NextMsgAheadBy DEF Run, FailTx, EndTx
<1>6. CASE GetBobAddress
  BY <1>1, <1>2, <1>6 DEF GetBobAddress, FailTx, EndTx
<1>7. CASE MintTokens
  BY <1>5, <1>7 DEF MintTokens, IInv, Position
<1>8. CASE OtherMsg
  BY <1>5, <1>8 DEF OtherMsg
<1>9. CASE CommitTx
  BY <1>1, <1>9 DEF CommitTx, EndTx
<1>10. ASSUME NEW k \in KeyStr \cup {NoKey}, ChangeKeyring(k) PROVE BranchAheadBy'
  BY <1>3, <1>10 DEF ChangeKeyring
<1>11. CASE UNCHANGED vars
  BY <1>3, <1>11 DEF vars
<1>12. ASSUME NEW c \in OtherChange, OtherModules(c) PROVE BranchAheadBy'
  BY <1>1, <1>12 DEF OtherModules
<1> QED
  BY <1>4, <1>6, <1>7, <1>8, <1>9, <1>10, <1>11, <1>12 DEF Next

(* The sum of the property is the sum that the invariant is about.         *)
MintedInTx(d) == MapThenSumSet(LAMBDA i : msgs[i].amount, MintsOf(d))

SumMints(it, B) ==
  IF B = {} THEN 0 ELSE msgs[AnyOf(B)].amount + it[B \ {AnyOf(B)}]

IsMintSum(it, S) == it = [B \in SUBSET S |-> SumMints(it, B)]

LEMMA MintedInTxIsSum ==
  ASSUME msgs \in Tx, NEW d
  PROVE  MintedInTx(d) = Sum(Amounts, MintsOf(d))
<1> DEFINE S == MintsOf(d)
<1>1. /\ IsFiniteSet(S)
      /\ \A i \in S : Amounts[i] = msgs[i].amount /\ Amounts[i] \in Int
  BY MintSums
<1>2. MintedInTx(d) = (CHOOSE it : IsMintSum(it, S))[S]
  BY DEF MintedInTx, MapThenSumSet, MapThenFoldSet, IsMintSum, SumMints, AnyOf
<1> HIDE DEF S
<1>3. ASSUME NEW it, NEW B \in SUBSET S
      PROVE  SumMints(it, B) = SumUp(it, Amounts, B)
  <2>1. CASE B = {}
    BY <2>1 DEF SumMints, SumUp
  <2>2. CASE B # {}
    <3>1. AnyOf(B) \in S
      BY <2>2, AnyOfIn
    <3> QED
      BY <1>1, <2>2, <3>1 DEF SumMints, SumUp
  <2> QED
    BY <2>1, <2>2
<1>4. ASSUME NEW it PROVE IsMintSum(it, S) <=> IsSum(it, Amounts, S)
  <2>1. \A B \in SUBSET S : SumMints(it, B) = SumUp(it, Amounts, B)
    BY <1>3
  <2>2. [B \in SUBSET S |-> SumMints(it, B)] = [B \in SUBSET S |-> SumUp(it, Amounts, B)]
    BY ONLY <2>1
  <2>3. QED
    BY ONLY <2>2 DEF IsMintSum, IsSum
<1>5. PICK h : /\ IsSum(h, Amounts, S)
               /\ \A B \in SUBSET S : h[B] \in Int /\ Sum(Amounts, B) = h[B]
  <2>1. IsFiniteSet(S) /\ \A i \in S : Amounts[i] \in Int
    BY ONLY <1>1
  <2>2. QED
    BY ONLY <2>1, SumTable
<1> DEFINE it == CHOOSE it : IsMintSum(it, S)
<1>6. IsMintSum(it, S)
  <2>1. \E f : IsMintSum(f, S)
    BY <1>4, <1>5
  <2> QED
    BY <2>1
<1> HIDE DEF it
<1>7. it[S] = h[S]
  BY <1>1, <1>4, <1>5, <1>6, SumUnique
<1> QED
  BY <1>2, <1>5, <1>7 DEF it, S

(* A transaction that changes the committed supply adds the amounts of all *)
(* its MintTokens messages and nothing else, whichever handlers, reads of  *)
(* the keyring and failed transactions came before.                        *)
THEOREM MintsAllOrNone == Spec => AllMintsOrNone
<1> DEFINE Whole == \A d \in Denom :
             store'.supply[d] # store.supply[d] /\ others' = others =>
             store'.supply[d] - store.supply[d] =
               MapThenSumSet(LAMBDA i : msgs[i].amount, MintsOf(d))
           Both == IInv /\ BranchAheadBy
<1>1. Init => Both
  BY InitInv DEF Init, BranchAheadBy
<1>2. Both /\ [Next]_vars => Both'
  BY NextInv, NextAheadBy
<1>3. Both /\ [Next]_vars => [Whole]_vars
  <2>1. SUFFICES ASSUME IInv, BranchAheadBy, Next, NEW d \in Denom,
                        store'.supply[d] # store.supply[d], others' = others
                 PROVE  store'.supply[d] - store.supply[d] = MintedInTx(d)
    BY DEF MintedInTx
  <2>2. CommitTx
    <3>1. store'.supply # store.supply
      BY <2>1
    <3> QED
      BY <2>1, <3>1, SupplySteps
  <2>3. /\ store' = cache /\ pc # "idle" /\ next > Len(msgs)
        /\ msgs \in Tx /\ store \in State /\ next \in Nat
    BY <2>1, <2>2 DEF CommitTx, EndTx, IInv, Position, TypeOK
  <2>4. HandledMints(d) = MintsOf(d)
    <3>1. Len(msgs) \in Nat
      BY <2>3, TxType, KeeperAssumption
    <3> QED
      BY <2>3, <3>1 DEF HandledMints, MintsOf
  <2>5. cache.supply[d] = store.supply[d] + Sum(Amounts, MintsOf(d))
    BY <2>1, <2>3, <2>4 DEF BranchAheadBy
  <2>6. Sum(Amounts, MintsOf(d)) \in Int /\ store.supply[d] \in Int
    BY <2>3, MintSums DEF State
  <2>7. MintedInTx(d) = Sum(Amounts, MintsOf(d))
    BY <2>3, MintedInTxIsSum
  <2> QED
    BY <2>3, <2>5, <2>6, <2>7
<1> QED
  BY <1>1, <1>2, <1>3, PTL DEF Spec, AllMintsOrNone

-----------------------------------------------------------------------------
(* The keeper implements MintLedger: every step that commits a transaction *)
(* is a Transact, a change of the keyring an Appoint, a change by another  *)
(* module an OtherModules, and the others leave the ledger as it is.       *)
THEOREM KeeperImplementsLedger == Spec => KeepsLedger
<1>1. Init => Ledger!Init
  <2>1. SUFFICES ASSUME Init PROVE Ledger!Init
    OBVIOUS
  <2>2. /\ store.supply = [d \in Denom |-> SumBalances(GenesisBal, d)]
        /\ store.minted = [d \in Denom |-> 0]
        /\ store.bal = GenesisBal
    BY <2>1 DEF Init, InitGenesis, ParamsSet
  <2>3. GenesisBal[FeicoinModule] \in [Denom -> Nat]
    BY KeeperAssumption, ModuleAssumption
  <2> QED
    BY <2>1, <2>2, <2>3 DEF Init, Ledger!Init
<1>2. IInv /\ [Next]_vars => [Ledger!Next]_(Ledger!vars)
  <2>1. SUFFICES ASSUME IInv, [Next]_vars
                 PROVE  Ledger!Next \/ UNCHANGED Ledger!vars
    OBVIOUS
  <2>2. ASSUME NEW k \in KeyStr \cup {NoKey}, ChangeKeyring(k) PROVE Ledger!Appoint
    BY <2>2 DEF ChangeKeyring, Ledger!Appoint
  <2>3. CASE CommitTx
    <3>1. store' = cache /\ everBob' = everBob /\ others' = others
      BY <2>3 DEF CommitTx, EndTx
    <3>2. /\ store \in State /\ cache \in State
          /\ cache.supply \in [Denom -> Nat] /\ store.supply \in [Denom -> Nat]
          /\ cache.minted \in [Denom -> Nat] /\ store.minted \in [Denom -> Nat]
          /\ cache.bal[FeicoinModule] \in [Denom -> Nat]
      BY <2>1, ModuleAssumption DEF IInv, TypeOK, State
    <3>3. ASSUME NEW d \in Denom
          PROVE  /\ cache.supply[d] >= store.supply[d]
                 /\ cache.supply[d] > store.supply[d] =>
                      everBob # {} /\ cache.supply[d] <= MaxInt
                 /\ cache.minted[d] = store.minted[d] + (cache.supply[d] - store.supply[d])
                 /\ cache.bal[FeicoinModule][d] >= store.bal[FeicoinModule][d]
      <4>1. SumBalances(GenesisBal, d) \in Nat /\ others[d] \in Int
        BY <2>1, KeeperAssumption, NumberAssumption DEF IInv, TypeOK
      <4>2. /\ cache.supply[d] = SumBalances(GenesisBal, d) + cache.minted[d] + others[d]
            /\ store.supply[d] = SumBalances(GenesisBal, d) + store.minted[d] + others[d]
            /\ cache.supply[d] <= MaxInt
        BY <2>1 DEF IInv, Accounted
      <4>3. cache.supply[d] # store.supply[d] =>
              everBob # {} /\ cache.supply[d] > store.supply[d]
        BY <2>1 DEF IInv, Granted
      <4>4. cache.bal[FeicoinModule][d] >= store.bal[FeicoinModule][d]
        BY <2>1 DEF IInv, BranchAhead
      <4>5. /\ cache.supply[d] \in Nat /\ store.supply[d] \in Nat
            /\ cache.minted[d] \in Nat /\ store.minted[d] \in Nat
        BY <3>2
      <4>6. cache.supply[d] >= store.supply[d]
        BY <4>3, <4>5
      <4>7. cache.minted[d] = store.minted[d] + (cache.supply[d] - store.supply[d])
        BY <4>1, <4>2, <4>5
      <4>8. cache.supply[d] > store.supply[d] => everBob # {}
        BY <4>3, <4>5
      <4> QED
        BY <4>2, <4>4, <4>6, <4>7, <4>8
    <3>4. cache.minted =
            [d \in Denom |-> store.minted[d] + (cache.supply[d] - store.supply[d])]
      BY <3>2, <3>3
    <3>5. Ledger!Transact
      BY <3>1, <3>2, <3>3, <3>4 DEF Ledger!Transact
    <3> QED
      BY <3>5 DEF Ledger!Next
  <2>o. ASSUME NEW c \in OtherChange, OtherModules(c) PROVE Ledger!OtherModules
    <3>1. /\ store' \in State /\ others' \in [Denom -> Int] /\ everBob' = everBob
          /\ store \in State
      BY <2>1, <2>o, OthersStep DEF OtherModules, IInv, TypeOK
    <3>2. /\ store'.supply \in [Denom -> Nat] /\ store.supply \in [Denom -> Nat]
          /\ store'.minted \in [Denom -> Nat] /\ store.minted \in [Denom -> Nat]
          /\ store'.bal[FeicoinModule] \in [Denom -> Nat]
          /\ others \in [Denom -> Int]
      BY <2>1, <3>1, ModuleAssumption DEF State, IInv, TypeOK
    <3>3. \A d \in Denom :
            /\ store'.minted[d] = store.minted[d]
            /\ store'.supply[d] = store.supply[d] + (others'[d] - others[d])
            /\ store'.supply[d] \in 0..MaxInt
            /\ store'.bal[FeicoinModule][d] >= store.bal[FeicoinModule][d]
      BY <2>1, <2>o, OthersStep
    <3>4. store'.supply \in [Denom -> 0..MaxInt] /\ store'.minted = store.minted
      BY <3>2, <3>3
    <3>5. others' = [d \in Denom |-> others[d] + (store'.supply[d] - store.supply[d])]
      <4>1. ASSUME NEW d \in Denom
            PROVE  others'[d] = others[d] + (store'.supply[d] - store.supply[d])
        <5>1. /\ others[d] \in Int /\ others'[d] \in Int
              /\ store.supply[d] \in Int /\ store'.supply[d] \in Int
          BY <3>1, <3>2
        <5> QED
          BY <3>3, <5>1
      <4> QED
        BY <3>1, <4>1
    <3> QED
      BY <3>1, <3>2, <3>3, <3>4, <3>5 DEF Ledger!OtherModules
  <2>4. CASE UNCHANGED <<store, everBob, others>>
    BY <2>4 DEF Ledger!vars
  <2>5. \/ \E k \in KeyStr \cup {NoKey} : ChangeKeyring(k)
        \/ CommitTx
        \/ \E c \in OtherChange : OtherModules(c)
        \/ UNCHANGED <<store, everBob, others>>
    BY <2>1 DEF Next, vars, BeginTx, GetBobAddress, MintTokens, OtherMsg, Run,
                NextMsg, FailTx, EndTx
  <2> QED
    BY <2>2, <2>3, <2>4, <2>5, <2>o DEF Ledger!Next
<1> QED
  BY <1>1, <1>2, Invariance, PTL DEF Spec, Ledger!Spec, KeepsLedger
=============================================================================
