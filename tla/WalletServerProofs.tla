------------------------- MODULE WalletServerProofs -------------------------
(***************************************************************************)
(* Proofs about WalletServer, for any requests, accounts and balances: the *)
(* safety properties, and that it implements TxService; and about the two  *)
(* pages that are its clients, the loop of WithdrawAll and the transfer    *)
(* form of TransferPage.                                                   *)
(***************************************************************************)
EXTENDS TransferPage, WithdrawAll, FiniteSetTheorems, FunctionTheorems,
        WellFoundedInduction, TLAPS

-----------------------------------------------------------------------------
(* The inductive invariant.  MempoolInSequence is kept by Sign only        *)
(* because a request that signs is not in the mempool yet, and             *)
(* OnePerSequence by Deliver only because what is executed has a sequence  *)
(* that is used up; both need that a request broadcasts once.              *)

InMempool(r) == \E i \in 1..Len(mempool) : mempool[i] = r

(* Sign has let the request pass.                                          *)
Signable(r) ==
  /\ Sender(r) \in Account
  /\ Request[r].path \in TxPath
  /\ Request[r].to # Missing

(* What the answer and the process of a request say of each other.         *)
Stages ==
  \A r \in Req :
    /\ answer[r] \in {"unasked", "refused"} => proc[r] = "none"
    /\ proc[r] = "signed" => Signable(r)
    /\ answer[r] = "error" => proc[r] = "exit 1"
    /\ proc[r] = "started" /\ Request[r].path \in KeyPath => Request[r].to # Missing

(* A transaction the node has had comes from a process that has ended; if  *)
(* with an error, the reply was lost.                                      *)
Broadcasted ==
  \A r \in Req :
    fate[r] # "none" \/ InMempool(r) =>
      /\ Exited(r)
      /\ Signable(r)
      /\ proc[r] = "exit 1" => r \in cutOff

(* It is in the mempool once, or executed and its sequence used up.        *)
Once ==
  /\ \A i, j \in 1..Len(mempool) : mempool[i] = mempool[j] => i = j
  /\ \A r \in OnChain : ~InMempool(r) /\ signedSeq[r] < seq[Sender(r)]

WInv ==
  /\ TypeOK
  /\ Stages
  /\ Broadcasted
  /\ Once
  /\ MempoolInSequence
  /\ OnePerSequence

-----------------------------------------------------------------------------
(* The transactions of account a before position i of a mempool.           *)
Before(s, i, a) == {j \in 1..i - 1 : Sender(s[j]) = a}

(* When the head leaves, each later transaction of its sender has one less *)
(* before it, and those of the other accounts as many as they had.         *)
LEMMA BeforeTail ==
  ASSUME NEW s \in Seq(Req), s # << >>, NEW a, NEW i \in 1..Len(s) - 1
  PROVE  Cardinality(Before(s, i + 1, a)) =
           Cardinality(Before(Tail(s), i, a))
             + (IF Sender(Head(s)) = a THEN 1 ELSE 0)
<1> DEFINE T == Before(Tail(s), i, a)
           L == {j \in 2..i : Sender(s[j]) = a}
           f == [j \in T |-> j + 1]
<1>1. \A j \in 1..i - 1 : Tail(s)[j] = s[j + 1]
  OBVIOUS
<1>2. f \in Bijection(T, L)
  <2>1. f \in [T -> L]
    BY <1>1 DEF Before
  <2>2. \A j, k \in T : f[j] = f[k] => j = k
    BY DEF Before
  <2>3. \A k \in L : \E j \in T : f[j] = k
    <3>1. TAKE k \in L
    <3>2. k - 1 \in T /\ f[k - 1] = k
      BY <3>1, <1>1 DEF Before
    <3> QED BY <3>2
  <2> HIDE DEF T, L, f
  <2> QED BY <2>1, <2>2, <2>3, Fun_IsBij
<1>3. IsFiniteSet(T) /\ IsFiniteSet(L)
  <2>1. IsFiniteSet(1..i - 1) /\ IsFiniteSet(2..i)
    BY FS_Interval
  <2>2. T \subseteq 1..i - 1 /\ L \subseteq 2..i
    BY DEF Before
  <2> QED BY <2>1, <2>2, FS_Subset
<1>4. Cardinality(L) = Cardinality(T) /\ Cardinality(T) \in Nat
  BY <1>2, <1>3, FS_Bijection, FS_CardinalityType DEF ExistsBijection
<1>5. CASE Sender(Head(s)) = a
  <2>1. Before(s, i + 1, a) = L \cup {1} /\ 1 \notin L
    BY <1>5 DEF Before
  <2> QED BY <2>1, <1>3, <1>4, <1>5, FS_AddElement
<1>6. CASE Sender(Head(s)) # a
  <2>1. Before(s, i + 1, a) = L
    BY <1>6 DEF Before
  <2> HIDE DEF T, L
  <2>2. Cardinality(Before(s, i + 1, a)) = Cardinality(T)
    BY <2>1, <1>4
  <2> QED BY <2>2, <1>4, <1>6 DEF T
<1> QED BY <1>5, <1>6

-----------------------------------------------------------------------------
(* The invariant holds at the start.                                       *)
LEMMA InitWInv == Init => WInv
<1> SUFFICES ASSUME Init PROVE WInv
  OBVIOUS
<1> USE DEF Init
<1>1. \A i \in 1..Len(mempool) : FALSE
  OBVIOUS
<1>2. \A r \in Req : fate[r] = "none" /\ ~InMempool(r)
  BY <1>1 DEF InMempool
<1>3. TypeOK
  BY WalletAssumption DEF TypeOK
<1>4. Stages
  BY DEF Stages
<1>5. Broadcasted
  BY <1>2 DEF Broadcasted
<1>6. Once
  BY <1>1, <1>2 DEF Once, OnChain
<1>7. MempoolInSequence
  BY <1>1 DEF MempoolInSequence
<1>8. OnePerSequence
  BY <1>2 DEF OnePerSequence, OnChain
<1> QED
  BY <1>3, <1>4, <1>5, <1>6, <1>7, <1>8 DEF WInv

(* The steps of the server, and those of a command until it signs: what    *)
(* node and mempool have, nobody signs again.                              *)
LEMMA QuietStep ==
  ASSUME WInv, UNCHANGED node, TypeOK', Stages',
         \A r \in Req : fate[r] # "none" \/ InMempool(r) =>
           proc'[r] = proc[r] /\ signedSeq'[r] = signedSeq[r],
         cutOff' = cutOff
  PROVE  WInv'
<1>1. mempool' = mempool /\ seq' = seq /\ bal' = bal /\ fate' = fate
  BY DEF node
<1>2. mempool \in Seq(Req)
  BY DEF WInv, TypeOK
<1>3. \A i \in 1..Len(mempool) : mempool[i] \in Req /\ InMempool(mempool[i])
  BY <1>2 DEF InMempool
<1>4. Broadcasted'
  BY <1>1 DEF WInv, Broadcasted, InMempool, Exited, Signable, Sender
<1>5. Once'
  BY <1>1 DEF WInv, Once, OnChain, InMempool, Sender
<1>6. MempoolInSequence'
  BY <1>1, <1>3 DEF WInv, MempoolInSequence, Sender
<1>7. OnePerSequence'
  BY <1>1 DEF WInv, OnePerSequence, OnChain, Sender
<1> QED
  BY <1>4, <1>5, <1>6, <1>7 DEF WInv

LEMMA AppendFacts ==
  ASSUME NEW s \in Seq(Req), NEW r \in Req
  PROVE  /\ Append(s, r) \in Seq(Req)
         /\ Len(s) \in Nat /\ Len(Append(s, r)) = Len(s) + 1
         /\ Append(s, r)[Len(s) + 1] = r
         /\ \A i \in 1..Len(s) : Append(s, r)[i] = s[i]
OBVIOUS

(* A broadcast that CheckTx lets in takes the next sequence of its sender. *)
LEMMA BroadcastWInv ==
  ASSUME WInv, NEW r \in Req, Broadcast(r)
  PROVE  WInv'
<1> USE DEF WInv
<1>1. /\ proc[r] = "signed" /\ Signable(r)
      /\ fate[r] = "none" /\ ~InMempool(r)
  BY DEF Broadcast, Stages, Broadcasted, Exited
<1>2. /\ answer' = answer /\ signedSeq' = signedSeq /\ keyring' = keyring
      /\ seq' = seq /\ bal' = bal /\ fate' = fate
  BY DEF Broadcast
<1>3. /\ \/ proc' = [proc EXCEPT ![r] = "exit 0"] /\ cutOff' = cutOff
         \/ proc' = [proc EXCEPT ![r] = "exit 1"] /\ cutOff' = cutOff \cup {r}
      /\ proc \in [Req -> {"none", "started", "signed", "exit 0", "exit 1"}]
      /\ mempool \in Seq(Req)
  BY DEF Broadcast, Exit, TypeOK
<1>4. /\ Exited(r)' /\ (proc'[r] = "exit 1" => r \in cutOff')
      /\ \A s \in Req \ {r} : proc'[s] = proc[s]
      /\ cutOff \subseteq cutOff'
  BY <1>3 DEF Exited
<1>5. \/ mempool' = mempool
      \/ mempool' = Append(mempool, r) /\ CheckTx(r)
  BY DEF Broadcast
<1>a. mempool' = Append(mempool, r) =>
        /\ mempool' \in Seq(Req)
        /\ Len(mempool) \in Nat /\ Len(mempool') = Len(mempool) + 1
        /\ mempool'[Len(mempool) + 1] = r
        /\ \A i \in 1..Len(mempool) : mempool'[i] = mempool[i]
  <2> DEFINE t == Append(mempool, r)
  <2>1. mempool \in Seq(Req)
    BY <1>3
  <2>2. /\ t \in Seq(Req)
        /\ Len(mempool) \in Nat /\ Len(t) = Len(mempool) + 1
        /\ t[Len(mempool) + 1] = r
        /\ \A i \in 1..Len(mempool) : t[i] = mempool[i]
    BY <2>1, AppendFacts
  <2> HIDE DEF t
  <2>3. SUFFICES ASSUME mempool' = t
                 PROVE  /\ mempool' \in Seq(Req)
                        /\ Len(mempool) \in Nat /\ Len(mempool') = Len(mempool) + 1
                        /\ mempool'[Len(mempool) + 1] = r
                        /\ \A i \in 1..Len(mempool) : mempool'[i] = mempool[i]
    BY DEF t
  <2> QED
    BY <2>2, <2>3
<1>6. \A s \in Req : InMempool(s)' => InMempool(s) \/ s = r
  <2>1. CASE mempool' = mempool
    BY <2>1 DEF InMempool
  <2>2. CASE mempool' = Append(mempool, r)
    BY <1>a, <2>2 DEF InMempool
  <2> QED
    BY <1>5, <2>1, <2>2
<1>7. TypeOK'
  <2>1. proc' \in [Req -> {"none", "started", "signed", "exit 0", "exit 1"}]
    BY <1>3
  <2>2. cutOff' \subseteq Req
    BY <1>3 DEF TypeOK
  <2>3. mempool' \in Seq(Req)
    BY <1>3, <1>5, <1>a
  <2> QED
    BY <1>2, <2>1, <2>2, <2>3 DEF TypeOK
<1>8. Stages'
  <2>1. answer[r] \notin {"unasked", "refused", "error"}
    BY <1>1 DEF Stages
  <2>2. ASSUME NEW s \in Req
        PROVE  /\ answer[s] \in {"unasked", "refused"} => proc'[s] = "none"
               /\ proc'[s] = "signed" => Signable(s)
               /\ answer[s] = "error" => proc'[s] = "exit 1"
               /\ proc'[s] = "started" /\ Request[s].path \in KeyPath =>
                    Request[s].to # Missing
    BY <1>4, <2>1 DEF Stages, Exited
  <2> QED
    BY <1>2, <2>2 DEF Stages, Signable, Sender
<1>9. Broadcasted'
  BY <1>1, <1>2, <1>4, <1>6 DEF Broadcasted, Exited, Signable, Sender
<1>10. Once'
  <2>1. CASE mempool' = mempool
    BY <1>2, <2>1 DEF Once, OnChain, InMempool, Sender
  <2>2. CASE mempool' = Append(mempool, r)
    <3>1. /\ Len(mempool') = Len(mempool) + 1 /\ Len(mempool) \in Nat
          /\ mempool'[Len(mempool) + 1] = r
          /\ \A i \in 1..Len(mempool) : mempool'[i] = mempool[i]
      BY <1>a, <2>2
    <3>2. ASSUME NEW i \in 1..Len(mempool'), NEW j \in 1..Len(mempool'),
                 mempool'[i] = mempool'[j], i < j
          PROVE  FALSE
      <4>1. i \in 1..Len(mempool)
        BY <3>1, <3>2
      <4>2. CASE j \in 1..Len(mempool)
        BY <3>1, <3>2, <4>1, <4>2 DEF Once
      <4>3. CASE j = Len(mempool) + 1
        BY <1>1, <3>1, <3>2, <4>1, <4>3 DEF InMempool
      <4> QED
        BY <3>1, <4>2, <4>3
    <3>3. \A i, j \in 1..Len(mempool') : mempool'[i] = mempool'[j] => i = j
      BY <3>1, <3>2
    <3> QED
      BY <1>1, <1>2, <1>6, <3>3 DEF Once, OnChain, Sender
  <2> QED
    BY <1>5, <2>1, <2>2
<1>11. MempoolInSequence'
  <2>1. CASE mempool' = mempool
    BY <1>2, <2>1 DEF MempoolInSequence, Sender
  <2>2. CASE mempool' = Append(mempool, r) /\ CheckTx(r)
    <3> DEFINE N == Len(mempool)
    <3>2. /\ N \in Nat /\ Len(mempool') = N + 1 /\ mempool'[N + 1] = r
          /\ \A j \in 1..N : mempool'[j] = mempool[j]
      BY <1>a, <2>2
    <3>1. SUFFICES ASSUME NEW i \in 1..N + 1
                   PROVE  signedSeq[mempool'[i]] = seq[Sender(mempool'[i])]
                            + Cardinality(Before(mempool', i, Sender(mempool'[i])))
      BY <1>2, <3>2 DEF MempoolInSequence, Before, Sender
    <3> HIDE DEF N
    <3>3. \A a : Before(mempool', i, a) = Before(mempool, i, a)
      BY <3>2 DEF Before
    <3>4. CASE i \in 1..N
      BY <3>2, <3>3, <3>4 DEF MempoolInSequence, Before, N
    <3>5. CASE i = N + 1
      <4>1. mempool'[i] = r /\ Before(mempool, i, Sender(r)) = Pending(Sender(r))
        BY <3>2, <3>5 DEF Before, Pending, N
      <4> QED
        BY <2>2, <3>3, <4>1 DEF CheckTx
    <3> QED
      BY <3>2, <3>4, <3>5
  <2> QED
    BY <1>5, <2>1, <2>2
<1>12. OnePerSequence'
  BY <1>2 DEF OnePerSequence, OnChain, Sender
<1> QED
  BY <1>7, <1>8, <1>9, <1>10, <1>11, <1>12

(* Executing the head of the mempool uses up its sequence.                 *)
LEMMA DeliverWInv ==
  ASSUME WInv, Deliver
  PROVE  WInv'
<1> USE DEF WInv
<1> DEFINE r == Head(mempool)
           N == Len(mempool)
<1>1. /\ mempool \in Seq(Req) /\ mempool # << >>
      /\ mempool' = Tail(mempool)
      /\ seq' = [seq EXCEPT ![Sender(r)] = @ + 1]
      /\ answer' = answer /\ proc' = proc /\ signedSeq' = signedSeq
      /\ keyring' = keyring /\ cutOff' = cutOff
  BY DEF Deliver, TypeOK
<1>2. /\ N \in Nat \ {0} /\ r = mempool[1] /\ r \in Req
      /\ mempool' \in Seq(Req) /\ Len(mempool') = N - 1
      /\ \A i \in 1..N - 1 : mempool'[i] = mempool[i + 1]
  BY <1>1
<1> HIDE DEF r, N
<1>3. InMempool(r) /\ Signable(r) /\ Exited(r) /\ (proc[r] = "exit 1" => r \in cutOff)
  <2>1. InMempool(r)
    BY <1>2 DEF InMempool, N
  <2> QED
    BY <1>2, <2>1 DEF Broadcasted
<1>4. /\ fate[r] = "none"
      /\ fate' = [fate EXCEPT ![r] = "done"] \/ fate' = [fate EXCEPT ![r] = "failed"]
      /\ fate \in [Req -> {"none", "done", "failed"}]
  BY <1>2, <1>3 DEF Deliver, Once, OnChain, TypeOK, r
<1>5. /\ fate' \in [Req -> {"none", "done", "failed"}]
      /\ fate'[r] # "none"
      /\ \A s \in Req \ {r} : fate'[s] = fate[s]
  BY <1>2, <1>4
<1>6. /\ seq \in [Account -> Nat] /\ seq' \in [Account -> Nat]
      /\ signedSeq \in [Req -> Nat]
      /\ \A a \in Account :
           seq'[a] = seq[a] + (IF Sender(r) = a THEN 1 ELSE 0)
  <2>1. seq \in [Account -> Nat] /\ signedSeq \in [Req -> Nat]
    BY DEF TypeOK
  <2>2. Sender(r) \in Account
    BY <1>3 DEF Signable
  <2>3. seq' = [seq EXCEPT ![Sender(r)] = @ + 1]
    BY <1>1
  <2> QED
    BY <2>1, <2>2, <2>3
<1>7. signedSeq[r] = seq[Sender(r)]
  <2>1. 1 \in 1..N /\ Before(mempool, 1, Sender(r)) = {}
    BY <1>2 DEF Before
  <2>2. Sender(r) \in Account
    BY <1>3 DEF Signable
  <2>3. signedSeq[r] = seq[Sender(r)] + Cardinality(Before(mempool, 1, Sender(r)))
    BY <1>2, <2>1 DEF MempoolInSequence, Before, N
  <2>4. Cardinality(Before(mempool, 1, Sender(r))) = 0
    BY <2>1, FS_EmptySet
  <2> QED
    BY <1>6, <2>2, <2>3, <2>4
<1>8. \A s \in Req : InMempool(s)' => InMempool(s) /\ s # r
  <2>1. SUFFICES ASSUME NEW s \in Req, NEW i \in 1..N - 1, mempool[i + 1] = s
                 PROVE  InMempool(s) /\ s # r
    BY <1>2 DEF InMempool
  <2>2. i + 1 \in 1..N /\ 1 \in 1..N /\ i + 1 # 1
    BY <1>2
  <2> QED
    BY <1>2, <2>1, <2>2 DEF InMempool, Once, N
<1>9. bal' \in [Account -> Nat]
  <2>1. /\ Sender(r) \in Account /\ Request[r].path \in TxPath
        /\ Request[r].to \in Account /\ Request[r].amount \in Nat
        /\ bal \in [Account -> Nat]
    BY <1>2, <1>3, WalletAssumption DEF Signable, TypeOK
  <2>2. CASE bal' = bal
    BY <2>1, <2>2
  <2>3. CASE MaySucceed(r) /\ bal' = Effect(r, bal) /\ Request[r].path \in SendPath
    <3>1. bal[Sender(r)] >= Request[r].amount
      BY <2>3 DEF MaySucceed
    <3>2. bal' = [a \in Account |->
                    bal[a] + (IF a = Request[r].to THEN Request[r].amount ELSE 0)
                           - (IF a = Sender(r) THEN Request[r].amount ELSE 0)]
      BY <2>3 DEF Effect, SendPath
    <3> QED
      BY <2>1, <3>1, <3>2
  <2>4. CASE bal' = Effect(r, bal) /\ Request[r].path \notin SendPath
    <3>1. CASE Request[r].path = "/token/real-mint"
      <4>1. bal' = [bal EXCEPT ![Request[r].to] = @ + Request[r].amount]
        BY <2>4, <3>1 DEF Effect, SendPath
      <4> QED
        BY <2>1, <4>1
    <3>2. CASE Request[r].path # "/token/real-mint"
      <4>1. bal' = bal
        BY <2>4, <3>2 DEF Effect
      <4> QED
        BY <2>1, <4>1
    <3> QED
      BY <3>1, <3>2
  <2> QED
    BY <2>2, <2>3, <2>4 DEF Deliver, r
<1>10. TypeOK'
  BY <1>1, <1>2, <1>5, <1>6, <1>9 DEF TypeOK
<1>11. Stages'
  BY <1>1 DEF Stages, Signable, Sender
<1>12. Broadcasted'
  <2>1. ASSUME NEW s \in Req, fate'[s] # "none" \/ InMempool(s)'
        PROVE  Exited(s) /\ Signable(s) /\ (proc[s] = "exit 1" => s \in cutOff)
    BY <1>3, <1>5, <1>8, <2>1 DEF Broadcasted
  <2> QED
    BY <1>1, <2>1 DEF Broadcasted, Exited, Signable, Sender
<1>13. Once'
  <2>1. \A i, j \in 1..Len(mempool') : mempool'[i] = mempool'[j] => i = j
    <3>1. SUFFICES ASSUME NEW i \in 1..N - 1, NEW j \in 1..N - 1,
                          mempool[i + 1] = mempool[j + 1]
                   PROVE  i = j
      BY <1>2
    <3>2. i + 1 \in 1..N /\ j + 1 \in 1..N
      BY <1>2
    <3>3. i + 1 = j + 1
      BY <3>1, <3>2 DEF Once, N
    <3> QED
      BY <3>3
  <2>2. ASSUME NEW s \in Req, fate'[s] # "none"
        PROVE  ~InMempool(s)' /\ signedSeq[s] < seq'[Sender(s)]
    <3>1. CASE s = r
      <4>1. Sender(r) \in Account
        BY <1>3 DEF Signable
      <4>2. signedSeq[r] < seq'[Sender(r)]
        BY <1>6, <1>7, <4>1
      <4>3. ~InMempool(s)'
        BY <1>8, <3>1
      <4> QED
        BY <3>1, <4>2, <4>3
    <3>2. CASE s # r
      <4>1. s \in OnChain /\ Signable(s)
        BY <1>5, <2>2, <3>2 DEF OnChain, Broadcasted
      <4>2. ~InMempool(s) /\ signedSeq[s] < seq[Sender(s)]
        BY <4>1 DEF Once
      <4> QED
        BY <1>6, <1>8, <4>1, <4>2 DEF Signable
    <3> QED
      BY <3>1, <3>2
  <2> QED
    BY <1>1, <2>1, <2>2 DEF Once, OnChain, Sender
<1>14. MempoolInSequence'
  <2>1. SUFFICES ASSUME NEW i \in 1..N - 1
                 PROVE  LET s == mempool[i + 1]
                        IN  signedSeq[s] = seq'[Sender(s)]
                              + Cardinality(Before(Tail(mempool), i, Sender(s)))
    BY <1>1, <1>2 DEF MempoolInSequence, Before, Sender
  <2> DEFINE s == mempool[i + 1]
             c == Cardinality(Before(Tail(mempool), i, Sender(s)))
  <2>2. i + 1 \in 1..N /\ s \in Req /\ InMempool(s)
    BY <1>1, <1>2 DEF InMempool, N
  <2>3. signedSeq[s] = seq[Sender(s)] + Cardinality(Before(mempool, i + 1, Sender(s)))
    BY <2>2 DEF MempoolInSequence, Before, N
  <2>4. Cardinality(Before(mempool, i + 1, Sender(s)))
          = c + (IF Sender(r) = Sender(s) THEN 1 ELSE 0)
    BY <1>1, BeforeTail DEF r, N
  <2>5. c \in Nat
    <3>1. Before(Tail(mempool), i, Sender(s)) \subseteq 1..i - 1
      BY DEF Before
    <3>2. IsFiniteSet(1..i - 1)
      BY FS_Interval
    <3>3. IsFiniteSet(Before(Tail(mempool), i, Sender(s)))
      BY <3>1, <3>2, FS_Subset
    <3> QED
      BY <3>3, FS_CardinalityType
  <2>6. Sender(s) \in Account
    BY <2>2 DEF Broadcasted, Signable
  <2> HIDE DEF c, s
  <2>7. signedSeq[s] = seq'[Sender(s)] + c
    BY <1>6, <2>3, <2>4, <2>5, <2>6
  <2> QED
    BY <2>7 DEF c, s
<1>15. OnePerSequence'
  <2>1. SUFFICES ASSUME NEW s \in Req, NEW t \in Req,
                        fate'[s] # "none", fate'[t] # "none",
                        Sender(s) = Sender(t), signedSeq[s] = signedSeq[t]
                 PROVE  s = t
    BY <1>1 DEF OnePerSequence, OnChain, Sender
  <2>2. CASE s # r /\ t # r
    BY <1>5, <2>1, <2>2 DEF OnePerSequence, OnChain
  <2>3. ASSUME NEW u \in Req, u # r, fate'[u] # "none", Sender(u) = Sender(r)
        PROVE  signedSeq[u] # signedSeq[r]
    <3>1. u \in OnChain
      BY <1>5, <2>3 DEF OnChain
    <3>2. signedSeq[u] < seq[Sender(u)]
      BY <3>1 DEF Once
    <3>3. signedSeq[u] \in Nat /\ seq[Sender(r)] \in Nat
      BY <1>3, <1>6 DEF Signable
    <3> QED
      BY <1>7, <2>3, <3>2, <3>3
  <2> QED
    BY <2>1, <2>2, <2>3
<1> QED
  BY <1>10, <1>11, <1>12, <1>13, <1>14, <1>15

(* A restart of the node empties the mempool.                              *)
LEMMA RestartWInv ==
  ASSUME WInv, RestartNode
  PROVE  WInv'
<1> USE DEF WInv
<1>1. /\ mempool' = << >>
      /\ UNCHANGED <<answer, proc, signedSeq, keyring, seq, bal, fate, cutOff>>
  BY DEF RestartNode
<1>2. \A i \in 1..Len(mempool') : FALSE
  BY <1>1
<1>3. TypeOK' /\ Stages'
  <2>1. mempool' \in Seq(Req)
    BY <1>1
  <2>2. TypeOK'
    BY <1>1, <2>1 DEF TypeOK
  <2>3. Stages'
    BY <1>1 DEF Stages, Signable, Sender
  <2> QED
    BY <2>2, <2>3
<1>4. \A r \in Req : ~InMempool(r)'
  BY <1>2 DEF InMempool
<1>5. Broadcasted'
  BY <1>1, <1>4 DEF Broadcasted, Exited, Signable, Sender
<1>6. Once'
  BY <1>1, <1>2, <1>4 DEF Once, OnChain, Sender
<1>7. MempoolInSequence'
  BY <1>2 DEF MempoolInSequence
<1>8. OnePerSequence'
  BY <1>1 DEF OnePerSequence, OnChain, Sender
<1> QED
  BY <1>3, <1>5, <1>6, <1>7, <1>8

LEMMA NextWInv == WInv /\ [Next]_vars => WInv'
<1> SUFFICES ASSUME WInv, [Next]_vars PROVE WInv'
  OBVIOUS
<1> USE DEF WInv
<1>1. ASSUME NEW r \in Req, Receive(r) PROVE WInv'
  <2>1. /\ UNCHANGED node /\ signedSeq' = signedSeq /\ keyring' = keyring /\ cutOff' = cutOff
        /\ answer[r] = "unasked"
        /\ \/ answer' = [answer EXCEPT ![r] = "refused"] /\ proc' = proc
           \/ /\ answer' = [answer EXCEPT ![r] = "waiting"]
              /\ proc' = [proc EXCEPT ![r] = "started"]
              /\ Request[r].path \in KeyPath => Request[r].to # Missing
    BY <1>1 DEF Receive, Refused
  <2>2. proc[r] = "none"
    BY <2>1 DEF Stages
  <2>3. TypeOK'
    BY <2>1 DEF TypeOK, node
  <2>4. Stages'
    BY <2>1, <2>2 DEF Stages, TypeOK, Signable, Sender
  <2>5. \A s \in Req : fate[s] # "none" \/ InMempool(s) => s # r
    BY <2>2 DEF Broadcasted, Exited
  <2>6. \A s \in Req : s # r => proc'[s] = proc[s]
    BY <2>1 DEF TypeOK
  <2> QED
    BY <2>1, <2>3, <2>4, <2>5, <2>6, QuietStep
<1>2. ASSUME NEW r \in Req, AnswerRequest(r) PROVE WInv'
  <2>1. /\ UNCHANGED <<proc, signedSeq, keyring, node, cutOff>>
        /\ answer[r] = "waiting" /\ answer' = [answer EXCEPT ![r] = AnswerOf(r)]
        /\ Exited(r)
    BY <1>2 DEF AnswerRequest, Answered
  <2>2. AnswerOf(r) \in {"ok", "error"} /\ (AnswerOf(r) = "error" => proc[r] = "exit 1")
    BY <2>1 DEF AnswerOf, Exited
  <2>3. TypeOK'
    BY <2>1, <2>2 DEF TypeOK, node
  <2>4. Stages'
    BY <2>1, <2>2 DEF Stages, TypeOK, Signable, Sender
  <2> QED
    BY <2>1, <2>3, <2>4, QuietStep
<1>3. CASE RestartServer
  <2>1. /\ UNCHANGED <<proc, signedSeq, keyring, node, cutOff>>
        /\ answer' = [s \in Req |-> IF answer[s] = "waiting" THEN "lost" ELSE answer[s]]
    BY <1>3 DEF RestartServer
  <2>2. TypeOK'
    BY <2>1 DEF TypeOK, node
  <2>3. Stages'
    BY <2>1 DEF Stages, Signable, Sender
  <2> QED
    BY <2>1, <2>2, <2>3, QuietStep
<1>4. ASSUME NEW r \in Req, NEW status \in {"signed", "exit 0", "exit 1"},
             proc[r] = "started" \/ proc[r] = "signed", Exit(r, status),
             UNCHANGED <<answer, node, cutOff>>,
             status = "signed" => Signable(r),
             keyring' \subseteq Account,
             signedSeq' = signedSeq \/ \E q \in Nat : signedSeq' = [signedSeq EXCEPT ![r] = q]
      PROVE  WInv'
  <2>1. proc' = [proc EXCEPT ![r] = status]
    BY <1>4 DEF Exit
  <2>2. signedSeq' \in [Req -> Nat] /\ \A s \in Req : s # r => signedSeq'[s] = signedSeq[s]
    BY <1>4 DEF TypeOK
  <2>3. TypeOK'
    BY <1>4, <2>1, <2>2 DEF TypeOK, node
  <2>4. answer[r] \notin {"unasked", "refused", "error"}
    BY <1>4 DEF Stages
  <2>5. Stages'
    BY <1>4, <2>1, <2>4 DEF Stages, TypeOK, Signable, Sender
  <2>6. \A s \in Req : fate[s] # "none" \/ InMempool(s) => s # r
    BY <1>4 DEF Broadcasted, Exited
  <2>7. \A s \in Req : s # r => proc'[s] = proc[s]
    BY <2>1 DEF TypeOK
  <2> QED
    BY <1>4, <2>2, <2>3, <2>5, <2>6, <2>7, QuietStep
<1>5. ASSUME NEW r \in Req, AddKey(r) PROVE WInv'
  <2>1. Request[r].to \in Account
    <3>1. answer[r] \notin {"unasked", "refused"} /\ proc[r] = "started"
      BY <1>5 DEF AddKey, Stages
    <3> QED
      BY <1>5, <3>1, WalletAssumption DEF AddKey, Stages
  <2>2. /\ proc[r] = "started"
        /\ Exit(r, "exit 0") \/ Exit(r, "exit 1")
        /\ UNCHANGED <<answer, node, cutOff>> /\ signedSeq' = signedSeq
        /\ keyring' = keyring \/ keyring' = keyring \cup {Request[r].to}
    BY <1>5 DEF AddKey
  <2>3. keyring' \subseteq Account
    BY <2>1, <2>2 DEF TypeOK
  <2>4. CASE Exit(r, "exit 0")
    BY <1>4, <2>2, <2>3, <2>4
  <2>5. CASE Exit(r, "exit 1")
    BY <1>4, <2>2, <2>3, <2>5
  <2> QED
    BY <2>2, <2>4, <2>5
<1>6. ASSUME NEW r \in Req, Sign(r) PROVE WInv'
  <2>1. Sender(r) \in Account
    BY <1>6 DEF Sign, TypeOK
  <2>2. Signable(r) /\ seq[Sender(r)] \in Nat
    BY <1>6, <2>1 DEF Sign, Signable, TypeOK
  <2>3. /\ proc[r] = "started" /\ Exit(r, "signed")
        /\ UNCHANGED <<answer, node, cutOff>> /\ keyring' = keyring
        /\ signedSeq' = [signedSeq EXCEPT ![r] = seq[Sender(r)]]
    BY <1>6 DEF Sign
  <2>4. keyring' \subseteq Account
    BY <2>3 DEF TypeOK
  <2> QED
    BY <1>4, <2>2, <2>3, <2>4
<1>7. ASSUME NEW r \in Req, CommandFails(r) PROVE WInv'
  <2>1. /\ proc[r] = "started" \/ proc[r] = "signed"
        /\ Exit(r, "exit 1")
        /\ UNCHANGED <<answer, node, cutOff>> /\ keyring' = keyring /\ signedSeq' = signedSeq
    BY <1>7 DEF CommandFails
  <2>2. keyring' \subseteq Account
    BY <2>1 DEF TypeOK
  <2> QED
    BY <1>4, <2>1, <2>2
<1>8. ASSUME NEW r \in Req, Broadcast(r) PROVE WInv'
  BY <1>8, BroadcastWInv
<1>9. CASE Deliver
  BY <1>9, DeliverWInv
<1>10. CASE RestartNode
  BY <1>10, RestartWInv
<1>11. CASE UNCHANGED vars
  <2>1. UNCHANGED <<answer, proc, signedSeq, keyring, node, cutOff>>
    BY <1>11 DEF vars, node
  <2>2. TypeOK' /\ Stages'
    BY <2>1 DEF TypeOK, Stages, Signable, Sender, node
  <2> QED
    BY <2>1, <2>2, QuietStep
<1> QED
  BY <1>1, <1>2, <1>3, <1>5, <1>6, <1>7, <1>8, <1>9, <1>10, <1>11 DEF Next

LEMMA WInvariance == Spec => []WInv
BY InitWInv, NextWInv, PTL DEF Spec

-----------------------------------------------------------------------------
(* Balances stay non-negative, and every variable keeps its type, whatever *)
(* the requests are.                                                       *)
THEOREM WalletTypeCorrect == Spec => []TypeOK
<1>1. WInv => TypeOK
  BY DEF WInv
<1> QED
  BY <1>1, WInvariance, PTL

(* The transactions of an account in the mempool have consecutive          *)
(* sequences from the committed one on.                                    *)
THEOREM MempoolStaysInSequence == Spec => []MempoolInSequence
<1>1. WInv => MempoolInSequence
  BY DEF WInv
<1> QED
  BY <1>1, WInvariance, PTL

(* Of the requests that signed with one sequence of an account, one is     *)
(* executed at most.                                                       *)
THEOREM OneExecutionPerSequence == Spec => []OnePerSequence
<1>1. WInv => OnePerSequence
  BY DEF WInv
<1> QED
  BY <1>1, WInvariance, PTL

(* A request that was told of an error is never executed, unless its       *)
(* broadcast lost the reply.                                               *)
THEOREM ErrorsStayTrue == Spec => []ErrorsAreTrue
<1>1. WInv => ErrorsAreTrue
  BY DEF WInv, Stages, Broadcasted, InMempool, ErrorsAreTrue
<1> QED
  BY <1>1, WInvariance, PTL

(* Server, commands, mempool and blocks implement the abstract service: a  *)
(* request that was not refused is executed at most once, as a whole.      *)
THEOREM WalletImplementsService == Spec => KeepsService
<1>1. Init => Service!Init
  BY DEF Init, Service!Init
<1>2. WInv /\ [Next]_vars => [Service!Next]_(Service!vars)
  <2> SUFFICES ASSUME WInv, [Next]_vars PROVE Service!Next \/ UNCHANGED Service!vars
    OBVIOUS
  <2>1. ASSUME NEW r \in Req, Receive(r) PROVE Service!Ask(r) \/ Service!Refuse(r)
    BY <2>1 DEF Receive, Service!Ask, Service!Refuse, node
  <2>2. ASSUME NEW r \in Req, AnswerRequest(r) PROVE Service!Answer(r)
    <3>1. AnswerOf(r) \in {"ok", "error"}
      BY DEF AnswerOf
    <3>2. /\ answer[r] = "waiting" /\ answer' = [answer EXCEPT ![r] = AnswerOf(r)]
          /\ fate' = fate /\ bal' = bal
      BY <2>2 DEF AnswerRequest, node
    <3> QED
      BY <3>1, <3>2 DEF Service!Answer
  <2>3. ASSUME RestartServer PROVE Service!Disconnect
    BY <2>3 DEF RestartServer, Service!Disconnect, node
  <2>4. ASSUME Deliver PROVE Service!Execute(Head(mempool)) /\ Head(mempool) \in Req
    <3> DEFINE r == Head(mempool)
    <3>1. mempool \in Seq(Req) /\ mempool # << >>
      BY <2>4 DEF Deliver, WInv, TypeOK
    <3>2. r \in Req /\ InMempool(r)
      BY <3>1 DEF InMempool
    <3> HIDE DEF r
    <3>3. fate[r] = "none" /\ answer[r] \notin {"unasked", "refused"}
      BY <3>2 DEF WInv, Once, OnChain, Broadcasted, Stages, Exited
    <3>4. /\ answer' = answer
          /\ \/ fate' = [fate EXCEPT ![r] = "done"] /\ bal' = Effect(r, bal)
             \/ fate' = [fate EXCEPT ![r] = "failed"] /\ bal' = bal
      BY <2>4 DEF Deliver, r
    <3> QED
      BY <3>2, <3>3, <3>4 DEF Service!Execute, r
  <2>5. ASSUME NEW r \in Req, AddKey(r) \/ Sign(r) \/ CommandFails(r) \/ Broadcast(r)
        PROVE  UNCHANGED Service!vars
    BY <2>5 DEF AddKey, Sign, CommandFails, Broadcast, Service!vars, node
  <2>6. CASE RestartNode
    BY <2>6 DEF RestartNode, Service!vars
  <2>7. CASE UNCHANGED vars
    BY <2>7 DEF vars, Service!vars
  <2> QED
    BY <2>1, <2>2, <2>3, <2>4, <2>5, <2>6, <2>7 DEF Next, Service!Next
<1> QED
  BY <1>1, <1>2, WInvariance, PTL DEF Spec, KeepsService, Service!Spec

-----------------------------------------------------------------------------
(* The loop that withdraws rewards.  What it miscounts is explained when   *)
(* the node rejects the broadcast, so the invariant says it of every       *)
(* transaction command that has exited well; that a rejected sequence has  *)
(* been taken by another request needs that no sequence below the          *)
(* committed one was skipped.                                              *)

InList ==
  /\ turn \in Nat \ {0}
  /\ stage = "idle" => turn = 1
  /\ stage \in {"post", "pause"} => turn <= Len(Rewards)

OkExited == \A r \in Req : answer[r] = "ok" => proc[r] = "exit 0"

CountedOk == \A r \in counted : r \in Req /\ answer[r] = "ok" /\ Request[r].path \in TxPath

SignedLow == \A r \in Req : proc[r] = "signed" => signedSeq[r] <= seq[Sender(r)]

NoneSkipped ==
  \A a \in Account, k \in Nat :
    k < seq[a] => \E s \in OnChain : Sender(s) = a /\ signedSeq[s] = k

HasForgotten == forgot

ExitsExplained ==
  \A r \in Req : proc[r] = "exit 0" /\ Request[r].path \in TxPath =>
    Accepted(r) \/ HasForgotten \/ TakenByOther(r)

NodeInv == OkExited /\ SignedLow /\ NoneSkipped /\ ExitsExplained

BatchInv == WInv /\ InList /\ CountedOk /\ NodeInv

(* A set of natural numbers that is not empty has a least one.             *)
LEMMA LeastNumber ==
  ASSUME NEW S \in SUBSET Nat, S # {}
  PROVE  \E m \in S : \A n \in S : m <= n
<1>1. \E m \in S : \A n \in S : ~(<<n, m>> \in OpToRel(<, Nat))
  BY NatLessThanWellFounded, WFMin
<1>2. \E m \in S : \A n \in S : ~(<<n, m>> \in {ss \in Nat \X Nat : ss[1] < ss[2]})
  BY <1>1 DEF OpToRel
<1> HIDE <1>1
<1>3. PICK m \in S : \A n \in S : ~(<<n, m>> \in {ss \in Nat \X Nat : ss[1] < ss[2]})
  BY <1>2
<1> HIDE <1>2
<1>4. m \in S /\ S \subseteq Nat
  OBVIOUS
<1>5. ASSUME NEW n \in S PROVE m <= n
  <2>1. ~(<<n, m>> \in {ss \in Nat \X Nat : ss[1] < ss[2]}) /\ n \in Nat /\ m \in Nat
    BY <1>3, <1>4
  <2> QED
    BY ONLY <2>1
<1> QED
  BY <1>4, <1>5

(* The first transaction of an account in the mempool has its committed    *)
(* sequence.                                                               *)
LEMMA FirstPending ==
  ASSUME WInv, NEW a \in Account, Pending(a) # {}
  PROVE  \E s \in Req : InMempool(s) /\ Sender(s) = a /\ signedSeq[s] = seq[a]
<1>1. Pending(a) \in SUBSET Nat
  BY DEF Pending
<1>2. PICK i \in Pending(a) : \A j \in Pending(a) : i <= j
  BY <1>1, LeastNumber
<1>3. i \in 1..Len(mempool) /\ Sender(mempool[i]) = a /\ mempool \in Seq(Req)
  BY <1>2 DEF Pending, WInv, TypeOK
<1>4. {j \in 1..i - 1 : Sender(mempool[j]) = a} = {}
  <2>1. ASSUME NEW j \in 1..i - 1, Sender(mempool[j]) = a PROVE FALSE
    <3>1. Len(mempool) \in Nat /\ i \in Nat /\ j \in 1..Len(mempool) /\ ~(i <= j)
      BY <1>3
    <3>2. j \in Pending(a)
      BY <2>1, <3>1 DEF Pending
    <3> QED
      BY <1>2, <3>1, <3>2
  <2> QED
    BY <2>1
<1> DEFINE before == {j \in 1..i - 1 : Sender(mempool[j]) = a}
<1>5. signedSeq[mempool[i]] = seq[a] + Cardinality(before)
  BY <1>3 DEF WInv, MempoolInSequence
<1>7. before = {}
  BY <1>4
<1> HIDE DEF before
<1>8. Cardinality(before) = 0
  BY <1>7, FS_EmptySet
<1>6. mempool[i] \in Req /\ InMempool(mempool[i])
  BY <1>3 DEF InMempool
<1>9. seq[a] \in Nat
  BY DEF WInv, TypeOK
<1> QED
  BY <1>3, <1>5, <1>6, <1>8, <1>9

(* A sequence up to the committed one that CheckTx rejects has been taken. *)
LEMMA RejectedIsTaken ==
  ASSUME WInv, NodeInv, NEW r \in Req, proc[r] = "signed", ~CheckTx(r)
  PROVE  TakenByOther(r)
<1> DEFINE a == Sender(r)
<1>1. a \in Account /\ seq[a] \in Nat /\ signedSeq[r] \in Nat /\ signedSeq[r] <= seq[a]
  BY DEF WInv, TypeOK, Stages, Signable, NodeInv, SignedLow
<1>2. ASSUME NEW s \in Req, fate[s] # "none" \/ InMempool(s),
             Sender(s) = a, signedSeq[s] = signedSeq[r]
      PROVE  TakenByOther(r)
  <2>1. Exited(s)
    BY <1>2 DEF WInv, Broadcasted
  <2>2. s # r
    BY <2>1 DEF Exited
  <2>3. Accepted(s)
    BY <1>2 DEF Accepted, InMempool
  <2> QED
    BY <1>2, <2>2, <2>3 DEF TakenByOther
<1>3. CASE signedSeq[r] < seq[a]
  BY <1>1, <1>2, <1>3 DEF NodeInv, NoneSkipped, OnChain
<1>4. CASE signedSeq[r] = seq[a]
  <2>1. Pending(a) # {}
    <3>1. Pending(a) = {} => Cardinality(Pending(a)) = 0
      BY FS_EmptySet
    <3> QED
      BY <1>1, <1>4, <3>1 DEF CheckTx
  <2>2. PICK s \in Req : InMempool(s) /\ Sender(s) = a /\ signedSeq[s] = seq[a]
    BY <1>1, <2>1, FirstPending
  <2> QED
    BY <1>2, <1>4, <2>2
<1> QED
  BY <1>1, <1>3, <1>4

(* A step keeps what is known of executed transactions, unless it executes *)
(* one.                                                                    *)
LEMMA SameChain ==
  ASSUME NoneSkipped, UNCHANGED <<seq, fate>>,
         \A r \in OnChain : signedSeq'[r] = signedSeq[r]
  PROVE  NoneSkipped'
<1>1. OnChain' = OnChain
  BY DEF OnChain
<1>2. ASSUME NEW a \in Account, NEW k \in Nat, k < seq'[a]
      PROVE  \E s \in OnChain' : Sender(s) = a /\ signedSeq'[s] = k
  <2>1. k < seq[a]
    BY <1>2
  <2>2. PICK s \in OnChain : Sender(s) = a /\ signedSeq[s] = k
    BY <2>1 DEF NoneSkipped
  <2> QED
    BY <1>1, <2>2
<1> QED
  BY <1>2 DEF NoneSkipped, Sender

(* Steps before a broadcast, and answers: what has exited stays.           *)
Quiet(r) ==
  /\ Exited(r) => proc'[r] = proc[r] /\ signedSeq'[r] = signedSeq[r]
  /\ proc'[r] = "signed" =>
       \/ proc[r] = "signed" /\ signedSeq'[r] = signedSeq[r]
       \/ signedSeq'[r] = seq[Sender(r)] /\ seq[Sender(r)] \in Nat
  /\ proc'[r] = "exit 0" /\ Request[r].path \in TxPath => proc[r] = "exit 0"
  /\ answer'[r] = "ok" => proc'[r] = "exit 0"

LEMMA QuietNodeInv ==
  ASSUME WInv, NodeInv, UNCHANGED node, HasForgotten => HasForgotten',
         \A r \in Req : Quiet(r)
  PROVE  NodeInv'
<1>1. mempool' = mempool /\ seq' = seq /\ fate' = fate
  BY DEF node
<1>2. OkExited'
  BY DEF OkExited, Quiet
<1>3. SignedLow'
  <2>1. ASSUME NEW r \in Req, proc'[r] = "signed"
        PROVE  signedSeq'[r] <= seq'[Sender(r)]
    <3>1. Quiet(r) /\ (proc[r] = "signed" => signedSeq[r] <= seq[Sender(r)])
      BY DEF NodeInv, SignedLow
    <3>2. \/ proc[r] = "signed" /\ signedSeq'[r] = signedSeq[r]
          \/ signedSeq'[r] = seq[Sender(r)] /\ seq[Sender(r)] \in Nat
      BY <2>1, <3>1 DEF Quiet
    <3>3. signedSeq'[r] <= seq[Sender(r)]
      BY ONLY <3>1, <3>2
    <3> QED
      BY <1>1, <3>3
  <2> QED
    BY <2>1 DEF SignedLow, Sender
<1>4. NoneSkipped'
  <2>1. \A r \in OnChain : signedSeq'[r] = signedSeq[r]
    BY DEF WInv, Broadcasted, OnChain, Quiet
  <2> QED
    BY <1>1, <2>1, SameChain DEF NodeInv
<1>5. ASSUME NEW r \in Req, proc'[r] = "exit 0", Request[r].path \in TxPath
      PROVE  Accepted(r)' \/ HasForgotten' \/ TakenByOther(r)'
  <2>1. proc[r] = "exit 0" /\ signedSeq'[r] = signedSeq[r]
    BY <1>5 DEF Exited, Quiet
  <2>2. \A s \in Req : Accepted(s)' = Accepted(s)
    BY <1>1 DEF Accepted
  <2>3. ASSUME TakenByOther(r) PROVE TakenByOther(r)'
    <3>1. PICK s \in Req \ {r} :
            Accepted(s) /\ Sender(s) = Sender(r) /\ signedSeq[s] = signedSeq[r]
      BY <2>3 DEF TakenByOther
    <3>2. signedSeq'[s] = signedSeq[s]
      BY <3>1 DEF Quiet, WInv, Broadcasted, Accepted, InMempool
    <3>3. Accepted(s)'
      BY <2>2, <3>1
    <3> QED
      BY <2>1, <3>1, <3>2, <3>3 DEF TakenByOther, Sender
  <2> QED
    BY <1>5, <2>1, <2>2, <2>3 DEF NodeInv, ExitsExplained
<1>6. ExitsExplained'
  BY <1>5 DEF ExitsExplained
<1> QED
  BY <1>2, <1>3, <1>4, <1>6 DEF NodeInv

LEMMA BroadcastNodeInv ==
  ASSUME WInv, NodeInv, NEW r \in Req, Broadcast(r), HasForgotten => HasForgotten'
  PROVE  NodeInv'
<1>1. /\ UNCHANGED <<answer, signedSeq, seq, fate>> /\ proc[r] = "signed"
      /\ mempool' = IF CheckTx(r) THEN Append(mempool, r) ELSE mempool
      /\ Exit(r, "exit 0") \/ Exit(r, "exit 1")
      /\ mempool \in Seq(Req)
  BY DEF Broadcast, WInv, TypeOK
<1>2. /\ \A s \in Req \ {r} : proc'[s] = proc[s]
      /\ Exited(r)'
  BY <1>1 DEF Exit, Exited, WInv, TypeOK
<1>3. answer[r] # "ok"
  BY <1>1 DEF NodeInv, OkExited
<1>4. OkExited' /\ SignedLow'
  <2>1. ASSUME NEW s \in Req, proc'[s] = "signed"
        PROVE  signedSeq'[s] <= seq'[Sender(s)]
    <3>1. s # r
      BY <1>2, <2>1 DEF Exited
    <3> QED
      BY <1>1, <1>2, <2>1, <3>1 DEF NodeInv, SignedLow
  <2>2. SignedLow'
    BY <2>1 DEF SignedLow, Sender
  <2>3. OkExited'
    BY <1>1, <1>2, <1>3 DEF NodeInv, OkExited
  <2> QED
    BY <2>2, <2>3
<1>5. NoneSkipped'
  BY <1>1, SameChain DEF NodeInv
<1>9. mempool' = Append(mempool, r) =>
        /\ Len(mempool) + 1 \in 1..Len(mempool') /\ mempool'[Len(mempool) + 1] = r
        /\ \A i \in 1..Len(mempool) : i \in 1..Len(mempool') /\ mempool'[i] = mempool[i]
  <2> DEFINE t == Append(mempool, r)
  <2>1. /\ Len(mempool) \in Nat /\ Len(t) = Len(mempool) + 1
        /\ t[Len(mempool) + 1] = r
        /\ \A i \in 1..Len(mempool) : t[i] = mempool[i]
    BY <1>1, AppendFacts
  <2> HIDE DEF t
  <2>2. ASSUME mempool' = t
        PROVE  /\ Len(mempool) + 1 \in 1..Len(mempool') /\ mempool'[Len(mempool) + 1] = r
               /\ \A i \in 1..Len(mempool) : i \in 1..Len(mempool') /\ mempool'[i] = mempool[i]
    BY <2>1, <2>2
  <2> QED
    BY <2>2 DEF t
<1>6. \A s \in Req : InMempool(s) => InMempool(s)'
  <2>1. CASE mempool' = mempool
    BY <2>1 DEF InMempool
  <2>2. CASE mempool' = Append(mempool, r)
    BY <1>9, <2>2 DEF InMempool
  <2> QED
    BY <1>1, <2>1, <2>2
<1>7. ASSUME NEW s \in Req, proc'[s] = "exit 0", Request[s].path \in TxPath
      PROVE  Accepted(s)' \/ HasForgotten' \/ TakenByOther(s)'
  <2>1. CASE s = r /\ CheckTx(r)
    <3>1. mempool' = Append(mempool, r)
      BY <1>1, <2>1
    <3>2. InMempool(r)'
      BY <3>1, <1>9 DEF InMempool
    <3> QED
      BY <2>1, <3>2 DEF InMempool, Accepted
  <2>2. TakenByOther(s) => TakenByOther(s)'
    <3>1. \A t \in Req : Accepted(t) => Accepted(t)'
      BY <1>1, <1>6 DEF Accepted, InMempool
    <3> QED
      BY <1>1, <3>1 DEF TakenByOther, Sender
  <2>3. CASE s = r /\ ~CheckTx(r)
    BY <2>2, <2>3, <1>1, RejectedIsTaken
  <2>4. CASE s # r
    <3>1. Accepted(s) \/ HasForgotten \/ TakenByOther(s)
      BY <1>2, <1>7, <2>4 DEF NodeInv, ExitsExplained
    <3>2. Accepted(s) => Accepted(s)'
      BY <1>1, <1>6 DEF Accepted, InMempool
    <3> QED
      BY <2>2, <3>1, <3>2
  <2> QED
    BY <2>1, <2>3, <2>4
<1>8. ExitsExplained'
  BY <1>7 DEF ExitsExplained
<1> QED
  BY <1>4, <1>5, <1>8 DEF NodeInv

(* What is executed has the committed sequence, which is then used.        *)
LEMMA DeliverNodeInv ==
  ASSUME WInv, NodeInv, Deliver, HasForgotten => HasForgotten'
  PROVE  NodeInv'
<1> DEFINE r == Head(mempool)
<1>1. /\ mempool \in Seq(Req) /\ mempool # << >>
      /\ mempool' = Tail(mempool)
      /\ seq' = [seq EXCEPT ![Sender(r)] = @ + 1]
      /\ UNCHANGED <<answer, proc, signedSeq>>
      /\ fate' = [fate EXCEPT ![r] = "done"] \/ fate' = [fate EXCEPT ![r] = "failed"]
  BY DEF Deliver, WInv, TypeOK
<1>2. /\ 1 \in 1..Len(mempool) /\ r = mempool[1] /\ r \in Req
      /\ \A i \in 2..Len(mempool) : i - 1 \in 1..Len(mempool') /\ mempool'[i - 1] = mempool[i]
  BY <1>1
<1> HIDE DEF r
<1>3. InMempool(r) /\ Sender(r) \in Account /\ fate \in [Req -> {"none", "done", "failed"}]
  BY <1>2 DEF InMempool, WInv, TypeOK, Broadcasted, Signable
<1>4. seq \in [Account -> Nat] /\ signedSeq \in [Req -> Nat]
  BY DEF WInv, TypeOK
<1>5. signedSeq[r] = seq[Sender(r)]
  <2>1. {j \in 1..1 - 1 : Sender(mempool[j]) = Sender(r)} = {}
    OBVIOUS
  <2>2. signedSeq[r] = seq[Sender(r)] + 0
    BY <1>2, <2>1, FS_EmptySet DEF WInv, MempoolInSequence
  <2> QED
    BY <1>3, <1>4, <2>2
<1>6. /\ fate'[r] # "none" /\ \A s \in Req \ {r} : fate'[s] = fate[s]
      /\ OnChain \subseteq OnChain' /\ r \in OnChain'
  BY <1>1, <1>2, <1>3 DEF OnChain
<1>7. OkExited'
  BY <1>1 DEF NodeInv, OkExited
<1>8. SignedLow'
  <2>1. ASSUME NEW s \in Req, proc[s] = "signed"
        PROVE  signedSeq[s] <= seq'[Sender(s)]
    <3>1. Sender(s) \in Account
      BY <2>1 DEF WInv, Stages, Signable
    <3>2. signedSeq[s] <= seq[Sender(s)]
      BY <2>1 DEF NodeInv, SignedLow
    <3> QED
      BY <1>1, <1>3, <1>4, <3>1, <3>2
  <2> QED
    BY <1>1, <2>1 DEF SignedLow, Sender
<1>9. NoneSkipped'
  <2>1. ASSUME NEW a \in Account, NEW k \in Nat, k < seq'[a]
        PROVE  \E s \in OnChain' : Sender(s) = a /\ signedSeq'[s] = k
    <3>1. CASE k < seq[a]
      BY <1>1, <1>6, <3>1 DEF NodeInv, NoneSkipped
    <3>2. CASE ~(k < seq[a])
      <4>1. a = Sender(r) /\ k = seq[a]
        BY <1>1, <1>3, <1>4, <2>1, <3>2
      <4> QED
        BY <1>1, <1>5, <1>6, <4>1
    <3> QED
      BY <3>1, <3>2
  <2> QED
    BY <2>1 DEF NoneSkipped, Sender
<1>10. ASSUME NEW s \in Req, Accepted(s)
       PROVE  Accepted(s)'
  <2>1. CASE fate[s] # "none" \/ s = r
    BY <1>6, <2>1 DEF Accepted
  <2>2. CASE s # r /\ \E i \in 1..Len(mempool) : mempool[i] = s
    <3>1. PICK i \in 1..Len(mempool) : mempool[i] = s
      BY <2>2
    <3>2. i \in 2..Len(mempool)
      BY <1>1, <1>2, <2>2, <3>1
    <3> QED
      BY <1>2, <3>1, <3>2 DEF Accepted
  <2> QED
    BY <1>10, <2>1, <2>2 DEF Accepted
<1>11. ExitsExplained'
  BY <1>1, <1>10 DEF NodeInv, ExitsExplained, TakenByOther, Sender
<1> QED
  BY <1>7, <1>8, <1>9, <1>11 DEF NodeInv

LEMMA RestartNodeInv ==
  ASSUME WInv, NodeInv, RestartNode, HasForgotten'
  PROVE  NodeInv'
<1>1. UNCHANGED <<answer, proc, signedSeq, seq, fate>>
  BY DEF RestartNode
<1>2. NoneSkipped'
  BY <1>1, SameChain DEF NodeInv
<1>3. OkExited' /\ ExitsExplained'
  BY <1>1 DEF NodeInv, OkExited, ExitsExplained
<1>4. SignedLow'
  BY <1>1 DEF NodeInv, SignedLow, Sender
<1> QED
  BY <1>2, <1>3, <1>4 DEF NodeInv

(* A step of the server or the node; the history knows of a lost mempool.  *)
LEMMA NextNodeInv ==
  ASSUME WInv, NodeInv, Next, HasForgotten => HasForgotten', RestartNode => HasForgotten'
  PROVE  NodeInv'
<1> USE DEF WInv, NodeInv
<1>1. ASSUME NEW r \in Req, Receive(r) PROVE NodeInv'
  <2>1. /\ UNCHANGED node /\ signedSeq' = signedSeq
        /\ answer[r] = "unasked" /\ proc[r] = "none"
        /\ \/ answer' = [answer EXCEPT ![r] = "refused"] /\ proc' = proc
           \/ /\ answer' = [answer EXCEPT ![r] = "waiting"]
              /\ proc' = [proc EXCEPT ![r] = "started"]
    BY <1>1 DEF Receive, Stages
  <2>2. \A s \in Req : /\ s # r => proc'[s] = proc[s] /\ answer'[s] = answer[s]
                       /\ proc'[r] \in {"none", "started"} /\ answer'[r] # "ok"
    BY <2>1 DEF TypeOK
  <2> QED
    BY <2>1, <2>2, QuietNodeInv DEF OkExited, Exited, Quiet
<1>2. ASSUME NEW r \in Req, AnswerRequest(r) PROVE NodeInv'
  <2>1. /\ UNCHANGED <<proc, signedSeq, node>>
        /\ answer' = [answer EXCEPT ![r] = AnswerOf(r)]
    BY <1>2 DEF AnswerRequest
  <2>2. \A s \in Req : answer'[s] = "ok" => proc[s] = "exit 0"
    BY <2>1 DEF AnswerOf, OkExited, TypeOK
  <2> QED
    BY <2>1, <2>2, QuietNodeInv DEF Quiet
<1>3. CASE RestartServer
  <2>1. /\ UNCHANGED <<proc, signedSeq, node>>
        /\ \A s \in Req : answer'[s] = "ok" => answer[s] = "ok"
    BY <1>3 DEF RestartServer
  <2> QED
    BY <2>1, QuietNodeInv DEF OkExited, Quiet
<1>4. ASSUME NEW r \in Req, AddKey(r) \/ Sign(r) \/ CommandFails(r) PROVE NodeInv'
  <2>1. /\ UNCHANGED <<answer, node>> /\ proc[r] \in {"started", "signed"}
        /\ \/ /\ \/ Exit(r, "exit 1")
                 \/ Exit(r, "exit 0") /\ Request[r].path \notin TxPath
              /\ signedSeq' = signedSeq
           \/ /\ Exit(r, "signed") /\ Sender(r) \in Account
              /\ signedSeq' = [signedSeq EXCEPT ![r] = seq[Sender(r)]]
    BY <1>4 DEF AddKey, Sign, CommandFails, TxPath, SendPath, OtherPath, KeyPath, TypeOK
  <2>2. /\ \A s \in Req : s # r => proc'[s] = proc[s] /\ signedSeq'[s] = signedSeq[s]
        /\ ~Exited(r) /\ answer'[r] # "ok" /\ answer' = answer
        /\ proc'[r] = "exit 0" => Request[r].path \notin TxPath
        /\ proc'[r] = "signed" => signedSeq'[r] = seq[Sender(r)] /\ seq[Sender(r)] \in Nat
    BY <2>1 DEF TypeOK, Exit, Exited, OkExited
  <2>3. ASSUME NEW s \in Req PROVE Quiet(s)
    <3>1. answer[s] = "ok" => proc[s] = "exit 0"
      BY DEF OkExited
    <3>2. CASE s = r
      BY <2>2, <3>1, <3>2 DEF Quiet, Exited
    <3>3. CASE s # r
      BY <2>2, <3>1, <3>3 DEF Quiet
    <3> QED
      BY <3>2, <3>3
  <2> QED
    BY <2>1, <2>3, QuietNodeInv
<1>5. ASSUME NEW r \in Req, Broadcast(r) PROVE NodeInv'
  BY <1>5, BroadcastNodeInv
<1>6. CASE Deliver
  BY <1>6, DeliverNodeInv
<1>7. CASE RestartNode
  BY <1>7, RestartNodeInv
<1> QED
  BY <1>1, <1>2, <1>3, <1>4, <1>5, <1>6, <1>7 DEF Next

LEMMA InitBatchInv == BatchInit => BatchInv
<1> SUFFICES ASSUME BatchInit PROVE BatchInv
  OBVIOUS
<1>1. Init /\ turn = 1 /\ stage = "idle" /\ counted = {} /\ forgot = FALSE
  BY DEF BatchInit
<1>2. NodeInv
  BY <1>1 DEF NodeInv, OkExited, SignedLow, NoneSkipped, ExitsExplained, Init
<1> QED
  BY <1>1, <1>2, InitWInv DEF BatchInv, InList, CountedOk

LEMMA NextBatchInv ==
  ASSUME BatchInv, [BatchNext]_batchVars
  PROVE  BatchInv'
<1> USE DEF BatchInv
<1>1. CASE UNCHANGED vars
  <2>1. WInv'
    BY <1>1, NextWInv
  <2>2. UNCHANGED <<answer, proc, signedSeq, seq, mempool, fate, node>>
    BY <1>1 DEF vars, node
  <2>5. HasForgotten => HasForgotten'
    BY Zenon DEF HasForgotten, BatchNext, ClickWithdrawAll, OnBatchAnswer, Resume, BatchServerStep, batchVars
  <2>3. NodeInv'
    BY <2>2, <2>5, QuietNodeInv DEF NodeInv, OkExited, Quiet
  <2>4. InList' /\ CountedOk'
    <3>1. CASE ClickWithdrawAll
      <4>1. Len(Rewards) >= 1
        BY <3>1, RewardsAssumption DEF ClickWithdrawAll
      <4> QED
        BY <3>1, <4>1, <2>2 DEF ClickWithdrawAll, InList, CountedOk
    <3>2. CASE OnBatchAnswer
      <4>1. turn \in 1..Len(Rewards) /\ Len(Rewards) \in Nat
        BY <3>2, RewardsAssumption DEF OnBatchAnswer, InList
      <4>2. Current \in Req /\ Request[Current].path \in TxPath
        BY <4>1, RewardsAssumption DEF Current, TxPath, OtherPath
      <4>3. CountedOk'
        BY <3>2, <4>2, <2>2 DEF OnBatchAnswer, Counts, CountedOk
      <4>4. InList'
        BY <3>2, <4>1 DEF OnBatchAnswer, NextEntry, MoreToDo, InList
      <4> QED
        BY <4>3, <4>4
    <3>3. CASE Resume
      <4>1. turn \in 1..Len(Rewards) /\ Len(Rewards) \in Nat
        BY <3>3, RewardsAssumption DEF Resume, InList
      <4> QED
        BY <3>3, <4>1, <2>2 DEF Resume, NextEntry, MoreToDo, InList, CountedOk
    <3>4. CASE BatchServerStep
      BY <3>4, <2>2 DEF BatchServerStep, InList, CountedOk
    <3>5. CASE UNCHANGED batchVars
      BY <3>5, <2>2 DEF batchVars, InList, CountedOk
    <3> QED
      BY <3>1, <3>2, <3>3, <3>4, <3>5 DEF BatchNext
  <2> QED
    BY <2>1, <2>3, <2>4
<1>2. CASE BatchServerStep
  <2>1. Next /\ UNCHANGED <<turn, stage, counted>>
    BY <1>2 DEF BatchServerStep
  <2>2. (HasForgotten => HasForgotten') /\ (RestartNode => HasForgotten')
    <3>1. forgot' = (forgot \/ (mempool # << >> /\ mempool' = << >> /\ fate' = fate))
      BY <1>2 DEF BatchServerStep
    <3>2. RestartNode => mempool # << >> /\ mempool' = << >> /\ fate' = fate
      BY DEF RestartNode
    <3> QED
      BY <3>1, <3>2, Zenon DEF HasForgotten
  <2>3. WInv' /\ NodeInv'
    BY <2>1, <2>2, NextWInv, NextNodeInv
  <2>4. \A r \in Req : answer[r] = "ok" => answer'[r] = "ok"
    <3>1. \/ answer' = answer
          \/ \E r \in Req : \E a : answer[r] # "ok" /\ answer' = [answer EXCEPT ![r] = a]
          \/ RestartServer
      BY <2>1 DEF Next, Receive, AnswerRequest, AddKey, Sign, CommandFails, Broadcast,
                  Deliver, RestartNode
    <3>2. answer \in [Req -> {"unasked", "waiting", "refused", "ok", "error", "lost"}]
      BY DEF WInv, TypeOK
    <3>3. CASE \E r \in Req : \E a : answer[r] # "ok" /\ answer' = [answer EXCEPT ![r] = a]
      BY <3>2, <3>3
    <3>4. CASE RestartServer
      BY <3>4 DEF RestartServer
    <3> QED
      BY <3>1, <3>3, <3>4
  <2> QED
    BY <2>1, <2>3, <2>4 DEF InList, CountedOk
<1> QED
  BY <1>1, <1>2 DEF BatchNext, ClickWithdrawAll, OnBatchAnswer, Resume, batchVars

(* What withdrawAllRewards counts has been accepted by the node, or        *)
(* another transaction of the delegator with its sequence has, or the node *)
(* has lost its mempool, however many rewards there are and whoever else   *)
(* is at work.                                                             *)
THEOREM CountedWithdrawalsAccepted == BatchSpec => []CountedAreAccepted
<1>1. BatchInv /\ [BatchNext]_batchVars => BatchInv'
  BY NextBatchInv
<1>2. BatchInv => CountedAreAccepted
  <2> SUFFICES ASSUME BatchInv, NEW r \in counted
               PROVE  Accepted(r) \/ forgot \/ TakenByOther(r)
    BY DEF CountedAreAccepted
  <2>1. r \in Req /\ proc[r] = "exit 0" /\ Request[r].path \in TxPath
    BY DEF BatchInv, CountedOk, NodeInv, OkExited
  <2>2. Accepted(r) \/ HasForgotten \/ TakenByOther(r)
    BY <2>1 DEF BatchInv, NodeInv, ExitsExplained
  <2> QED
    BY <2>2, Zenon DEF HasForgotten
<1> QED
  BY InitBatchInv, <1>1, <1>2, PTL DEF BatchSpec

-----------------------------------------------------------------------------
(* The transfer form.  That it says success rests on what the node does: a *)
(* balance falls only with a transaction of its account.                   *)

Types ==
  /\ button \in BOOLEAN
  /\ step \in [Flow -> {"unclicked", "balance", "post", "poll", "verify", "timer", "end"}]
  /\ old \in [Flow -> Int]
  /\ oldSeq \in [Flow -> Int]
  /\ shown \in [Flow -> {"nothing", "success", "submitted", "manual command", "failed"}]
  /\ unread \subseteq Flow

NodeTypes ==
  /\ mempool \in Seq(Req)
  /\ seq \in [Account -> Nat]
  /\ bal \in [Account -> Int]

(* From the first reading of a balance on, the account has sent something  *)
(* or has no less than then.                                               *)
Spent ==
  \A r \in Flow :
    /\ seq[From(r)] >= oldSeq[r]
    /\ step[r] \in {"post", "poll", "verify"} =>
         seq[From(r)] > oldSeq[r] \/ bal[From(r)] >= old[r]

(* A success is shown at the end of a flow.                                *)
ShownAtEnd == \A r \in Flow : shown[r] = "success" => step[r] = "end"

PageInv ==
  /\ Types
  /\ NodeTypes
  /\ ButtonGuardsFlow
  /\ Spent
  /\ ShownAtEnd
  /\ SuccessMeansSomethingSpent

-----------------------------------------------------------------------------
LEMMA FlowFacts ==
  ASSUME NEW r \in Flow
  PROVE  r \in Req /\ From(r) \in Account
  BY PageAssumption DEF From

LEMMA InitPageInv == PageInit => PageInv
  <1> SUFFICES ASSUME PageInit PROVE PageInv
    OBVIOUS
  <1>1. mempool = << >> /\ seq = [a \in Account |-> 0] /\ bal = GenesisBal
    BY DEF PageInit, Init
  <1>2. NodeTypes
    BY <1>1, WalletAssumption DEF NodeTypes
  <1>3. Types /\ ButtonGuardsFlow /\ ShownAtEnd /\ SuccessMeansSomethingSpent
    BY DEF PageInit, Types, ButtonGuardsFlow, Busy, ShownAtEnd, SuccessMeansSomethingSpent
  <1>4. Spent
    BY <1>1, FlowFacts DEF PageInit, Spent
  <1>5. QED
    BY <1>2, <1>3, <1>4 DEF PageInv

-----------------------------------------------------------------------------
(* What a step of the server or the node does to an account.               *)
Moved ==
  \A a \in Account : \/ seq'[a] > seq[a]
                     \/ seq'[a] = seq[a] /\ bal'[a] >= bal[a]

(* A transaction uses up a sequence number of its sender only.             *)
LEMMA SequenceRises ==
  ASSUME NodeTypes, NEW s, seq' = [seq EXCEPT ![s] = @ + 1]
  PROVE  /\ seq' \in [Account -> Nat]
         /\ \A a \in Account : IF a = s THEN seq'[a] > seq[a] ELSE seq'[a] = seq[a]
  <1>1. seq \in [Account -> Nat]
    BY DEF NodeTypes
  <1>2. CASE s \in Account
    BY <1>1, <1>2
  <1>3. CASE s \notin Account
    <2>1. seq' = seq
      BY <1>1, <1>3
    <2>2. QED
      BY <1>1, <1>3, <2>1
  <1>4. QED
    BY <1>2, <1>3

(* It lowers the balance of its sender only.                               *)
LEMMA EffectOnOthers ==
  ASSUME NodeTypes, NEW r \in Req
  PROVE  /\ Effect(r, bal) \in [Account -> Int]
         /\ \A a \in Account : a # Sender(r) => Effect(r, bal)[a] >= bal[a]
  <1> DEFINE to == Request[r].to
             n == Request[r].amount
             s == Sender(r)
  <1>1. n \in Nat /\ bal \in [Account -> Int]
    BY WalletAssumption DEF NodeTypes
  <1>2. CASE Request[r].path \in SendPath
    <2>1. Effect(r, bal) = [a \in Account |-> bal[a] + (IF a = to THEN n ELSE 0)
                                                          - (IF a = s THEN n ELSE 0)]
      BY <1>2 DEF Effect, SendPath
    <2> HIDE DEF to, n, s
    <2>2. \A a \in Account :
            /\ bal[a] + (IF a = to THEN n ELSE 0) - (IF a = s THEN n ELSE 0) \in Int
            /\ a # s => bal[a] + (IF a = to THEN n ELSE 0) - (IF a = s THEN n ELSE 0) >= bal[a]
      BY <1>1
    <2>3. QED
      BY <2>1, <2>2 DEF s
  <1>3. CASE Request[r].path \notin SendPath /\ Request[r].path = "/token/real-mint"
    <2>1. Effect(r, bal) = [bal EXCEPT ![to] = @ + n]
      BY <1>3 DEF Effect, SendPath
    <2> HIDE DEF to, n
    <2>2. CASE to \in Account
      BY <1>1, <2>1, <2>2
    <2>3. CASE to \notin Account
      <3>1. Effect(r, bal) = bal
        BY <1>1, <2>1, <2>3
      <3>2. QED
        BY <1>1, <3>1
    <2>4. QED
      BY <2>2, <2>3
  <1>4. CASE Request[r].path \notin SendPath /\ Request[r].path # "/token/real-mint"
    <2>1. Effect(r, bal) = bal
      BY <1>4 DEF Effect, SendPath
    <2>2. QED
      BY <1>1, <2>1
  <1>5. QED
    BY <1>2, <1>3, <1>4

LEMMA DeliverMoves ==
  ASSUME NodeTypes, Deliver
  PROVE  NodeTypes' /\ Moved
  <1> DEFINE h == Head(mempool)
  <1>1. h \in Req /\ mempool' \in Seq(Req)
    BY DEF NodeTypes, Deliver
  <1>2. /\ bal' = Effect(h, bal) \/ bal' = bal
        /\ seq' = [seq EXCEPT ![Sender(h)] = @ + 1]
    BY DEF Deliver
  <1> HIDE DEF h
  <1>3. /\ bal' \in [Account -> Int]
        /\ \A a \in Account : a # Sender(h) => bal'[a] >= bal[a]
    <2>1. CASE bal' = Effect(h, bal)
      BY <1>1, <2>1, EffectOnOthers
    <2>2. CASE bal' = bal
      BY <2>2 DEF NodeTypes
    <2>3. QED
      BY <1>2, <2>1, <2>2
  <1>4. /\ seq' \in [Account -> Nat]
        /\ \A a \in Account : IF a = Sender(h) THEN seq'[a] > seq[a]
                               ELSE seq'[a] = seq[a]
    BY <1>2, SequenceRises
  <1>5. NodeTypes'
    BY <1>1, <1>3, <1>4 DEF NodeTypes
  <1>6. Moved
    BY <1>3, <1>4 DEF Moved
  <1>7. QED
    BY <1>5, <1>6

LEMMA ServerMoves ==
  ASSUME NodeTypes, Next
  PROVE  NodeTypes' /\ Moved
  <1>1. CASE Deliver
    BY <1>1, DeliverMoves
  <1>2. CASE UNCHANGED <<mempool, seq, bal>>
    BY <1>2 DEF NodeTypes, Moved
  <1>3. ASSUME mempool' \in Seq(Req), UNCHANGED <<seq, bal>>
        PROVE  NodeTypes' /\ Moved
    BY <1>3 DEF NodeTypes, Moved
  <1>4. ASSUME NEW r \in Req, Broadcast(r)
        PROVE  NodeTypes' /\ Moved
    <2>1. mempool' \in {mempool, Append(mempool, r)} /\ UNCHANGED <<seq, bal>>
      BY <1>4 DEF Broadcast
    <2>2. mempool \in Seq(Req) /\ Append(mempool, r) \in Seq(Req)
      BY DEF NodeTypes
    <2>3. QED
      BY <1>3, <2>1, <2>2
  <1>5. CASE RestartNode
    BY <1>5, <1>3 DEF RestartNode
  <1>6. ASSUME NEW r \in Req,
               \/ Receive(r) \/ AnswerRequest(r) \/ AddKey(r)
               \/ Sign(r) \/ CommandFails(r)
        PROVE  UNCHANGED <<mempool, seq, bal>>
    BY <1>6
    DEF Receive, AnswerRequest, AddKey, Sign,
        CommandFails, node
  <1>7. CASE RestartServer
    BY <1>7, <1>2 DEF RestartServer, node
  <1>8. QED
    BY <1>1, <1>2, <1>4, <1>5, <1>6, <1>7 DEF Next

LEMMA ServerStepKeepsPageInv ==
  ASSUME PageInv, ServerStep
  PROVE  PageInv'
  <1>1. NodeTypes' /\ Moved
    BY ServerMoves DEF PageInv, ServerStep
  <1>2. UNCHANGED <<button, step, old, shown, oldSeq, unread>>
    BY DEF ServerStep, page
  <1>3. Types' /\ ButtonGuardsFlow' /\ ShownAtEnd'
    BY <1>2 DEF PageInv, Types, ButtonGuardsFlow, Busy, ShownAtEnd
  <1>4. ASSUME NEW r \in Flow
        PROVE  /\ seq'[From(r)] >= oldSeq[r]
               /\ step[r] \in {"post", "poll", "verify"} =>
                    seq'[From(r)] > oldSeq[r] \/ bal'[From(r)] >= old[r]
               /\ shown[r] = "success" => r \in unread \/ seq'[From(r)] > oldSeq[r]
    <2> DEFINE a == From(r)
    <2>1. /\ a \in Account /\ seq[a] \in Nat /\ seq'[a] \in Nat
          /\ bal[a] \in Int /\ bal'[a] \in Int /\ old[r] \in Int /\ oldSeq[r] \in Int
      BY <1>1, FlowFacts DEF PageInv, Types, NodeTypes
    <2>2. \/ seq'[a] > seq[a]
          \/ seq'[a] = seq[a] /\ bal'[a] >= bal[a]
      BY <1>1, <2>1 DEF Moved
    <2>3. /\ seq[a] >= oldSeq[r]
          /\ step[r] \in {"post", "poll", "verify"} =>
               seq[a] > oldSeq[r] \/ bal[a] >= old[r]
          /\ shown[r] = "success" => r \in unread \/ seq[a] > oldSeq[r]
      BY DEF PageInv, Spent, SuccessMeansSomethingSpent
    <2> HIDE DEF a
    <2>4. /\ seq'[a] >= oldSeq[r]
          /\ step[r] \in {"post", "poll", "verify"} =>
               seq'[a] > oldSeq[r] \/ bal'[a] >= old[r]
          /\ shown[r] = "success" => r \in unread \/ seq'[a] > oldSeq[r]
      BY <2>1, <2>2, <2>3
    <2>5. QED
      BY <2>4 DEF a
  <1>5. Spent' /\ SuccessMeansSomethingSpent'
    BY <1>2, <1>4 DEF Spent, SuccessMeansSomethingSpent, From
  <1>6. QED
    BY <1>1, <1>3, <1>5 DEF PageInv

-----------------------------------------------------------------------------
(* A step of one flow.  It is the only one that is busy.                   *)
LEMMA FlowStepKeepsButton ==
  ASSUME PageInv, NEW r \in Flow, NEW to,
         to \in {"balance", "post", "poll", "verify", "timer", "end"},
         step' = [step EXCEPT ![r] = to],
         Busy(r) \/ button,
         button' = (to = "end")
  PROVE  ButtonGuardsFlow'
  <1>1. \A q \in Flow \ {r} : ~Busy(q)
    BY DEF PageInv, ButtonGuardsFlow
  <1>2. \A q \in Flow \ {r} : step'[q] \in {"unclicked", "end"}
    BY <1>1 DEF PageInv, Types, Busy
  <1>3. step'[r] = to
    BY DEF PageInv, Types
  <1>4. QED
    BY <1>2, <1>3 DEF ButtonGuardsFlow, Busy

LEMMA ClickKeepsPageInv ==
  ASSUME PageInv, NEW r \in Flow, Click(r)
  PROVE  PageInv'
  <1>1. /\ step' = [step EXCEPT ![r] = "balance"] /\ step[r] = "unclicked"
        /\ button = TRUE /\ button' = FALSE
        /\ UNCHANGED <<mempool, seq, bal, old, shown, oldSeq, unread>>
    BY DEF Click, Go, vars, PageInv, Types
  <1>2. Types' /\ NodeTypes'
    BY <1>1 DEF PageInv, Types, NodeTypes
  <1>3. ButtonGuardsFlow'
    BY <1>1, FlowStepKeepsButton
  <1>4. Spent' /\ ShownAtEnd' /\ SuccessMeansSomethingSpent'
    BY <1>1 DEF PageInv, Types, Spent, ShownAtEnd, SuccessMeansSomethingSpent, From
  <1>5. QED
    BY <1>2, <1>3, <1>4 DEF PageInv

LEMMA CheckBalanceKeepsPageInv ==
  ASSUME PageInv, NEW r \in Flow, CheckBalance(r)
  PROVE  PageInv'
  <1>1. step[r] = "balance" /\ Busy(r) /\ button = FALSE
    BY DEF CheckBalance, Go, PageInv, Types, ButtonGuardsFlow, Busy
  <1>2. UNCHANGED <<mempool, seq, bal, unread>>
    BY DEF CheckBalance, vars
  <1>3. NodeTypes'
    BY <1>2 DEF PageInv, NodeTypes
  <1>4. From(r) \in Account /\ seq[From(r)] \in Nat /\ bal[From(r)] \in Int
    BY FlowFacts DEF PageInv, NodeTypes
  <1>5. ASSUME step' = [step EXCEPT ![r] = "post"],
               old' = [old EXCEPT ![r] = bal[From(r)]],
               oldSeq' = [oldSeq EXCEPT ![r] = seq[From(r)]],
               UNCHANGED <<button, shown>>
        PROVE  PageInv'
    <2>1. PICK b \in Int, q \in Int : b = bal[From(r)] /\ q = seq[From(r)]
      BY <1>4
    <2>2. /\ old' = [old EXCEPT ![r] = b] /\ oldSeq' = [oldSeq EXCEPT ![r] = q]
          /\ seq[Request[r].from] = q /\ bal[Request[r].from] = b
      BY <1>5, <2>1 DEF From
    <2>3. /\ step' = [step EXCEPT ![r] = "post"]
          /\ UNCHANGED <<mempool, seq, bal, unread, button, shown>>
      BY <1>2, <1>5
    <2>4. Types'
      <3>1. old' \in [Flow -> Int] /\ oldSeq' \in [Flow -> Int]
        BY <2>2 DEF PageInv, Types
      <3>2. step' \in [Flow -> {"unclicked", "balance", "post", "poll", "verify", "timer", "end"}]
        BY <2>3 DEF PageInv, Types
      <3>3. QED
        BY <2>3, <3>1, <3>2 DEF PageInv, Types
    <2>5. ButtonGuardsFlow'
      BY <1>1, <1>5, FlowStepKeepsButton
    <2>6. shown[r] # "success"
      BY <1>1 DEF PageInv, ShownAtEnd
    <2>7. Spent' /\ ShownAtEnd' /\ SuccessMeansSomethingSpent'
      <3>1. ShownAtEnd' /\ SuccessMeansSomethingSpent'
        BY <2>2, <2>3, <2>6 DEF PageInv, Types, ShownAtEnd, SuccessMeansSomethingSpent, From
      <3>2. ASSUME NEW p \in Flow
            PROVE  /\ seq[From(p)] >= oldSeq'[p]
                   /\ step'[p] \in {"post", "poll", "verify"} =>
                        seq[From(p)] > oldSeq'[p] \/ bal[From(p)] >= old'[p]
        <4>1. CASE p = r
          <5>1. old'[p] = b /\ oldSeq'[p] = q
            BY <2>2, <4>1 DEF PageInv, Types
          <5>2. bal[From(p)] = b /\ seq[From(p)] = q
            BY <2>1, <4>1
          <5>3. QED
            BY <5>1, <5>2
        <4>2. CASE p # r
          <5>1. old'[p] = old[p] /\ oldSeq'[p] = oldSeq[p] /\ step'[p] = step[p]
            BY <2>2, <2>3, <4>2 DEF PageInv, Types
          <5>2. QED
            BY <5>1 DEF PageInv, Spent
        <4>3. QED
          BY <4>1, <4>2
      <3>3. QED
        BY <2>3, <3>1, <3>2 DEF Spent, From
    <2>8. QED
      BY <1>3, <2>4, <2>5, <2>7 DEF PageInv
  <1>6. ASSUME step' = [step EXCEPT ![r] = "end"],
               shown' = [shown EXCEPT ![r] = "failed"],
               button' = TRUE,
               UNCHANGED <<old, oldSeq>>
        PROVE  PageInv'
    <2>1. Types'
      BY <1>2, <1>6 DEF PageInv, Types
    <2>2. ButtonGuardsFlow'
      BY <1>1, <1>6, FlowStepKeepsButton
    <2>3. Spent' /\ ShownAtEnd' /\ SuccessMeansSomethingSpent'
      BY <1>2, <1>6 DEF PageInv, Types, Spent, ShownAtEnd, SuccessMeansSomethingSpent, From
    <2>4. QED
      BY <1>3, <2>1, <2>2, <2>3 DEF PageInv
  <1>7. QED
    BY <1>5, <1>6 DEF CheckBalance, Go, Show

(* Another step of a flow that is not over with a success.                 *)
LEMMA OtherStepKeepsPageInv ==
  ASSUME PageInv, NEW r \in Flow, NEW to,
         Busy(r),
         \/ to \in {"poll", "verify"} /\ step[r] \in {"post", "poll", "verify"}
         \/ to \in {"timer", "end"},
         step' = [step EXCEPT ![r] = to],
         shown' \in {shown, [shown EXCEPT ![r] = "manual command"],
                     [shown EXCEPT ![r] = "submitted"]},
         button' = (to = "end"),
         unread' \in {unread, unread \cup {r}},
         UNCHANGED <<mempool, seq, bal, old, oldSeq>>
  PROVE  PageInv'
  <1>1. Types' /\ NodeTypes'
    BY DEF PageInv, Types, NodeTypes
  <1>2. ButtonGuardsFlow'
    BY FlowStepKeepsButton
  <1>3. shown[r] # "success"
    BY DEF PageInv, ShownAtEnd, Busy
  <1>4. Spent' /\ ShownAtEnd' /\ SuccessMeansSomethingSpent'
    BY <1>3 DEF PageInv, Types, Spent, ShownAtEnd, SuccessMeansSomethingSpent, From
  <1>5. QED
    BY <1>1, <1>2, <1>4 DEF PageInv

LEMMA PageStepKeepsPageInv ==
  ASSUME PageInv, NEW r \in Flow, PageStep(r)
  PROVE  PageInv'
  <1>1. ASSUME Busy(r) PROVE button = FALSE
    BY <1>1 DEF PageInv, Types, ButtonGuardsFlow
  <1>2. CASE CheckBalance(r)
    BY <1>2, CheckBalanceKeepsPageInv
  <1>3. CASE OnAnswer(r)
    <2>1. step[r] = "post" /\ Busy(r)
      BY <1>3 DEF OnAnswer, FailTransfer, Go, Busy
    <2>2. PICK to \in {"poll", "timer"} :
            /\ step' = [step EXCEPT ![r] = to]
            /\ shown' \in {shown, [shown EXCEPT ![r] = "manual command"]}
            /\ UNCHANGED button
      BY <1>3 DEF OnAnswer, FailTransfer, Go, Show
    <2>3. UNCHANGED <<mempool, seq, bal, old, oldSeq, unread>>
      BY <1>3 DEF OnAnswer, vars
    <2>4. QED
      BY <1>1, <2>1, <2>2, <2>3, OtherStepKeepsPageInv
  <1>4. CASE Poll(r)
    <2>1. step[r] = "poll" /\ Busy(r)
      BY <1>4 DEF Poll, Go, Busy
    <2>2. PICK to \in {"poll", "verify"} : step' = [step EXCEPT ![r] = to]
      BY <1>4 DEF Poll, Go
    <2>3. UNCHANGED <<mempool, seq, bal, button, old, shown, oldSeq, unread>>
      BY <1>4 DEF Poll, vars
    <2>4. QED
      BY <1>1, <2>1, <2>2, <2>3, OtherStepKeepsPageInv
  <1>5. CASE Verify(r)
    <2>1. step[r] = "verify" /\ Busy(r)
      BY <1>5 DEF Verify, FailTransfer, Go, Busy
    <2>2. UNCHANGED <<mempool, seq, bal, old, oldSeq>>
      BY <1>5 DEF Verify, vars
    <2>3. ASSUME FailTransfer(r, "verify"), UNCHANGED unread
          PROVE  PageInv'
      <3>1. /\ step' = [step EXCEPT ![r] = "timer"]
            /\ shown' = [shown EXCEPT ![r] = "manual command"]
            /\ button' = FALSE /\ unread' = unread
        BY <1>1, <2>1, <2>3 DEF FailTransfer, Go, Show
      <3>2. PICK to \in {"timer"} : step' = [step EXCEPT ![r] = to] /\ button' = (to = "end")
        BY <3>1
      <3>3. QED
        BY <2>1, <2>2, <3>1, <3>2, OtherStepKeepsPageInv
    <2>4. ASSUME NEW new \in {bal[From(r)], 0},
                 step' = [step EXCEPT ![r] = "end"],
                 shown' = [shown EXCEPT ![r] = IF LooksSpent(r, new) THEN "success" ELSE "submitted"],
                 button' = TRUE,
                 unread' = IF new = bal[From(r)] THEN unread ELSE unread \cup {r}
          PROVE  PageInv'
      <3>1. CASE ~LooksSpent(r, new)
        BY <3>1, <2>1, <2>2, <2>4, OtherStepKeepsPageInv
      <3>2. CASE LooksSpent(r, new)
        <4>1. shown' = [shown EXCEPT ![r] = "success"]
          BY <2>4, <3>2
        <4>2. Types' /\ NodeTypes'
          BY <2>2, <2>4, <4>1 DEF PageInv, Types, NodeTypes
        <4>3. ButtonGuardsFlow'
          BY <2>1, <2>4, FlowStepKeepsButton
        <4>4. r \in unread' \/ seq[From(r)] > oldSeq[r]
          <5>1. CASE new = bal[From(r)]
            <6>1. /\ bal[From(r)] < old[r] /\ bal[From(r)] \in Int /\ old[r] \in Int
                  /\ seq[From(r)] > oldSeq[r] \/ bal[From(r)] >= old[r]
              BY <3>2, <5>1, <2>1, FlowFacts DEF LooksSpent, PageInv, Types, NodeTypes, Spent
            <6>2. QED
              BY <6>1
          <5>2. CASE new # bal[From(r)]
            BY <5>2, <2>4
          <5>3. QED
            BY <5>1, <5>2
        <4>5. Spent' /\ ShownAtEnd' /\ SuccessMeansSomethingSpent'
          BY <2>2, <2>4, <4>1, <4>4
          DEF PageInv, Types, Spent, ShownAtEnd, SuccessMeansSomethingSpent, From
        <4>6. QED
          BY <4>2, <4>3, <4>5 DEF PageInv
      <3>3. QED
        BY <3>1, <3>2
    <2>5. QED
      BY <1>5, <2>3, <2>4 DEF Verify, Go, Show
  <1>6. CASE TimerFires(r)
    <2>1. step[r] = "timer" /\ Busy(r) /\ step' = [step EXCEPT ![r] = "end"] /\ button' = TRUE
      BY <1>6 DEF TimerFires, Go, Busy
    <2>2. UNCHANGED <<mempool, seq, bal, old, shown, oldSeq, unread>>
      BY <1>6 DEF TimerFires, vars
    <2>3. QED
      BY <2>1, <2>2, OtherStepKeepsPageInv
  <1>7. QED
    BY <1>2, <1>3, <1>4, <1>5, <1>6 DEF PageStep

LEMMA NextKeepsPageInv == PageInv /\ [PageNext]_pageVars => PageInv'
  <1> SUFFICES ASSUME PageInv, [PageNext]_pageVars PROVE PageInv'
    OBVIOUS
  <1>1. CASE UNCHANGED pageVars
    BY <1>1
    DEF pageVars, vars, page, PageInv, Types, NodeTypes, ButtonGuardsFlow, Busy, Spent,
        ShownAtEnd, SuccessMeansSomethingSpent, From
  <1>2. ASSUME NEW r \in Flow, Click(r) PROVE PageInv'
    BY <1>2, ClickKeepsPageInv
  <1>3. ASSUME NEW r \in Flow, PageStep(r) PROVE PageInv'
    BY <1>3, PageStepKeepsPageInv
  <1>4. CASE ServerStep
    BY <1>4, ServerStepKeepsPageInv
  <1>5. QED
    BY <1>1, <1>2, <1>3, <1>4 DEF PageNext

-----------------------------------------------------------------------------
LEMMA PageInvAlways == PageSpec => []PageInv
  BY InitPageInv, NextKeepsPageInv, PTL DEF PageSpec

(* No two runs of sendTransfer overlap, and while one is under way its     *)
(* button is disabled, through all five exits.                             *)
THEOREM FlowsNeverOverlap == PageSpec => []ButtonGuardsFlow
  <1>1. PageInv => ButtonGuardsFlow
    BY DEF PageInv
  <1>2. QED
    BY <1>1, PageInvAlways, PTL

(* When sendTransfer says success, the sender has spent something since    *)
(* its balance was first read, or the balance could not be read again.     *)
THEOREM SuccessIsOfSomething == PageSpec => []SuccessMeansSomethingSpent
  <1>1. PageInv => SuccessMeansSomethingSpent
    BY DEF PageInv
  <1>2. QED
    BY <1>1, PageInvAlways, PTL
=============================================================================
