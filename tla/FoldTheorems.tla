---------------------------- MODULE FoldTheorems ----------------------------
(***************************************************************************)
(* Facts about folds and sums over finite sets.  The library defines both  *)
(* by a function that takes one element away at a time; that there is one  *)
(* has to be shown, and that a sum does not depend on the order.           *)
(***************************************************************************)
EXTENDS Integers, FiniteSets, Functions, FiniteSetTheorems, WellFoundedInduction,
        TLAPS

-----------------------------------------------------------------------------
(* Induction over finite sets, and what a fold of one comes to.            *)

(* Induction over the natural numbers, about a set of numbers.             *)
LEMMA NatSetInduction ==
  ASSUME NEW T \in SUBSET Nat, 0 \in T, \A n \in T : n + 1 \in T
  PROVE  T = Nat
  <1>1. SUFFICES ASSUME Nat \ T # {} PROVE FALSE
    OBVIOUS
  <1>2. \E m \in Nat \ T : \A n \in Nat \ T : ~(<<n, m>> \in OpToRel(<, Nat))
    BY <1>1, WFMin, NatLessThanWellFounded
  <1>3. \E m \in Nat \ T : \A n \in Nat \ T : ~(<<n, m>> \in {ss \in Nat \X Nat : ss[1] < ss[2]})
    BY <1>2 DEF OpToRel
  <1> HIDE <1>2
  <1>4. PICK m \in Nat \ T : \A n \in Nat \ T : ~(n < m)
    BY ONLY <1>3
  <1>5. m # 0 /\ m - 1 \in Nat
    BY ONLY <1>4, 0 \in T
  <1>6. QED
    BY <1>4, <1>5

(* Induction over the subsets of a finite set, about a set T of subsets:   *)
(* it has all of them if it has every one whose elements can each be taken *)
(* away within T.                                                          *)
LEMMA SubsetInduction ==
  ASSUME NEW S, IsFiniteSet(S), NEW T \in SUBSET SUBSET S,
         \A A \in SUBSET S : (\A x \in A : A \ {x} \in T) => A \in T
  PROVE  T = SUBSET S
  <1>1. SUFFICES ASSUME (SUBSET S) \ T # {} PROVE FALSE
    OBVIOUS
  <1>2. IsWellFoundedOn(StrictSubsetOrdering(S), SUBSET S)
    BY FS_StrictSubsetOrderingWellFounded, FS_FiniteSubsetsOfFinite
  <1>3. PICK A \in (SUBSET S) \ T :
          \A B \in (SUBSET S) \ T : <<B, A>> \notin StrictSubsetOrdering(S)
    BY <1>1, <1>2, WFMin
  <1>4. PICK x \in A : A \ {x} \notin T
    BY <1>3
  <1>5. <<A \ {x}, A>> \in StrictSubsetOrdering(S)
    BY <1>3, <1>4 DEF StrictSubsetOrdering
  <1>6. QED
    BY <1>3, <1>4, <1>5

(* A function on the subsets of a finite set may be defined by recursion   *)
(* that takes one element away.                                            *)
Unfolded(it, B, base, g, pick) ==
  IF B = {} THEN base ELSE g[pick[B]][it[B \ {pick[B]}]]

IsFold(it, S, base, g, pick) ==
  it = [B \in SUBSET S |-> Unfolded(it, B, base, g, pick)]

(* Such a function exists.                                                 *)
LEMMA Unfolding ==
  ASSUME NEW S, IsFiniteSet(S), NEW base, NEW g, NEW pick,
         \A B \in SUBSET S : B # {} => pick[B] \in B
  PROVE  \E it : IsFold(it, S, base, g, pick)
  <1> DEFINE Good(it, n) ==
               /\ it = [B \in SUBSET S |-> it[B]]
               /\ \A B \in SUBSET S :
                    Cardinality(B) <= n => it[B] = Unfolded(it, B, base, g, pick)
             T == {n \in Nat : \E it : Good(it, n)}
  <1>0. \A B \in SUBSET S : IsFiniteSet(B) /\ Cardinality(B) \in Nat
    BY FS_Subset, FS_CardinalityType
  <1>1. 0 \in T
    <2> DEFINE it == [B \in SUBSET S |-> base]
    <2>1. \A B \in SUBSET S : Cardinality(B) <= 0 => B = {}
      BY <1>0, FS_EmptySet
    <2>2. Good(it, 0)
      BY <2>1 DEF Unfolded
    <2>3. QED
      BY <2>2
  <1>2. ASSUME NEW n \in T
        PROVE  n + 1 \in T
    <2>1. PICK f : Good(f, n)
      OBVIOUS
    <2> DEFINE it == [B \in SUBSET S |-> Unfolded(f, B, base, g, pick)]
    <2>2. \A B \in SUBSET S : Cardinality(B) <= n => it[B] = f[B]
      BY <2>1
    <2>3. ASSUME NEW B \in SUBSET S, Cardinality(B) <= n + 1
          PROVE  it[B] = Unfolded(it, B, base, g, pick)
      <3>0. it[B] = Unfolded(f, B, base, g, pick)
        OBVIOUS
      <3> HIDE DEF it, Good
      <3>1. CASE B = {}
        BY ONLY <3>0, <3>1 DEF Unfolded
      <3>2. CASE B # {}
        <4> DEFINE D == B \ {pick[B]}
        <4>1. Cardinality(D) = Cardinality(B) - 1
          BY <3>2, <1>0, FS_RemoveElement
        <4>2. D \in SUBSET S /\ Cardinality(D) <= n
          BY <4>1, <1>0, <2>3
        <4>3. it[D] = f[D]
          BY <4>2, <2>2
        <4>4. QED
          BY ONLY <3>0, <3>2, <4>3 DEF Unfolded
      <3>3. QED
        BY <3>1, <3>2
    <2>4. Good(it, n + 1)
      BY <2>3
    <2> HIDE DEF it, Good
    <2>5. QED
      BY <2>4
  <1>3. T = Nat
    <2> HIDE DEF T
    <2>1. T \in SUBSET Nat
      BY DEF T
    <2>2. QED
      BY <1>1, <1>2, <2>1, NatSetInduction
  <1>4. PICK it : Good(it, Cardinality(S))
    BY <1>3, <1>0
  <1>5. \A B \in SUBSET S : Cardinality(B) <= Cardinality(S)
    BY FS_Subset
  <1>6. it = [B \in SUBSET S |-> Unfolded(it, B, base, g, pick)]
    BY <1>4, <1>5
  <1>7. QED
    BY <1>6 DEF IsFold

(* What holds of the base and is handed on by every step of a fold over S  *)
(* holds of its result: Inv relates the elements that are done and what    *)
(* the fold has come to.                                                   *)
LEMMA FoldInduction ==
  ASSUME NEW S, IsFiniteSet(S), NEW T, NEW Inv, NEW it,
         it[{}] \in T, <<{}, it[{}]>> \in Inv,
         \A B \in SUBSET S : B # {} => \E x \in B :
           it[B \ {x}] \in T /\ <<B \ {x}, it[B \ {x}]>> \in Inv
             => it[B] \in T /\ <<B, it[B]>> \in Inv
  PROVE  \A B \in SUBSET S : it[B] \in T /\ <<B, it[B]>> \in Inv
  <1> DEFINE D == {B \in SUBSET S : it[B] \in T /\ <<B, it[B]>> \in Inv}
  <1>1. ASSUME NEW A \in SUBSET S, \A x \in A : A \ {x} \in D
        PROVE  A \in D
    <2>1. CASE A = {}
      BY <2>1
    <2>2. CASE A # {}
      BY <1>1, <2>2
    <2>3. QED
      BY <2>1, <2>2
  <1>2. D = SUBSET S
    <2> HIDE DEF D
    <2>1. D \in SUBSET SUBSET S
      BY DEF D
    <2>2. QED
      BY <1>1, <2>1, SubsetInduction
  <1>3. QED
    BY <1>2

AnyOf(s) == CHOOSE x \in s : TRUE

LEMMA AnyOfIn ==
  ASSUME NEW B, B # {}
  PROVE  AnyOf(B) \in B
  BY DEF AnyOf

(* The function that FoldSet is defined by exists.                         *)
Computes(it, S, T, base, g) ==
  /\ it = [B \in SUBSET S |-> it[B]]
  /\ it[{}] = base
  /\ \A B \in SUBSET S :
       /\ it[B] \in T
       /\ B # {} => it[B] = g[AnyOf(B)][it[B \ {AnyOf(B)}]]

LEMMA FoldExists ==
  ASSUME NEW S, IsFiniteSet(S), NEW T, NEW base \in T, NEW g, NEW Inv,
         <<{}, base>> \in Inv,
         \A B \in SUBSET S : \A x \in B : \A t \in T :
           <<B \ {x}, t>> \in Inv => g[x][t] \in T /\ <<B, g[x][t]>> \in Inv
  PROVE  \E it : Computes(it, S, T, base, g)
  <1> DEFINE pick == [B \in SUBSET S |-> AnyOf(B)]
  <1>1. \A B \in SUBSET S : B # {} => pick[B] \in B
    BY AnyOfIn
  <1>2. \A B \in SUBSET S : pick[B] = AnyOf(B)
    OBVIOUS
  <1> HIDE DEF pick
  <1>3. PICK it : IsFold(it, S, base, g, pick)
    BY <1>1, Unfolding
  <1>4. /\ it = [B \in SUBSET S |-> it[B]]
        /\ \A B \in SUBSET S : it[B] = Unfolded(it, B, base, g, pick)
    BY <1>3 DEF IsFold
  <1>5. it[{}] = base
    BY <1>4 DEF Unfolded
  <1>6. \A B \in SUBSET S : B # {} => it[B] = g[AnyOf(B)][it[B \ {AnyOf(B)}]]
    BY <1>2, <1>4 DEF Unfolded
  <1>7. ASSUME NEW B \in SUBSET S, B # {}
        PROVE  \E x \in B :
                 it[B \ {x}] \in T /\ <<B \ {x}, it[B \ {x}]>> \in Inv
                   => it[B] \in T /\ <<B, it[B]>> \in Inv
    <2>1. AnyOf(B) \in B
      BY <1>7, AnyOfIn
    <2> DEFINE x == AnyOf(B)
               t == it[B \ {x}]
    <2>2. it[B] = g[x][t]
      BY <1>6, <1>7
    <2> HIDE DEF x, t
    <2>3. t \in T /\ <<B \ {x}, t>> \in Inv => it[B] \in T /\ <<B, it[B]>> \in Inv
      BY <2>1, <2>2 DEF x
    <2>4. QED
      BY <2>1, <2>3 DEF x, t
  <1>8. \A B \in SUBSET S : it[B] \in T /\ <<B, it[B]>> \in Inv
    BY <1>5, <1>7, FoldInduction
  <1>9. QED
    BY <1>4, <1>5, <1>6, <1>8 DEF Computes

-----------------------------------------------------------------------------
(* Sums over finite sets.                                                  *)

Sum(f, B) == SumFunctionOnSet(f, B)

SumUp(it, f, B) == IF B = {} THEN 0 ELSE f[AnyOf(B)] + it[B \ {AnyOf(B)}]

IsSum(it, f, S) == it = [B \in SUBSET S |-> SumUp(it, f, B)]

LEMMA SumDef ==
  ASSUME NEW f, NEW S
  PROVE  Sum(f, S) = (CHOOSE it : IsSum(it, f, S))[S]
  BY DEF Sum, SumFunctionOnSet, FoldFunctionOnSet, MapThenFoldSet, IsSum, SumUp, AnyOf

(* The function that the sum over a set is defined by exists.              *)
LEMMA SumExists ==
  ASSUME NEW S, IsFiniteSet(S), NEW f, \A x \in S : f[x] \in Int
  PROVE  \E it : IsSum(it, f, S) /\ \A B \in SUBSET S : it[B] \in Int
  <1> DEFINE g == [x \in S |-> [t \in Int |-> f[x] + t]]
             Inv == (SUBSET S) \X Int
  <1>1. \A x \in S : \A t \in Int : g[x][t] = f[x] + t
    OBVIOUS
  <1> HIDE DEF g
  <1>2. \A B \in SUBSET S : \A x \in B : \A t \in Int :
           <<B \ {x}, t>> \in Inv => g[x][t] \in Int /\ <<B, g[x][t]>> \in Inv
    BY <1>1
  <1>3. <<{}, 0>> \in Inv
    OBVIOUS
  <1> HIDE DEF Inv
  <1>4. PICK it : Computes(it, S, Int, 0, g)
    <2>1. 0 \in Int
      OBVIOUS
    <2>2. QED
      BY <1>2, <1>3, <2>1, FoldExists
  <1>5. /\ it = [B \in SUBSET S |-> it[B]]
        /\ it[{}] = 0
        /\ \A B \in SUBSET S :
             /\ it[B] \in Int
             /\ B # {} => it[B] = g[AnyOf(B)][it[B \ {AnyOf(B)}]]
    BY <1>4 DEF Computes
  <1>6. ASSUME NEW B \in SUBSET S
        PROVE  it[B] = SumUp(it, f, B)
    <2>1. CASE B = {}
      BY <1>5, <2>1 DEF SumUp
    <2>2. CASE B # {}
      <3>1. AnyOf(B) \in B
        BY <2>2, AnyOfIn
      <3>2. it[B \ {AnyOf(B)}] \in Int
        BY <1>5
      <3>3. QED
        BY <1>1, <1>5, <2>2, <3>1, <3>2 DEF SumUp
    <2>3. QED
      BY <2>1, <2>2
  <1>7. QED
    BY <1>5, <1>6 DEF IsSum

(* It does not depend on the set it was made for.                          *)
LEMMA SumUnique ==
  ASSUME NEW S, IsFiniteSet(S), NEW f, NEW h, IsSum(h, f, S),
         NEW R \in SUBSET S, NEW it, IsSum(it, f, R)
  PROVE  \A B \in SUBSET R : it[B] = h[B]
  <1> DEFINE D == {B \in SUBSET R : it[B] = h[B]}
  <1>1. \A B \in SUBSET S : h[B] = SumUp(h, f, B)
    BY DEF IsSum
  <1>2. \A B \in SUBSET R : it[B] = SumUp(it, f, B)
    BY DEF IsSum
  <1>3. ASSUME NEW A \in SUBSET R, \A x \in A : A \ {x} \in D
        PROVE  A \in D
    <2>0. A \in SUBSET S
      OBVIOUS
    <2>1. CASE A = {}
      BY <1>1, <1>2, <2>1 DEF SumUp
    <2>2. CASE A # {}
      <3>1. AnyOf(A) \in A
        BY <2>2, AnyOfIn
      <3>2. it[A \ {AnyOf(A)}] = h[A \ {AnyOf(A)}]
        BY <1>3, <3>1
      <3>3. QED
        BY <1>1, <1>2, <2>0, <3>2 DEF SumUp
    <2>3. QED
      BY <2>1, <2>2
  <1>4. IsFiniteSet(R)
    BY FS_Subset
  <1>5. D = SUBSET R
    <2> HIDE DEF D
    <2>1. D \in SUBSET SUBSET R
      BY DEF D
    <2>2. QED
      BY <1>3, <1>4, <2>1, SubsetInduction
  <1>6. QED
    BY <1>5

(* One function has the sums over all subsets.                             *)
LEMMA SumTable ==
  ASSUME NEW S, IsFiniteSet(S), NEW f, \A x \in S : f[x] \in Int
  PROVE  \E h : /\ IsSum(h, f, S)
                /\ \A B \in SUBSET S : h[B] \in Int /\ Sum(f, B) = h[B]
  <1>1. PICK h : IsSum(h, f, S) /\ \A B \in SUBSET S : h[B] \in Int
    BY SumExists
  <1>2. ASSUME NEW B \in SUBSET S
        PROVE  Sum(f, B) = h[B]
    <2>1. IsFiniteSet(B)
      BY FS_Subset
    <2>2. \E it : IsSum(it, f, B)
      BY <2>1, SumExists
    <2>3. IsSum(CHOOSE it : IsSum(it, f, B), f, B)
      BY <2>2
    <2> DEFINE it == CHOOSE it : IsSum(it, f, B)
    <2>4. Sum(f, B) = it[B]
      BY SumDef
    <2> HIDE DEF it
    <2>5. it[B] = h[B]
      BY <1>1, <2>3, SumUnique DEF it
    <2>6. QED
      BY <2>4, <2>5
  <1>3. QED
    BY <1>1, <1>2

(* The sum over nothing, and over one element more.                        *)
LEMMA SumStep ==
  ASSUME NEW S, IsFiniteSet(S), NEW f, \A x \in S : f[x] \in Int
  PROVE  /\ Sum(f, {}) = 0
         /\ \A B \in SUBSET S : Sum(f, B) \in Int
         /\ \A B \in SUBSET S : \A x \in B : Sum(f, B) = f[x] + Sum(f, B \ {x})
  <1>1. PICK h : /\ IsSum(h, f, S)
                 /\ \A B \in SUBSET S : h[B] \in Int /\ Sum(f, B) = h[B]
    BY SumTable
  <1>2. \A B \in SUBSET S : h[B] = SumUp(h, f, B)
    BY <1>1 DEF IsSum
  <1>3. h[{}] = 0
    BY <1>2 DEF SumUp
  <1> DEFINE D == {B \in SUBSET S : \A x \in B : h[B] = f[x] + h[B \ {x}]}
  <1>4. ASSUME NEW A \in SUBSET S, \A x \in A : A \ {x} \in D
        PROVE  A \in D
    <2>1. SUFFICES ASSUME NEW x \in A
                   PROVE  h[A] = f[x] + h[A \ {x}]
      OBVIOUS
    <2> DEFINE y == AnyOf(A)
    <2>2. y \in A
      BY AnyOfIn
    <2>3. h[A] = f[y] + h[A \ {y}]
      BY <1>2 DEF SumUp
    <2> HIDE DEF y
    <2>4. CASE x # y
      <3>1. h[A \ {y}] = f[x] + h[(A \ {y}) \ {x}]
        BY <1>4, <2>2, <2>4
      <3>2. h[A \ {x}] = f[y] + h[(A \ {x}) \ {y}]
        BY <1>4, <2>2, <2>4
      <3>3. (A \ {y}) \ {x} = (A \ {x}) \ {y}
        OBVIOUS
      <3>4. f[x] \in Int /\ f[y] \in Int /\ h[(A \ {x}) \ {y}] \in Int
        BY <1>1, <2>2
      <3>5. h[(A \ {y}) \ {x}] = h[(A \ {x}) \ {y}]
        BY ONLY <3>3
      <3>6. PICK c \in Int, p \in Int, q \in Int :
              c = h[(A \ {x}) \ {y}] /\ p = f[x] /\ q = f[y]
        BY <3>4
      <3>7. h[A \ {y}] = p + c /\ h[A \ {x}] = q + c /\ h[A] = q + h[A \ {y}]
        BY <2>3, <3>1, <3>2, <3>5, <3>6
      <3>8. QED
        BY ONLY <3>6, <3>7
    <2>5. QED
      BY <2>3, <2>4
  <1>5. D = SUBSET S
    <2> HIDE DEF D
    <2>1. D \in SUBSET SUBSET S
      BY DEF D
    <2>2. QED
      BY <1>4, <2>1, SubsetInduction
  <1>6. \A B \in SUBSET S : \A x \in B : h[B] = f[x] + h[B \ {x}]
    BY <1>5
  <1>7. ASSUME NEW B \in SUBSET S, NEW x \in B
        PROVE  Sum(f, B) = f[x] + Sum(f, B \ {x})
    BY <1>1, <1>6
  <1>8. QED
    BY <1>1, <1>3, <1>7

(* Functions that agree have one sum.                                      *)
LEMMA SumSame ==
  ASSUME NEW S, IsFiniteSet(S), NEW f, NEW g,
         \A x \in S : f[x] \in Int /\ g[x] = f[x]
  PROVE  Sum(g, S) = Sum(f, S)
  <1> DEFINE D == {B \in SUBSET S : Sum(g, B) = Sum(f, B)}
  <1>1. /\ Sum(f, {}) = 0
        /\ \A B \in SUBSET S : \A x \in B : Sum(f, B) = f[x] + Sum(f, B \ {x})
    BY SumStep
  <1>2. /\ Sum(g, {}) = 0
        /\ \A B \in SUBSET S : \A x \in B : Sum(g, B) = g[x] + Sum(g, B \ {x})
    BY SumStep
  <1>3. ASSUME NEW A \in SUBSET S, \A x \in A : A \ {x} \in D
        PROVE  A \in D
    <2>1. CASE A = {}
      BY <1>1, <1>2, <2>1
    <2>2. ASSUME NEW x \in A
          PROVE  Sum(g, A) = Sum(f, A)
      BY <1>1, <1>2, <1>3
    <2>3. QED
      BY <2>1, <2>2
  <1>4. D = SUBSET S
    <2> HIDE DEF D
    <2>1. D \in SUBSET SUBSET S
      BY DEF D
    <2>2. QED
      BY <1>3, <2>1, SubsetInduction
  <1>5. QED
    BY <1>4

(* One of the summands changes.                                            *)
DifferAt(x, f, g, S) ==
  /\ x \in S
  /\ \A y \in S : f[y] \in Int /\ g[y] \in Int
  /\ \A y \in S \ {x} : g[y] = f[y]

(* The sum changes by as much.                                             *)
LEMMA SumUpdate ==
  ASSUME NEW S, IsFiniteSet(S), NEW f, NEW g, NEW x, DifferAt(x, f, g, S)
  PROVE  Sum(g, S) = Sum(f, S) - f[x] + g[x]
  <1>0. /\ x \in S
        /\ \A y \in S : f[y] \in Int /\ g[y] \in Int
        /\ \A y \in S \ {x} : g[y] = f[y]
    BY DEF DifferAt
  <1>1. Sum(f, S) = f[x] + Sum(f, S \ {x}) /\ Sum(f, S \ {x}) \in Int
    BY <1>0, SumStep
  <1>2. Sum(g, S) = g[x] + Sum(g, S \ {x})
    BY <1>0, SumStep
  <1>3. Sum(g, S \ {x}) = Sum(f, S \ {x})
    <2>1. IsFiniteSet(S \ {x})
      BY FS_Subset
    <2>2. QED
      BY <1>0, <2>1, SumSame
  <1>4. QED
    BY <1>0, <1>1, <1>2, <1>3

LEMMA SumZero ==
  ASSUME NEW S, IsFiniteSet(S), NEW f, \A x \in S : f[x] = 0
  PROVE  Sum(f, S) = 0
  <1> DEFINE D == {B \in SUBSET S : Sum(f, B) = 0}
  <1>1. /\ Sum(f, {}) = 0
        /\ \A B \in SUBSET S : \A x \in B : Sum(f, B) = f[x] + Sum(f, B \ {x})
    BY SumStep
  <1>2. ASSUME NEW A \in SUBSET S, \A x \in A : A \ {x} \in D
        PROVE  A \in D
    <2>1. CASE A = {}
      BY <1>1, <2>1
    <2>2. ASSUME NEW x \in A
          PROVE  Sum(f, A) = 0
      <3>1. Sum(f, A) = f[x] + Sum(f, A \ {x})
        BY <1>1
      <3>2. Sum(f, A \ {x}) = 0
        BY <1>2
      <3>3. QED
        BY <3>1, <3>2
    <2>3. QED
      BY <2>1, <2>2
  <1>3. D = SUBSET S
    <2> HIDE DEF D
    <2>1. D \in SUBSET SUBSET S
      BY DEF D
    <2>2. QED
      BY <1>2, <2>1, SubsetInduction
  <1>4. QED
    BY <1>3

LEMMA SumNat ==
  ASSUME NEW S, IsFiniteSet(S), NEW f, \A x \in S : f[x] \in Nat
  PROVE  Sum(f, S) \in Nat
  <1> DEFINE D == {B \in SUBSET S : Sum(f, B) \in Nat}
  <1>1. /\ Sum(f, {}) = 0
        /\ \A B \in SUBSET S : \A x \in B : Sum(f, B) = f[x] + Sum(f, B \ {x})
    BY SumStep
  <1>2. ASSUME NEW A \in SUBSET S, \A x \in A : A \ {x} \in D
        PROVE  A \in D
    <2>1. CASE A = {}
      BY <1>1, <2>1
    <2>2. ASSUME NEW x \in A
          PROVE  Sum(f, A) \in Nat
      <3>1. Sum(f, A) = f[x] + Sum(f, A \ {x})
        BY <1>1
      <3>2. Sum(f, A \ {x}) \in Nat
        BY <1>2
      <3>3. QED
        BY <3>1, <3>2
    <2>3. QED
      BY <2>1, <2>2
  <1>3. D = SUBSET S
    <2> HIDE DEF D
    <2>1. D \in SUBSET SUBSET S
      BY DEF D
    <2>2. QED
      BY <1>2, <2>1, SubsetInduction
  <1>4. QED
    BY <1>3

Difference(h, f, g, S) ==
  \A x \in S : f[x] \in Int /\ g[x] \in Int /\ h[x] = f[x] - g[x]

LEMMA SumDifference ==
  ASSUME NEW S, IsFiniteSet(S), NEW f, NEW g, NEW h, Difference(h, f, g, S)
  PROVE  Sum(h, S) = Sum(f, S) - Sum(g, S)
  <1> DEFINE D == {B \in SUBSET S : Sum(h, B) = Sum(f, B) - Sum(g, B)}
  <1>0. \A x \in S : f[x] \in Int /\ g[x] \in Int /\ h[x] = f[x] - g[x] /\ h[x] \in Int
    BY DEF Difference
  <1>1. /\ Sum(f, {}) = 0
        /\ \A B \in SUBSET S : Sum(f, B) \in Int
        /\ \A B \in SUBSET S : \A x \in B : Sum(f, B) = f[x] + Sum(f, B \ {x})
    BY <1>0, SumStep
  <1>2. /\ Sum(g, {}) = 0
        /\ \A B \in SUBSET S : Sum(g, B) \in Int
        /\ \A B \in SUBSET S : \A x \in B : Sum(g, B) = g[x] + Sum(g, B \ {x})
    BY <1>0, SumStep
  <1>3. /\ Sum(h, {}) = 0
        /\ \A B \in SUBSET S : \A x \in B : Sum(h, B) = h[x] + Sum(h, B \ {x})
    BY <1>0, SumStep
  <1>4. ASSUME NEW A \in SUBSET S, \A x \in A : A \ {x} \in D
        PROVE  A \in D
    <2>1. CASE A = {}
      BY <1>1, <1>2, <1>3, <2>1
    <2>2. ASSUME NEW x \in A
          PROVE  Sum(h, A) = Sum(f, A) - Sum(g, A)
      <3>1. /\ Sum(f, A) = f[x] + Sum(f, A \ {x})
            /\ Sum(g, A) = g[x] + Sum(g, A \ {x})
            /\ Sum(h, A) = h[x] + Sum(h, A \ {x})
        BY <1>1, <1>2, <1>3
      <3>2. Sum(h, A \ {x}) = Sum(f, A \ {x}) - Sum(g, A \ {x})
        BY <1>4
      <3>3. PICK a \in Int, b \in Int, m \in Int, n \in Int :
              /\ a = f[x] /\ b = g[x]
              /\ m = Sum(f, A \ {x}) /\ n = Sum(g, A \ {x})
        BY <1>0, <1>1, <1>2
      <3>4. h[x] = a - b
        BY <1>0, <3>3
      <3>5. QED
        BY <3>1, <3>2, <3>3, <3>4
    <2>3. QED
      BY <2>1, <2>2
  <1>5. D = SUBSET S
    <2> HIDE DEF D
    <2>1. D \in SUBSET SUBSET S
      BY DEF D
    <2>2. QED
      BY <1>4, <2>1, SubsetInduction
  <1>6. QED
    BY <1>5

OneMore(g, f, S) == \A x \in S : f[x] \in Int /\ g[x] = f[x] + 1

LEMMA SumOneMore ==
  ASSUME NEW S, IsFiniteSet(S), NEW f, NEW g, OneMore(g, f, S)
  PROVE  Sum(g, S) = Sum(f, S) + Cardinality(S)
  <1> DEFINE D == {B \in SUBSET S : Sum(g, B) = Sum(f, B) + Cardinality(B)}
  <1>0. \A x \in S : f[x] \in Int /\ g[x] = f[x] + 1 /\ g[x] \in Int
    BY DEF OneMore
  <1>1. /\ Sum(f, {}) = 0
        /\ \A B \in SUBSET S : Sum(f, B) \in Int
        /\ \A B \in SUBSET S : \A x \in B : Sum(f, B) = f[x] + Sum(f, B \ {x})
    BY <1>0, SumStep
  <1>2. /\ Sum(g, {}) = 0
        /\ \A B \in SUBSET S : \A x \in B : Sum(g, B) = g[x] + Sum(g, B \ {x})
    BY <1>0, SumStep
  <1>3. ASSUME NEW A \in SUBSET S, \A x \in A : A \ {x} \in D
        PROVE  A \in D
    <2>1. CASE A = {}
      BY <1>1, <1>2, <2>1, FS_EmptySet
    <2>2. ASSUME NEW x \in A
          PROVE  Sum(g, A) = Sum(f, A) + Cardinality(A)
      <3>1. /\ Sum(f, A) = f[x] + Sum(f, A \ {x})
            /\ Sum(g, A) = g[x] + Sum(g, A \ {x})
        BY <1>1, <1>2
      <3>2. Sum(g, A \ {x}) = Sum(f, A \ {x}) + Cardinality(A \ {x})
        BY <1>3
      <3>3. IsFiniteSet(A)
        BY FS_Subset
      <3>4. Cardinality(A \ {x}) = Cardinality(A) - 1 /\ Cardinality(A) \in Nat
        BY <3>3, FS_RemoveElement, FS_CardinalityType
      <3>5. PICK a \in Int, m \in Int, n \in Int :
              a = f[x] /\ m = Sum(f, A \ {x}) /\ n = Cardinality(A)
        BY <1>0, <1>1, <3>4
      <3>6. g[x] = a + 1
        BY <1>0, <3>5
      <3>7. QED
        BY <3>1, <3>2, <3>4, <3>5, <3>6
    <2>3. QED
      BY <2>1, <2>2
  <1>4. D = SUBSET S
    <2> HIDE DEF D
    <2>1. D \in SUBSET SUBSET S
      BY DEF D
    <2>2. QED
      BY <1>3, <2>1, SubsetInduction
  <1>5. QED
    BY <1>4
=============================================================================
