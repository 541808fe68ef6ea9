----------------------------- MODULE FoldLemmas -----------------------------
(***************************************************************************)
(* Facts about the library that the proofs of several components rest on:  *)
(* induction over numbers and over finite sets, stated for sets so that no *)
(* operator has to be instantiated, what SumFunction computes, least       *)
(* elements, and division.  SumFunction chooses an order of its own, so    *)
(* that a sum over harts is only of use once the order is shown not to     *)
(* matter.                                                                 *)
(***************************************************************************)
EXTENDS Integers, Functions, FiniteSetTheorems, WellFoundedInduction, TLAPS

-----------------------------------------------------------------------------
(* Induction                                                               *)

\* A set of numbers with zero and all successors is all of Nat.
LEMMA Inductive ==
  ASSUME NEW Q, Q \subseteq Nat, 0 \in Q, \A n \in Q : n + 1 \in Q
  PROVE  Q = Nat
<1> SUFFICES ASSUME Nat \ Q # {} PROVE FALSE
  OBVIOUS
<1> DEFINE Less == {ss \in Nat \X Nat : ss[1] < ss[2]}
<1>1. IsWellFoundedOn(Less, Nat)
  BY NatLessThanWellFounded, Zenon DEF OpToRel
<1> HIDE DEF Less
<1>2. PICK x \in Nat \ Q : \A y \in Nat \ Q : ~(<<y, x>> \in Less)
  BY <1>1, WFMin, Zenon
<1>3. x - 1 \in Nat /\ x - 1 < x
  BY <1>2
<1>4. <<x - 1, x>> \in Less
  BY <1>3 DEF Less
<1>5. x - 1 \in Q
  BY <1>2, <1>3, <1>4
<1> QED
  BY <1>2, <1>5

\* Among subsets of a finite set, one has no proper subset among them.
LEMMA MinimalSubset ==
  ASSUME NEW S, IsFiniteSet(S), NEW Rest, Rest \subseteq SUBSET S, Rest # {}
  PROVE  \E T \in Rest : \A R \in Rest : R \subseteq T => R = T
<1> DEFINE Order == StrictSubsetOrdering(S)
           Finite == FiniteSubsetsOf(S)
<1>1. IsWellFoundedOn(Order, Finite)
  BY FS_StrictSubsetOrderingWellFounded
<1>2. Rest \subseteq Finite
  BY FS_Subset DEF FiniteSubsetsOf
<1> HIDE DEF Order, Finite
<1>3. PICK T \in Rest : \A R \in Rest : ~(<<R, T>> \in Order)
  BY <1>1, <1>2, WFMin, Zenon
<1>4. ASSUME NEW R \in Rest, R \subseteq T, R # T
      PROVE  <<R, T>> \in Order
  BY <1>4 DEF Order, StrictSubsetOrdering
<1>5. \A R \in Rest : R \subseteq T => R = T
  BY <1>3, <1>4
<1> QED
  BY <1>5

\* A set that holds each subset of S whose proper subsets it holds has all.
LEMMA SubsetInduction ==
  ASSUME NEW S, IsFiniteSet(S), NEW G,
         \A T \in SUBSET S : (\A R \in SUBSET T : R # T => R \in G) => T \in G
  PROVE  SUBSET S \subseteq G
<1> DEFINE Rest == (SUBSET S) \ G
<1> SUFFICES ASSUME Rest # {} PROVE FALSE
  OBVIOUS
<1>1. PICK T \in Rest : \A R \in Rest : R \subseteq T => R = T
  <2>1. Rest \subseteq SUBSET S
    OBVIOUS
  <2> HIDE DEF Rest
  <2> QED
    BY <2>1, MinimalSubset
<1>2. \A R \in SUBSET T : R # T => R \in G
  BY <1>1
<1> QED
  BY <1>1, <1>2

-----------------------------------------------------------------------------
(* Sums                                                                    *)

\* The element of T that is added first.
Pick(T) == CHOOSE x \in T : TRUE

\* g sums f over each subset of S, in the order in which CHOOSE takes it.
Term(f, g, T) == IF T = {} THEN 0 ELSE f[Pick(T)] + g[T \ {Pick(T)}]
Sums(f, S, g) == g = [T \in SUBSET S |-> Term(f, g, T)]

\* SumFunction is the last of these sums, by its definition.
LEMMA SumUnfolds ==
  ASSUME NEW f
  PROVE  SumFunction(f) = (CHOOSE g : Sums(f, DOMAIN f, g))[DOMAIN f]
BY DEF SumFunction, SumFunctionOnSet, FoldFunctionOnSet, MapThenFoldSet, Sums,
       Term, Pick

\* CHOOSE finds a member of a set that has one.
LEMMA PickIsIn == ASSUME NEW T, T # {} PROVE Pick(T) \in T
BY DEF Pick

\* Such sums exist, by induction on the size of the subset.
LEMMA SumsExist ==
  ASSUME NEW S, IsFiniteSet(S), NEW f \in [S -> Nat]
  PROVE  \E g \in [SUBSET S -> Nat] : Sums(f, S, g)
<1> DEFINE Upto(n) == \E g \in [SUBSET S -> Nat] :
             \A T \in SUBSET S : Cardinality(T) <= n => g[T] = Term(f, g, T)
           Q == {n \in Nat : Upto(n)}
<1>1. 0 \in Q
  <2> DEFINE g == [T \in SUBSET S |-> 0]
  <2>1. g \in [SUBSET S -> Nat]
    OBVIOUS
  <2>2. \A T \in SUBSET S : Cardinality(T) <= 0 => T = {}
    BY FS_Subset, FS_CardinalityType, FS_EmptySet
  <2>3. \A T \in SUBSET S : Cardinality(T) <= 0 => g[T] = Term(f, g, T)
    BY <2>2 DEF Term
  <2> QED
    BY <2>1, <2>3
<1>2. ASSUME NEW n \in Nat, Upto(n)
      PROVE  Upto(n + 1)
  <2>1. PICK g \in [SUBSET S -> Nat] :
          \A T \in SUBSET S : Cardinality(T) <= n => g[T] = Term(f, g, T)
    BY <1>2
  <2> DEFINE k == [T \in SUBSET S |-> Term(f, g, T)]
  <2>2. k \in [SUBSET S -> Nat]
    BY PickIsIn DEF Term
  <2>3. ASSUME NEW T \in SUBSET S, Cardinality(T) <= n + 1
        PROVE  k[T] = Term(f, k, T)
    <3>1. CASE T = {}
      BY <3>1 DEF Term
    <3>2. CASE T # {}
      <4> DEFINE R == T \ {Pick(T)}
      <4>1. Pick(T) \in T
        BY <3>2, PickIsIn
      <4>2. R \in SUBSET S
        OBVIOUS
      <4>3. IsFiniteSet(T)
        BY FS_Subset
      <4>4. Cardinality(R) = Cardinality(T) - 1 /\ Cardinality(T) \in Nat
        BY <4>1, <4>3, FS_RemoveElement, FS_CardinalityType
      <4>5. Cardinality(R) <= n
        BY <2>3, <4>4
      <4>6. g[R] = k[R]
        BY <2>1, <4>2, <4>5
      <4> QED
        BY <3>2, <4>6 DEF Term
    <3> QED
      BY <3>1, <3>2
  <2> HIDE DEF k
  <2> QED
    BY <2>2, <2>3
<1>3. Q = Nat
  <2> HIDE DEF Upto
  <2>1. \A n \in Q : n + 1 \in Q
    BY <1>2
  <2> QED
    BY <1>1, <2>1, Inductive
<1>4. Cardinality(S) \in Nat
  BY FS_CardinalityType
<1>5. PICK g \in [SUBSET S -> Nat] :
        \A T \in SUBSET S : Cardinality(T) <= Cardinality(S) => g[T] = Term(f, g, T)
  BY <1>3, <1>4
<1>6. \A T \in SUBSET S : Cardinality(T) <= Cardinality(S)
  BY FS_Subset
<1>7. \A T \in SUBSET S : g[T] = Term(f, g, T)
  BY <1>5, <1>6
<1>8. g = [T \in SUBSET S |-> Term(f, g, T)]
  BY <1>7
<1> QED
  BY <1>8 DEF Sums

\* The sum of a subset does not depend on the order.
AnyOrder(f, S, g) ==
  \A T \in SUBSET S :
    g[T] \in Nat /\ \A x \in T : g[T] = f[x] + g[T \ {x}]

LEMMA SumsAnyOrder ==
  ASSUME NEW S, IsFiniteSet(S), NEW f \in [S -> Nat], NEW g, Sums(f, S, g)
  PROVE  AnyOrder(f, S, g)
<1> DEFINE Good(T) == g[T] \in Nat /\ \A x \in T : g[T] = f[x] + g[T \ {x}]
           G == {T \in SUBSET S : Good(T)}
<1>1. \A T \in SUBSET S : g[T] = Term(f, g, T)
  BY DEF Sums
<1>2. ASSUME NEW T \in SUBSET S, \A R \in SUBSET T : R # T => R \in G
      PROVE  Good(T)
  <2>1. CASE T = {}
    BY <1>1, <2>1 DEF Term
  <2>2. CASE T # {}
    <3> DEFINE c == Pick(T)
    <3>1. c \in T
      BY <2>2, PickIsIn
    <3> HIDE DEF c
    <3>2. g[T] = f[c] + g[T \ {c}]
      BY <1>1, <2>2 DEF Term, c
    <3>3. g[T \ {c}] \in Nat
      BY <1>2, <3>1
    <3>4. \A x \in T : f[x] \in Nat
      OBVIOUS
    <3>5. ASSUME NEW x \in T, x # c
          PROVE  g[T] = f[x] + g[T \ {x}]
      <4>1. g[T \ {c}] = f[x] + g[(T \ {c}) \ {x}]
        BY <1>2, <3>1, <3>5
      <4>2. g[T \ {x}] = f[c] + g[(T \ {x}) \ {c}]
        BY <1>2, <3>1, <3>5
      <4>3. (T \ {c}) \ {x} = (T \ {x}) \ {c}
        OBVIOUS
      <4>4. g[(T \ {x}) \ {c}] \in Nat
        BY <1>2, <3>1, <3>5
      <4> QED
        BY <3>1, <3>2, <3>4, <4>1, <4>2, <4>3, <4>4
    <3>6. \A x \in T : g[T] = f[x] + g[T \ {x}]
      BY <3>2, <3>5
    <3> QED
      BY <3>1, <3>2, <3>3, <3>4, <3>6
  <2> QED
    BY <2>1, <2>2
<1>3. SUBSET S \subseteq G
  <2>1. \A T \in SUBSET S : (\A R \in SUBSET T : R # T => R \in G) => T \in G
    BY <1>2
  <2> HIDE DEF G
  <2> QED
    BY <2>1, SubsetInduction
<1> QED
  BY <1>3 DEF AnyOrder

\* It depends only on the values on that subset.
LEMMA SumsAgree ==
  ASSUME NEW S, IsFiniteSet(S), NEW f \in [S -> Nat], NEW k \in [S -> Nat],
         NEW g, Sums(f, S, g), NEW l, Sums(k, S, l),
         NEW A \in SUBSET S, \A x \in A : f[x] = k[x]
  PROVE  g[A] = l[A]
<1> DEFINE G == {T \in SUBSET A : g[T] = l[T]}
<1>1. \A T \in SUBSET A : g[T] = Term(f, g, T) /\ l[T] = Term(k, l, T)
  BY DEF Sums
<1>2. ASSUME NEW T \in SUBSET A, \A R \in SUBSET T : R # T => R \in G
      PROVE  T \in G
  <2>1. CASE T = {}
    BY <1>1, <2>1 DEF Term
  <2>2. CASE T # {}
    <3>1. Pick(T) \in T
      BY <2>2, PickIsIn
    <3>2. g[T \ {Pick(T)}] = l[T \ {Pick(T)}] /\ f[Pick(T)] = k[Pick(T)]
      BY <1>2, <3>1
    <3> QED
      BY <1>1, <2>2, <3>2 DEF Term
  <2> QED
    BY <2>1, <2>2
<1>3. IsFiniteSet(A)
  BY FS_Subset
<1> HIDE DEF G
<1>4. SUBSET A \subseteq G
  BY <1>2, <1>3, SubsetInduction
<1> QED
  BY <1>4 DEF G

\* What SumFunction(f) is, for the lemmas below.
LEMMA SumIsSums ==
  ASSUME NEW S, IsFiniteSet(S), NEW f \in [S -> Nat]
  PROVE  \E g : SumFunction(f) = g[S] /\ Sums(f, S, g) /\ AnyOrder(f, S, g)
<1> DEFINE g == CHOOSE g : Sums(f, S, g)
<1>1. Sums(f, S, g)
  BY SumsExist
<1>2. SumFunction(f) = g[S]
  BY SumUnfolds
<1> HIDE DEF g
<1>3. AnyOrder(f, S, g)
  BY <1>1, SumsAnyOrder
<1> QED
  BY <1>1, <1>2, <1>3

\* The sum of a function that is zero everywhere.
LEMMA SumOfZeros ==
  ASSUME NEW S, IsFiniteSet(S), NEW z \in [S -> Nat], \A x \in S : z[x] = 0
  PROVE  SumFunction(z) = 0
<1>1. PICK g : SumFunction(z) = g[S] /\ Sums(z, S, g)
  BY SumIsSums
<1> DEFINE G == {T \in SUBSET S : g[T] = 0}
<1>2. \A T \in SUBSET S : g[T] = Term(z, g, T)
  BY <1>1 DEF Sums
<1>3. ASSUME NEW T \in SUBSET S, \A R \in SUBSET T : R # T => R \in G
      PROVE  T \in G
  <2>1. CASE T = {}
    BY <1>2, <2>1 DEF Term
  <2>2. CASE T # {}
    <3>1. Pick(T) \in T
      BY <2>2, PickIsIn
    <3>2. g[T \ {Pick(T)}] = 0 /\ z[Pick(T)] = 0
      BY <1>3, <3>1
    <3>3. g[T] = z[Pick(T)] + g[T \ {Pick(T)}]
      BY <1>2, <2>2 DEF Term
    <3> QED
      BY <3>2, <3>3
  <2> QED
    BY <2>1, <2>2
<1> HIDE DEF G
<1>4. SUBSET S \subseteq G
  BY <1>3, SubsetInduction
<1> QED
  BY <1>1, <1>4 DEF G

\* Adding to one value adds to the sum.
LEMMA SumOfUpdate ==
  ASSUME NEW S, IsFiniteSet(S), NEW f \in [S -> Nat], NEW x \in S, NEW v \in Nat,
         NEW k \in [S -> Nat], k[x] = f[x] + v, \A y \in S \ {x} : k[y] = f[y]
  PROVE  SumFunction(f) \in Nat /\ SumFunction(k) = SumFunction(f) + v
<1>1. PICK g : SumFunction(f) = g[S] /\ Sums(f, S, g) /\ AnyOrder(f, S, g)
  BY SumIsSums
<1>2. PICK l : SumFunction(k) = l[S] /\ Sums(k, S, l) /\ AnyOrder(k, S, l)
  BY SumIsSums
<1>3. g[S \ {x}] = l[S \ {x}]
  BY <1>1, <1>2, SumsAgree
<1>4. S \in SUBSET S /\ S \ {x} \in SUBSET S
  OBVIOUS
<1>5. g[S] = f[x] + g[S \ {x}] /\ g[S \ {x}] \in Nat /\ g[S] \in Nat
  BY <1>1, <1>4 DEF AnyOrder
<1>6. l[S] = k[x] + l[S \ {x}]
  BY <1>2, <1>4 DEF AnyOrder
<1>7. f[x] \in Nat
  OBVIOUS
<1> QED
  BY <1>1, <1>2, <1>3, <1>5, <1>6, <1>7

-----------------------------------------------------------------------------
(* The least element                                                       *)

\* A set of numbers that is not empty has a least element.
LEMMA LeastExists ==
  ASSUME NEW T, T \subseteq Nat, T # {}
  PROVE  \E x \in T : \A y \in T : x <= y
<1> DEFINE Less == {ss \in Nat \X Nat : ss[1] < ss[2]}
<1>1. IsWellFoundedOn(Less, Nat)
  BY NatLessThanWellFounded, Zenon DEF OpToRel
<1> HIDE DEF Less
<1>2. PICK x \in T : \A y \in T : ~(<<y, x>> \in Less)
  BY <1>1, WFMin, Zenon
<1>3. \A y \in T : x <= y
  <2> SUFFICES ASSUME NEW y \in T PROVE x <= y
    OBVIOUS
  <2>1. y \in Nat /\ x \in Nat
    OBVIOUS
  <2>2. ~(<<y, x>> \in Less)
    BY <1>2
  <2>3. y < x => <<y, x>> \in Less
    BY <2>1 DEF Less
  <2> QED
    BY <2>1, <2>2, <2>3
<1> QED
  BY <1>3

\* What Min of the community modules chooses is there.
LEMMA LeastIsMember ==
  ASSUME NEW T, T \subseteq Nat, T # {}
  PROVE  (CHOOSE x \in T : \A y \in T : x <= y) \in T
BY LeastExists

-----------------------------------------------------------------------------
(* Division                                                                *)

\* Element i of the k-th of groups of n.
LEMMA GroupOf ==
  ASSUME NEW n \in Nat \ {0}, NEW k \in Nat, NEW i \in 0 .. n - 1
  PROVE  (k * n + i) \div n = k /\ (k * n + i) % n = i
<1> DEFINE q == (k * n + i) \div n
           r == (k * n + i) % n
<1>1. /\ k * n \in Nat /\ q \in Int /\ r \in 0 .. n - 1
      /\ k * n + i = q * n + r
  OBVIOUS
<1> HIDE DEF q, r
<1>2. (k - q) * n = r - i
  BY <1>1
<1>3. CASE k - q >= 1
  <2>1. (k - q) * n >= n
    BY <1>1, <1>3
  <2> QED
    BY <1>1, <1>2, <2>1
<1>4. CASE k - q <= -1
  <2>1. (k - q) * n <= -n
    BY <1>1, <1>4
  <2> QED
    BY <1>1, <1>2, <2>1
<1>5. CASE k = q
  <2>1. (k - q) * n = 0
    BY <1>5, <1>1
  <2> QED
    BY <1>1, <1>2, <1>5, <2>1 DEF q, r
<1> QED
  BY <1>1, <1>3, <1>4, <1>5

\* Quotient and remainder, and when the next number has the same quotient.
LEMMA QuotientRemainder ==
  ASSUME NEW n \in Nat \ {0}, NEW u \in Nat
  PROVE  /\ u \div n \in Nat /\ u % n \in 0 .. n - 1
         /\ (u \div n) * n + (u % n) = u
<1> DEFINE q == u \div n
           r == u % n
<1>1. q \in Int /\ r \in 0 .. n - 1 /\ u = q * n + r
  OBVIOUS
<1> HIDE DEF q, r
<1>2. ASSUME q <= -1
      PROVE  FALSE
  <2>1. q * n <= -n
    BY <1>1, <1>2
  <2> QED
    BY <1>1, <2>1
<1>3. q \in Nat
  BY <1>1, <1>2
<1> QED
  BY <1>1, <1>3 DEF q, r

LEMMA SameQuotient ==
  ASSUME NEW n \in Nat \ {0}, NEW u \in Nat, (u + 1) % n # 0
  PROVE  (u + 1) \div n = u \div n
<1> DEFINE k == (u + 1) \div n
           i == ((u + 1) % n) - 1
<1>1. k \in Nat /\ i \in 0 .. n - 1 /\ u = k * n + i
  BY QuotientRemainder
<1>2. (k * n + i) \div n = k
  <2> HIDE DEF k, i
  <2> QED
    BY <1>1, GroupOf
<1> QED
  BY <1>1, <1>2
=============================================================================
