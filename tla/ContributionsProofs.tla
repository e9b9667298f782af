------------------------ MODULE ContributionsProofs ------------------------
(***************************************************************************)
(* Proofs about Contributions, for every value of its constants.           *)
(*                                                                         *)
(* Inv (the types, truthful rows, and what every payment in progress knows *)
(* of its own rows) is inductive for any number of calls at once; from it  *)
(* follow TypeCorrect and RowsStayTruthful, and with the balance of every  *)
(* entry BooksBalance.  CoveredInv adds, again for any number of calls,    *)
(* that no payment shows more as paid than was posted and it allocates,    *)
(* and gives NothingPaidUnposted.  Where one call about the member is      *)
(* served at a time (SerialCalls), SerialInv adds that a payment's rows    *)
(* mirror the obligations, and gives TotalsFollowLedger and ArrearsClear;  *)
(* OrderInv adds in which order it allocated, and gives DuesPaidInOrder    *)
(* and CreditOnlyWhenClear.  AsksInv adds to Inv, for any number of calls, *)
(* that a due of a fixed plan asks for something, and gives                *)
(* ReportsOnArrearsAgree.  Totals over sequences and sets are folds of the *)
(* community modules: the first part shows how they change when one        *)
(* element does.                                                           *)
(***************************************************************************)
EXTENDS Contributions, FiniteSetTheorems, SequenceTheorems, WellFoundedInduction, TLAPS

-----------------------------------------------------------------------------
(* Induction, over numbers and over finite sets.  The set of the numbers or *)
(* of the sets that have the property takes the place of the property.      *)

LEMMA Least == ASSUME NEW S \in SUBSET Nat, S # {} PROVE \E n \in S : \A m \in S : n <= m
<1>1. PICK n \in S : \A m \in S : ~ (<<m, n>> \in OpToRel(<, Nat))
  BY WFMin, NatLessThanWellFounded
<1>2. \A m \in S : ~ (m < n)
  BY <1>1 DEF OpToRel
<1>. QED  BY <1>2

LEMMA NatSets ==
  ASSUME NEW T \in SUBSET Nat, 0 \in T, \A n \in T : n + 1 \in T
  PROVE  \A n \in Nat : n \in T
<1>. SUFFICES ASSUME Nat \ T # {} PROVE FALSE
  OBVIOUS
<1>1. PICK n \in Nat \ T : \A m \in Nat \ T : n <= m
  BY Least
<1>2. n - 1 \in Nat /\ ~(n <= n - 1)
  BY <1>1
<1>3. n - 1 \in T
  BY <1>1, <1>2
<1>4. (n - 1) + 1 = n
  BY <1>1
<1>. QED  BY <1>1, <1>3, <1>4

LEMMA MaxOfBounded ==
  ASSUME NEW S \in SUBSET Nat, S # {}, NEW b \in Nat, \A x \in S : x <= b
  PROVE  Max(S) \in S /\ \A x \in S : x <= Max(S)
<1>. DEFINE B == {n \in Nat : \A x \in S : x <= n}
<1>1. B \in SUBSET Nat /\ B # {}
  OBVIOUS
<1>2. PICK n \in B : \A m \in B : n <= m
  BY <1>1, Least
<1>3. n \in S
  <2>. SUFFICES ASSUME n \notin S PROVE FALSE
    OBVIOUS
  <2>1. \A x \in S : x \in Nat /\ x <= n - 1
    BY <1>2
  <2>0. PICK x \in S : x \in Nat /\ x <= n - 1
    BY <2>1
  <2>2. n - 1 \in Nat
    BY <1>2, <2>0
  <2>3. n - 1 \in B /\ ~(n <= n - 1)
    BY <1>2, <2>1, <2>2
  <2>. QED  BY <1>2, <2>3
<1>4. \E x \in S : \A y \in S : x >= y
  BY <1>2, <1>3
<1>5. Max(S) \in S /\ \A y \in S : Max(S) >= y
  BY <1>4 DEF Max
<1>. QED  BY <1>5

LEMMA SetsByRemoval ==
  ASSUME NEW S, IsFiniteSet(S), NEW T,
         \A s \in SUBSET S : (\A x \in s : s \ {x} \in T) => s \in T
  PROVE  \A s \in SUBSET S : s \in T
<1>. DEFINE N == {n \in Nat : \E s \in SUBSET S : s \notin T /\ Cardinality(s) = n}
<1>. SUFFICES ASSUME NEW s0 \in SUBSET S, s0 \notin T PROVE FALSE
  OBVIOUS
<1>1. \A s \in SUBSET S : IsFiniteSet(s) /\ Cardinality(s) \in Nat
  BY FS_Subset, FS_CardinalityType
<1>2. N \in SUBSET Nat /\ N # {}
  BY <1>1
<1>3. PICK n \in N : \A m \in N : n <= m
  BY <1>2, Least
<1>4. PICK s \in SUBSET S : s \notin T /\ Cardinality(s) = n
  BY <1>3
<1>5. ASSUME NEW x \in s PROVE s \ {x} \in T
  <2>1. Cardinality(s \ {x}) = n - 1 /\ n \in Nat
    BY <1>1, <1>4, FS_RemoveElement
  <2>2. s \ {x} \in SUBSET S /\ Cardinality(s \ {x}) \in Nat
    BY <1>1
  <2>3. Cardinality(s \ {x}) \notin N
    <3>1. ~(n <= n - 1)
      BY <2>1
    <3>. HIDE DEF N
    <3>. QED  BY <1>3, <2>1, <3>1
  <2>. QED  BY <2>2, <2>3
<1>. QED  BY <1>4, <1>5

\* A function of the subsets of a finite set can be defined by removing, from
\* each, the element c picks.
Foldable(S, V, base, c, F) ==
    /\ IsFiniteSet(S) /\ base \in V
    /\ \A s \in SUBSET S : s # {} => c[s] \in s
    /\ \A s \in SUBSET S : \A v \in V : s # {} => F[s][v] \in V

IsFold(g, S, V, base, c, F) ==
    /\ g \in [SUBSET S -> V]
    /\ \A s \in SUBSET S : g[s] = IF s = {} THEN base ELSE F[s][g[s \ {c[s]}]]

LEMMA FoldExists ==
  ASSUME NEW S, NEW V, NEW base, NEW c, NEW F, Foldable(S, V, base, c, F)
  PROVE  \E g : IsFold(g, S, V, base, c, F)
<1>. USE DEF Foldable
<1>. DEFINE Next1(g) == [s \in SUBSET S |-> IF s = {} THEN base ELSE F[s][g[s \ {c[s]}]]]
            Good(g, n) == \A s \in SUBSET S : Cardinality(s) <= n => g[s] = Next1(g)[s]
            T == {n \in Nat : \E g \in [SUBSET S -> V] : Good(g, n)}
<1>1. \A s \in SUBSET S : IsFiniteSet(s) /\ Cardinality(s) \in Nat
  BY FS_Subset, FS_CardinalityType
<1>2. 0 \in T
  <2>. DEFINE g == [s \in SUBSET S |-> base]
  <2>1. \A s \in SUBSET S : Cardinality(s) <= 0 => s = {}
    BY <1>1, FS_EmptySet
  <2>2. g \in [SUBSET S -> V] /\ Good(g, 0)
    BY <2>1
  <2>. QED  BY <2>2
<1>3. ASSUME NEW n \in T PROVE n + 1 \in T
  <2>1. PICK g \in [SUBSET S -> V] : Good(g, n)
    OBVIOUS
  <2>2. PICK h : h = Next1(g)
    OBVIOUS
  <2>3. \A s \in SUBSET S : s # {} => c[s] \in s /\ s \ {c[s]} \in SUBSET S
    OBVIOUS
  <2>4. h \in [SUBSET S -> V]
    BY <2>2, <2>3
  <2>5. ASSUME NEW s \in SUBSET S, Cardinality(s) <= n + 1 PROVE h[s] = Next1(h)[s]
    <3>1. CASE s = {}
      BY <2>2, <3>1
    <3>2. CASE s # {}
      <4>1. s \ {c[s]} \in SUBSET S /\ Cardinality(s \ {c[s]}) <= n
        <5>1. s \ {c[s]} \in SUBSET S /\ Cardinality(s \ {c[s]}) = Cardinality(s) - 1
          BY <1>1, <2>3, <3>2, FS_RemoveElement
        <5>. QED  BY <1>1, <1>3, <2>5, <5>1
      <4>2. g[s \ {c[s]}] = h[s \ {c[s]}]
        BY <2>1, <2>2, <4>1
      <4>3. h[s] = F[s][g[s \ {c[s]}]]
        BY <2>2, <3>2
      <4>. QED  BY <3>2, <4>2, <4>3
    <3>. QED  BY <3>1, <3>2
  <2>6. Good(h, n + 1)
    BY <2>5
  <2>7. n + 1 \in Nat
    OBVIOUS
  <2>. HIDE DEF Good
  <2>. QED  BY <2>4, <2>6, <2>7
<1>4. Cardinality(S) \in Nat /\ \A s \in SUBSET S : Cardinality(s) <= Cardinality(S)
  BY FS_CardinalityType, FS_Subset
<1>5. Cardinality(S) \in T
  <2>1. T \in SUBSET Nat
    OBVIOUS
  <2>. HIDE DEF T
  <2>. QED  BY <1>2, <1>3, <1>4, <2>1, NatSets
<1>6. PICK g \in [SUBSET S -> V] : Good(g, Cardinality(S))
  BY <1>5
<1>7. \A s \in SUBSET S : g[s] = IF s = {} THEN base ELSE F[s][g[s \ {c[s]}]]
  BY <1>4, <1>6
<1>. QED  BY <1>7 DEF IsFold

-----------------------------------------------------------------------------
(* Sums of a function over a finite set. *)

Total(f, S) == MapThenSumSet(LAMBDA x : f[x], S)

\* The sums over the subsets of S, as the fold computes them.
IsTotals(g, f, S) ==
    \A s \in SUBSET S :
        /\ g[s] \in Int
        /\ g[s] = IF s = {} THEN 0
                  ELSE f[CHOOSE x \in s : TRUE] + g[s \ {CHOOSE x \in s : TRUE}]

LEMMA TotalsUnique ==
  ASSUME NEW S, IsFiniteSet(S), NEW f, NEW g, NEW R \in SUBSET S, NEW h,
         IsTotals(g, f, S), IsTotals(h, f, R)
  PROVE  g[R] = h[R]
<1>. DEFINE T == {s \in SUBSET R : g[s] = h[s]}
<1>1. IsFiniteSet(R)
  BY FS_Subset
<1>2. ASSUME NEW s \in SUBSET R, \A x \in s : s \ {x} \in T PROVE s \in T
  <2>1. CASE s = {}
    BY <2>1 DEF IsTotals
  <2>2. CASE s # {}
    <3>1. PICK c \in s : c = CHOOSE x \in s : TRUE
      BY <2>2
    <3>2. g[s \ {c}] = h[s \ {c}]
      BY <1>2
    <3>3. g[s] = f[c] + g[s \ {c}] /\ h[s] = f[c] + h[s \ {c}]
      BY <2>2, <3>1 DEF IsTotals
    <3>. QED  BY <3>2, <3>3
  <2>. QED  BY <2>1, <2>2
<1>. HIDE DEF T
<1>3. R \in T
  BY <1>1, <1>2, SetsByRemoval
<1>. QED  BY <1>3 DEF T

LEMMA TotalsExist ==
  ASSUME NEW S, IsFiniteSet(S), NEW f, \A x \in S : f[x] \in Int
  PROVE  \E g : IsTotals(g, f, S) /\ Total(f, S) = g[S]
<1>. DEFINE c == [s \in SUBSET S |-> CHOOSE x \in s : TRUE]
            F == [s \in SUBSET S |-> [v \in Int |-> f[CHOOSE x \in s : TRUE] + v]]
            Rec(g) == [s \in SUBSET S |->
                          IF s = {} THEN 0
                          ELSE f[CHOOSE x \in s : TRUE] + g[s \ {CHOOSE x \in s : TRUE}]]
<1>1. \A s \in SUBSET S : s # {} => (CHOOSE x \in s : TRUE) \in s
  OBVIOUS
<1>2. \A s \in SUBSET S : s # {} => c[s] \in s
  BY <1>1
<1>3. \A s \in SUBSET S : \A v \in Int : s # {} => F[s][v] \in Int
  BY <1>1
<1>4. PICK g \in [SUBSET S -> Int] : \A s \in SUBSET S :
         g[s] = IF s = {} THEN 0 ELSE F[s][g[s \ {c[s]}]]
  <2>. HIDE DEF F, c, Rec
  <2>1. Foldable(S, Int, 0, c, F)
    BY <1>2, <1>3 DEF Foldable
  <2>2. PICK g : IsFold(g, S, Int, 0, c, F)
    BY <2>1, FoldExists
  <2>. QED  BY <2>2 DEF IsFold
<1>5. g = Rec(g)
  <2>1. \A s \in SUBSET S : g[s] = Rec(g)[s]
    <3>. SUFFICES ASSUME NEW s \in SUBSET S PROVE g[s] = Rec(g)[s]
      OBVIOUS
    <3>1. g[s \ {c[s]}] \in Int
      OBVIOUS
    <3>. QED  BY <1>4, <3>1
  <2>. QED  BY <2>1
<1>6. PICK r : r = Rec(r) /\ r = CHOOSE h : h = Rec(h)
  BY <1>5
<1>7. \A s \in SUBSET S : r[s] = IF s = {} THEN 0 ELSE
             f[CHOOSE x \in s : TRUE] + r[s \ {CHOOSE x \in s : TRUE}]
  BY <1>6
<1>8. \A s \in SUBSET S : r[s] \in Int
  <2>. DEFINE T == {s \in SUBSET S : r[s] \in Int}
  <2>1. ASSUME NEW s \in SUBSET S, \A x \in s : s \ {x} \in T PROVE s \in T
    <3>1. CASE s = {}
      <4>1. r[s] = 0
        BY <1>7, <3>1
      <4>2. r[s] \in Int
        BY <4>1
      <4>. QED  BY <4>2
    <3>2. CASE s # {}
      <4>1. PICK x \in s : x = CHOOSE y \in s : TRUE
        BY <3>2
      <4>2. r[s] = f[x] + r[s \ {x}]
        BY <1>7, <3>2, <4>1
      <4>3. r[s \ {x}] \in Int /\ f[x] \in Int
        BY <2>1
      <4>4. r[s] \in Int
        <5>1. \A a, b \in Int : a + b \in Int
          OBVIOUS
        <5>. QED  BY <4>2, <4>3, <5>1
      <4>. QED  BY <4>4
    <3>. QED  BY <3>1, <3>2
  <2>2. \A s \in SUBSET S : s \in T
    <3>. HIDE DEF T
    <3>. QED  BY <2>1, SetsByRemoval
  <2>. QED  BY <2>2
<1>9. Total(f, S) = r[S]
  BY <1>6, Zenon DEF Total, MapThenSumSet, MapThenFoldSet
<1>. QED  BY <1>7, <1>8, <1>9 DEF IsTotals

\* The sum does not depend on the order in which elements are picked.
LEMMA TotalRemove ==
  ASSUME NEW S, IsFiniteSet(S), NEW f, \A x \in S : f[x] \in Int, NEW y \in S
  PROVE  /\ Total(f, S) = f[y] + Total(f, S \ {y})
         /\ Total(f, S) \in Int /\ Total(f, S \ {y}) \in Int
<1>1. PICK g : IsTotals(g, f, S) /\ Total(f, S) = g[S]
  BY TotalsExist
<1>2. IsFiniteSet(S \ {y}) /\ \A x \in S \ {y} : f[x] \in Int
  BY FS_RemoveElement
<1>3. PICK h : IsTotals(h, f, S \ {y}) /\ Total(f, S \ {y}) = h[S \ {y}]
  BY <1>2, TotalsExist
<1>4. g[S \ {y}] = Total(f, S \ {y})
  BY <1>1, <1>3, TotalsUnique
<1>. DEFINE T == {s \in SUBSET S : \A x \in s : g[s] = f[x] + g[s \ {x}]}
<1>5. ASSUME NEW s \in SUBSET S, \A x \in s : s \ {x} \in T PROVE s \in T
  <2>. SUFFICES ASSUME NEW x \in s PROVE g[s] = f[x] + g[s \ {x}]
    OBVIOUS
  <2>1. PICK c \in s : c = CHOOSE z \in s : TRUE
    OBVIOUS
  <2>2. g[s] = f[c] + g[s \ {c}]
    BY <1>1, <2>1 DEF IsTotals
  <2>3. CASE x = c
    BY <2>2, <2>3
  <2>4. CASE x # c
    <3>1. g[s \ {c}] = f[x] + g[(s \ {c}) \ {x}]
      BY <1>5, <2>4
    <3>2. g[s \ {x}] = f[c] + g[(s \ {x}) \ {c}]
      BY <1>5, <2>4
    <3>3. g[(s \ {c}) \ {x}] = g[(s \ {x}) \ {c}]
      <4>1. (s \ {c}) \ {x} = (s \ {x}) \ {c}
        OBVIOUS
      <4>. QED  BY <4>1
    <3>4. f[x] \in Int /\ f[c] \in Int /\ g[(s \ {x}) \ {c}] \in Int
      BY <1>1 DEF IsTotals
    <3>5. PICK n \in Int : n = g[(s \ {x}) \ {c}]
      BY <3>4
    <3>. QED  BY <2>2, <3>1, <3>2, <3>3, <3>4, <3>5
  <2>. QED  BY <2>3, <2>4
<1>6. S \in T
  <2>1. S \in SUBSET S
    OBVIOUS
  <2>. HIDE DEF T
  <2>. QED  BY <1>5, <2>1, SetsByRemoval
<1>7. g[S] \in Int /\ g[S \ {y}] \in Int
  BY <1>1 DEF IsTotals
<1>. QED  BY <1>1, <1>4, <1>6, <1>7

LEMMA TotalEmpty == ASSUME NEW f PROVE Total(f, {}) = 0
<1>1. PICK g : IsTotals(g, f, {}) /\ Total(f, {}) = g[{}]
  BY TotalsExist, FS_EmptySet
<1>. QED  BY <1>1 DEF IsTotals

LEMMA TotalType ==
  ASSUME NEW S, IsFiniteSet(S), NEW f, \A x \in S : f[x] \in Int
  PROVE  Total(f, S) \in Int
<1>1. PICK g : IsTotals(g, f, S) /\ Total(f, S) = g[S]
  BY TotalsExist
<1>. QED  BY <1>1 DEF IsTotals

LEMMA TotalAdd ==
  ASSUME NEW S, IsFiniteSet(S), NEW f, NEW g, NEW h,
         \A x \in S : f[x] \in Int /\ g[x] \in Int /\ h[x] = f[x] + g[x]
  PROVE  Total(h, S) = Total(f, S) + Total(g, S)
<1>. DEFINE T == {s \in SUBSET S : Total(h, s) = Total(f, s) + Total(g, s)}
<1>1. ASSUME NEW s \in SUBSET S, \A x \in s : s \ {x} \in T PROVE s \in T
  <2>1. CASE s = {}
    BY <2>1, TotalEmpty
  <2>2. CASE s # {}
    <3>1. PICK x \in s : TRUE
      BY <2>2
    <3>2. IsFiniteSet(s) /\ \A z \in s : h[z] \in Int /\ f[z] \in Int /\ g[z] \in Int
      BY FS_Subset
    <3>3. /\ Total(h, s) = h[x] + Total(h, s \ {x})
          /\ Total(f, s) = f[x] + Total(f, s \ {x})
          /\ Total(g, s) = g[x] + Total(g, s \ {x})
          /\ Total(f, s \ {x}) \in Int /\ Total(g, s \ {x}) \in Int
      BY <3>2, TotalRemove
    <3>4. Total(h, s \ {x}) = Total(f, s \ {x}) + Total(g, s \ {x})
      BY <1>1
    <3>. QED  BY <3>2, <3>3, <3>4
  <2>. QED  BY <2>1, <2>2
<1>2. S \in T
  <2>1. S \in SUBSET S
    OBVIOUS
  <2>. HIDE DEF T
  <2>. QED  BY <1>1, <2>1, SetsByRemoval
<1>. QED  BY <1>2

LEMMA TotalEqual ==
  ASSUME NEW S, IsFiniteSet(S), NEW f, NEW h, \A x \in S : f[x] \in Int /\ h[x] = f[x]
  PROVE  Total(h, S) = Total(f, S)
<1>. DEFINE g == [x \in S |-> 0]
            T == {s \in SUBSET S : Total(g, s) = 0}
<1>1. ASSUME NEW s \in SUBSET S, \A x \in s : s \ {x} \in T PROVE s \in T
  <2>1. CASE s = {}
    BY <2>1, TotalEmpty
  <2>2. CASE s # {}
    <3>1. PICK x \in s : TRUE
      BY <2>2
    <3>2. IsFiniteSet(s) /\ g[x] = 0 /\ \A z \in s : g[z] \in Int
      BY FS_Subset
    <3>3. Total(g, s) = g[x] + Total(g, s \ {x})
      <4>. HIDE DEF g
      <4>. QED  BY <3>2, TotalRemove
    <3>4. Total(g, s \ {x}) = 0
      BY <1>1
    <3>. QED  BY <3>2, <3>3, <3>4
  <2>. QED  BY <2>1, <2>2
<1>2. Total(g, S) = 0
  <2>1. S \in T
    <3>1. S \in SUBSET S
      OBVIOUS
    <3>. HIDE DEF T
    <3>. QED  BY <1>1, <3>1, SetsByRemoval
  <2>. QED  BY <2>1
<1>3. \A x \in S : g[x] \in Int /\ h[x] = f[x] + g[x]
  OBVIOUS
<1>4. Total(h, S) = Total(f, S) + Total(g, S)
  <2>. HIDE DEF g
  <2>. QED  BY <1>3, TotalAdd
<1>. QED  BY <1>2, <1>4, TotalType

LEMMA TotalUpdate ==
  ASSUME NEW S, IsFiniteSet(S), NEW f, \A x \in S : f[x] \in Int, NEW y \in S, NEW d \in Int,
         NEW h, \A x \in S : h[x] = IF x = y THEN f[x] + d ELSE f[x]
  PROVE  Total(h, S) = Total(f, S) + d
<1>1. IsFiniteSet(S \ {y}) /\ \A x \in S : h[x] \in Int
  BY FS_RemoveElement
<1>2. Total(h, S \ {y}) = Total(f, S \ {y})
  BY <1>1, TotalEqual
<1>3. /\ Total(f, S) = f[y] + Total(f, S \ {y}) /\ Total(h, S) = h[y] + Total(h, S \ {y})
      /\ Total(f, S \ {y}) \in Int
  BY <1>1, TotalRemove
<1>. QED  BY <1>2, <1>3

-----------------------------------------------------------------------------
(* Sums of sequences. *)

\* Of a set of places of a sequence, the last.
LEMMA LastPlace ==
  ASSUME NEW n \in Nat, NEW s \in SUBSET (1..n), s # {}
  PROVE  Max(s) \in s /\ \A i \in s : i <= Max(s)
<1>1. s \in SUBSET Nat /\ \A i \in s : i <= n
  OBVIOUS
<1>. QED  BY <1>1, MaxOfBounded

LEMMA Places == ASSUME NEW n \in Nat PROVE IsFiniteSet(1..n)
  BY FS_Interval

LEMMA FoldLeftTotal ==
  ASSUME NEW q \in Seq(Int)
  PROVE  FoldLeft(+, 0, q) = Total(q, DOMAIN q)
<1>. DEFINE n == Len(q)
            D == DOMAIN q
            c == [s \in SUBSET D |-> Max(s)]
            F == [s \in SUBSET D |-> [v \in Int |-> v + q[Max(s)]]]
            Rec(g) == [s \in SUBSET D |->
                          IF s = {} THEN 0 ELSE g[s \ {Max(s)}] + q[Max(s)]]
<1>1. n \in Nat /\ D = 1..n /\ IsFiniteSet(D) /\ \A i \in D : q[i] \in Int
  BY Places
<1>2. \A s \in SUBSET D : s # {} => Max(s) \in s
  BY <1>1, LastPlace
<1>3. PICK g \in [SUBSET D -> Int] : \A s \in SUBSET D :
         g[s] = IF s = {} THEN 0 ELSE F[s][g[s \ {c[s]}]]
  <2>1. \A s \in SUBSET D : s # {} => c[s] \in s
    BY <1>2
  <2>2. \A s \in SUBSET D : \A v \in Int : s # {} => F[s][v] \in Int
    BY <1>1, <1>2
  <2>. HIDE DEF F, c, Rec, D
  <2>3. Foldable(D, Int, 0, c, F)
    BY <1>1, <2>1, <2>2 DEF Foldable
  <2>4. PICK g : IsFold(g, D, Int, 0, c, F)
    BY <2>3, FoldExists
  <2>. QED  BY <2>4 DEF IsFold
<1>4. g = Rec(g)
  <2>. SUFFICES ASSUME NEW s \in SUBSET D PROVE g[s] = Rec(g)[s]
    OBVIOUS
  <2>1. g[s \ {c[s]}] \in Int
    OBVIOUS
  <2>. QED  BY <1>3, <2>1
<1>5. PICK r : r = Rec(r) /\ r = CHOOSE h : h = Rec(h)
  BY <1>4
<1>6. FoldLeft(+, 0, q) = r[D]
  BY <1>5, Zenon DEF FoldLeft, MapThenFoldSet
<1>. DEFINE T == {s \in SUBSET D : r[s] = Total(q, s)}
<1>7. ASSUME NEW s \in SUBSET D, \A x \in s : s \ {x} \in T PROVE s \in T
  <2>1. CASE s = {}
    BY <1>5, <2>1, TotalEmpty
  <2>2. CASE s # {}
    <3>1. PICK x \in s : x = Max(s)
      BY <1>2, <2>2
    <3>2. r[s] = Total(q, s \ {x}) + q[x]
      BY <1>5, <1>7, <2>2, <3>1
    <3>3. IsFiniteSet(s) /\ \A i \in s : q[i] \in Int
      BY <1>1, FS_Subset
    <3>4. /\ Total(q, s) = q[x] + Total(q, s \ {x})
          /\ Total(q, s \ {x}) \in Int /\ q[x] \in Int
      BY <3>3, TotalRemove
    <3>5. r[s] = Total(q, s)
      BY <3>2, <3>4
    <3>. QED  BY <3>5
  <2>. QED  BY <2>1, <2>2
<1>8. D \in T
  <2>1. D \in SUBSET D
    OBVIOUS
  <2>2. PICK d : d = D
    OBVIOUS
  <2>3. IsFiniteSet(d) /\ \A s \in SUBSET d : (\A x \in s : s \ {x} \in T) => s \in T
    BY <1>1, <1>7, <2>2
  <2>. HIDE DEF T, D
  <2>4. \A s \in SUBSET d : s \in T
    BY <2>3, SetsByRemoval
  <2>. QED  BY <2>1, <2>2, <2>4
<1>9. r[D] = Total(q, D)
  BY <1>8
<1>. QED  BY <1>6, <1>9

\* The first n elements.
LEMMA TotalFirst ==
  ASSUME NEW n \in Nat, NEW f, \A i \in 1..(n + 1) : f[i] \in Int
  PROVE  /\ Total(f, 1..(n + 1)) = Total(f, 1..n) + f[n + 1]
         /\ Total(f, 1..n) \in Int
<1>1. PICK S : S = 1..(n + 1)
  OBVIOUS
<1>2. IsFiniteSet(S) /\ n + 1 \in S /\ \A i \in S : f[i] \in Int
  BY <1>1, Places
<1>3. S \ {n + 1} = 1..n
  BY <1>1
<1>4. /\ Total(f, S) = f[n + 1] + Total(f, S \ {n + 1})
      /\ Total(f, S) \in Int /\ Total(f, S \ {n + 1}) \in Int
  BY <1>2, TotalRemove
<1>5. f[n + 1] \in Int /\ Total(f, 1..n) \in Int /\ Total(f, 1..(n + 1)) = f[n + 1] + Total(f, 1..n)
  BY <1>1, <1>2, <1>3, <1>4
<1>. QED  BY <1>5

\* A sequence of which the first k elements are those of f, and the others
\* those of g.
Joins(h, f, k, g, m) ==
    /\ k \in Nat /\ m \in Nat
    /\ \A i \in 1..k : f[i] \in Int /\ h[i] = f[i]
    /\ \A i \in 1..m : g[i] \in Int /\ h[k + i] = g[i]

LEMMA TotalConcat ==
  ASSUME NEW k, NEW m, NEW f, NEW g, NEW h, Joins(h, f, k, g, m)
  PROVE  Total(h, 1..(k + m)) = Total(f, 1..k) + Total(g, 1..m)
<1>. USE DEF Joins
<1>. DEFINE T == {j \in Nat : j <= m => Total(h, 1..(k + j)) = Total(f, 1..k) + Total(g, 1..j)}
<1>1. 0 \in T
  <2>1. Total(h, 1..k) = Total(f, 1..k) /\ Total(f, 1..k) \in Int
    BY Places, TotalEqual, TotalType
  <2>2. Total(g, 1..0) = 0
    <3>1. 1..0 = {}
      OBVIOUS
    <3>. QED  BY <3>1, TotalEmpty
  <2>3. k + 0 = k
    OBVIOUS
  <2>. QED  BY <2>1, <2>2, <2>3
<1>2. ASSUME NEW j \in T PROVE j + 1 \in T
  <2>. SUFFICES ASSUME j + 1 <= m
       PROVE Total(h, 1..(k + (j + 1))) = Total(f, 1..k) + Total(g, 1..(j + 1))
    OBVIOUS
  <2>1. j \in Nat /\ k + j \in Nat /\ k + (j + 1) = (k + j) + 1
    OBVIOUS
  <2>2. Total(h, 1..(k + j)) = Total(f, 1..k) + Total(g, 1..j)
    BY <2>1
  <2>3. \A i \in 1..((k + j) + 1) : h[i] \in Int
    <3>. SUFFICES ASSUME NEW i \in 1..((k + j) + 1) PROVE h[i] \in Int
      OBVIOUS
    <3>1. CASE i <= k
      BY <3>1
    <3>2. CASE i > k
      <4>1. i - k \in 1..m /\ k + (i - k) = i
        BY <2>1, <3>2
      <4>. QED  BY <4>1
    <3>. QED  BY <3>1, <3>2
  <2>4. Total(h, 1..((k + j) + 1)) = Total(h, 1..(k + j)) + h[(k + j) + 1]
    BY <2>1, <2>3, TotalFirst
  <2>5. Total(g, 1..(j + 1)) = Total(g, 1..j) + g[j + 1] /\ Total(g, 1..j) \in Int
    BY <2>1, TotalFirst
  <2>6. h[k + (j + 1)] = g[j + 1] /\ g[j + 1] \in Int
    BY <2>1
  <2>7. Total(f, 1..k) \in Int
    BY Places, TotalType
  <2>. QED  BY <2>1, <2>2, <2>4, <2>5, <2>6, <2>7
<1>3. m \in T
  <2>1. T \in SUBSET Nat
    OBVIOUS
  <2>. HIDE DEF T
  <2>. QED  BY <1>1, <1>2, <2>1, NatSets
<1>. QED  BY <1>3

-----------------------------------------------------------------------------
(* What an allocation does to a row and to the call. *)

Kinds == {"fixed", "minimum", "voluntary"}

\* A row's status says what its amounts say (StatusTruthful, of one row).
Truthful(o) ==
    /\ o.paid <= o.amount
    /\ o.status = "PAID" => o.paid = o.amount
    /\ o.status = "PARTIALLY_PAID" => 0 < o.paid /\ o.paid < o.amount
    /\ o.status \in {"UPCOMING", "DUE"} => o.paid = 0

LEMMA PartBounds ==
  ASSUME NEW kind \in Kinds, NEW owed \in Int, NEW R \in Nat, R > 0,
         kind = "voluntary" \/ owed > 0
  PROVE  /\ Part(kind, owed, R) \in Nat /\ Part(kind, owed, R) > 0
         /\ Part(kind, owed, R) <= R
         /\ kind = "fixed" => Part(kind, owed, R) <= owed
         /\ Part(kind, owed, R) < R => kind = "fixed" /\ Part(kind, owed, R) = owed
  BY DEF Part, Kinds

\* The row after its part was put on it.
PaidRow(o, kind, part) ==
    [o EXCEPT !.paid = PaidAfter(o, part),
              !.amount = AmountAfter(o, kind, part),
              !.status = StatusAfter(PaidAfter(o, part), AmountAfter(o, kind, part))]

LEMMA PaidRowResult ==
  ASSUME NEW o \in Row, Truthful(o), NEW kind \in Kinds, NEW part \in Nat, part > 0,
         kind = "fixed" => part <= o.amount - o.paid
  PROVE  LET n == PaidRow(o, kind, part) IN
         /\ n \in Row /\ Truthful(n)
         /\ n.plan = o.plan /\ n.due = o.due /\ n.paid = o.paid + part
         /\ kind = "fixed" /\ part = o.amount - o.paid => n.status = "PAID"
<1>. DEFINE p == o.paid + part
            a == AmountAfter(o, kind, part)
            n == PaidRow(o, kind, part)
<1>1. o.paid \in Nat /\ o.amount \in Nat /\ o.paid <= o.amount
  BY DEF Row, Truthful
<1>2. p \in Nat /\ p > 0 /\ a \in Nat /\ p <= a
  <2>1. p \in Nat /\ p > 0
    BY <1>1
  <2>2. PICK x, y : x = o.amount /\ y = o.paid
    OBVIOUS
  <2>3. x \in Nat /\ y \in Nat /\ y <= x /\ p = y + part
    BY <1>1, <2>2
  <2>4. a = IF kind = "voluntary" \/ (kind = "minimum" /\ part > x - y) THEN y + part ELSE x
    BY <2>2 DEF AmountAfter
  <2>5. kind = "fixed" => part <= x - y
    BY <2>2
  <2>6. CASE kind = "fixed"
    BY <2>1, <2>2, <2>3, <2>4, <2>5, <2>6
  <2>7. CASE kind = "minimum"
    BY <2>1, <2>2, <2>3, <2>4, <2>7
  <2>8. CASE kind = "voluntary"
    BY <2>1, <2>2, <2>3, <2>4, <2>8
  <2>. QED  BY <2>6, <2>7, <2>8 DEF Kinds
<1>3. kind = "fixed" => a = o.amount
  BY DEF AmountAfter
<1>4. n = [o EXCEPT !.paid = p, !.amount = a, !.status = StatusAfter(p, a)]
  BY DEF PaidRow, PaidAfter
<1>. HIDE DEF n, p, a
<1>5. StatusAfter(p, a) = (IF p = a THEN "PAID" ELSE "PARTIALLY_PAID")
  BY <1>2 DEF StatusAfter
<1>6. /\ n \in Row /\ n.plan = o.plan /\ n.due = o.due /\ n.paid = p /\ n.amount = a
      /\ n.status = IF p = a THEN "PAID" ELSE "PARTIALLY_PAID"
  BY <1>2, <1>4, <1>5 DEF Row, Open
<1>7. Truthful(n)
  BY <1>2, <1>6 DEF Truthful
<1>8. kind = "fixed" /\ part = o.amount - o.paid => p = a
  BY <1>1, <1>3 DEF p
<1>. QED  BY <1>2, <1>6, <1>7, <1>8 DEF p, n

\* r is the call c with what Apply puts on row i.
Allocates(c, r, i, kind) ==
    /\ r \in PayCall
    /\ r.op = c.op /\ r.amount = c.amount /\ r.fund = c.fund /\ r.before = c.before
    /\ r.known = c.known /\ r.dues = c.dues /\ r.items = c.items /\ r.mixed = c.mixed
    /\ r.month = c.month /\ r.tail = c.tail /\ r.extended = c.extended
    /\ Len(r.rows) = Len(c.rows) /\ Len(r.applied) = Len(c.applied)
    /\ \A j \in DOMAIN c.rows :
          j # i => r.rows[j] = c.rows[j] /\ r.applied[j] = c.applied[j]
    /\ r.rows[i].plan = c.rows[i].plan /\ r.rows[i].due = c.rows[i].due
    /\ r.rows[i].paid = c.rows[i].paid + r.applied[i]
    /\ Truthful(r.rows[i])
    /\ r.remaining = c.remaining - r.applied[i]
    /\ r.applied[i] > 0 => r.touched # <<>>
    /\ c.touched # <<>> => r.touched # <<>>
    /\ r.applied[i] > 0 /\ r.remaining > 0 => r.rows[i].status = "PAID"
    /\ r.applied[i] = 0 => /\ r.rows[i] = c.rows[i]
                           /\ kind # "voluntary" /\ c.rows[i].amount <= c.rows[i].paid

LEMMA TouchResult ==
  ASSUME NEW q \in Seq(Plans), NEW p \in Plans
  PROVE  Touch(q, p) \in Seq(Plans) /\ Touch(q, p) # <<>>
<1>1. CASE \E j \in DOMAIN q : q[j] = p
  BY <1>1, EmptySeq DEF Touch
<1>2. CASE ~ \E j \in DOMAIN q : q[j] = p
  <2>1. Touch(q, p) = Append(q, p)
    BY <1>2 DEF Touch
  <2>2. Append(q, p) \in Seq(Plans) /\ Len(Append(q, p)) = Len(q) + 1 /\ Len(q) \in Nat
    BY AppendProperties
  <2>. QED  BY <2>1, <2>2, EmptySeq
<1>. QED  BY <1>1, <1>2

LEMMA ApplyResult ==
  ASSUME NEW c \in PayCall, NEW i \in DOMAIN c.rows, Len(c.applied) = Len(c.rows),
         Truthful(c.rows[i]), NEW kind \in Kinds, c.remaining > 0, c.applied[i] = 0
  PROVE  Allocates(c, Apply(c, i, kind), i, kind)
<1>. DEFINE o == c.rows[i]
            part == Part(kind, o.amount - o.paid, c.remaining)
            r == Apply(c, i, kind)
<1>1. /\ c.rows \in Seq(Row) /\ c.applied \in Seq(Nat) /\ c.touched \in Seq(Plans)
      /\ c.remaining \in Nat
  BY DEF PayCall
<1>2. /\ i \in 1..Len(c.rows) /\ i \in 1..Len(c.applied)
      /\ DOMAIN c.rows = 1..Len(c.rows) /\ Len(c.rows) \in Nat
  BY <1>1, LenProperties
<1>3. o \in Row /\ o.amount \in Nat /\ o.paid \in Nat /\ o.plan \in Plans
  <2>1. o \in Row
    BY <1>1, <1>2, ElementOfSeq
  <2>. HIDE DEF o
  <2>. QED  BY <2>1 DEF Row
<1>4. CASE kind # "voluntary" /\ o.amount - o.paid <= 0
  <2>1. r = c
    BY <1>4 DEF Apply
  <2>2. o.amount <= o.paid
    BY <1>3, <1>4
  <2>. QED  BY <1>1, <1>3, <1>4, <2>1, <2>2 DEF Allocates
<1>5. CASE ~(kind # "voluntary" /\ o.amount - o.paid <= 0)
  <2>1. /\ part \in Nat /\ part > 0 /\ part <= c.remaining
        /\ kind = "fixed" => part <= o.amount - o.paid
        /\ part < c.remaining => kind = "fixed" /\ part = o.amount - o.paid
    <3>1. PICK owed \in Int : owed = o.amount - o.paid
      BY <1>3
    <3>2. kind = "voluntary" \/ owed > 0
      BY <1>5, <3>1
    <3>3. part = Part(kind, owed, c.remaining)
      BY <3>1
    <3>. HIDE DEF part
    <3>. QED  BY <1>1, <3>1, <3>2, <3>3, PartBounds
  <2>2. PICK n : n = PaidRow(o, kind, part)
    OBVIOUS
  <2>3. /\ n \in Row /\ Truthful(n)
        /\ n.plan = o.plan /\ n.due = o.due /\ n.paid = o.paid + part
        /\ kind = "fixed" /\ part = o.amount - o.paid => n.status = "PAID"
    BY <1>3, <2>1, <2>2, PaidRowResult
  <2>4. PICK rows, applied, touched :
           /\ rows = [c.rows EXCEPT ![i] = n] /\ applied = [c.applied EXCEPT ![i] = part]
           /\ touched = Touch(c.touched, o.plan)
    OBVIOUS
  <2>5. /\ rows \in Seq(Row) /\ Len(rows) = Len(c.rows)
        /\ \A j \in 1..Len(c.rows) : rows[j] = IF j = i THEN n ELSE c.rows[j]
    BY <1>1, <1>2, <2>3, <2>4, ExceptSeq
  <2>6. /\ applied \in Seq(Nat) /\ Len(applied) = Len(c.applied)
        /\ \A j \in 1..Len(c.applied) : applied[j] = IF j = i THEN part ELSE c.applied[j]
    BY <1>1, <1>2, <2>1, <2>4, ExceptSeq
  <2>7. touched \in Seq(Plans) /\ touched # <<>>
    BY <1>1, <1>3, <2>4, TouchResult
  <2>8. r = [c EXCEPT !.remaining = c.remaining - part, !.applied = applied,
                      !.touched = touched, !.rows = rows]
    BY <1>5, <2>2, <2>4 DEF Apply, PaidRow, PayCall
  <2>9. c.remaining - part \in Nat
    BY <1>1, <2>1
  <2>. HIDE DEF r
  <2>10. /\ r \in PayCall
         /\ r.op = c.op /\ r.amount = c.amount /\ r.fund = c.fund /\ r.before = c.before
         /\ r.known = c.known /\ r.dues = c.dues /\ r.items = c.items /\ r.mixed = c.mixed
         /\ r.month = c.month /\ r.tail = c.tail /\ r.extended = c.extended
         /\ r.remaining = c.remaining - part /\ r.applied = applied /\ r.touched = touched
         /\ r.rows = rows
    BY <2>5, <2>6, <2>7, <2>8, <2>9 DEF PayCall
  <2>11. r.rows[i] = n /\ r.applied[i] = part
    BY <1>2, <2>5, <2>6, <2>10
  <2>12. \A j \in DOMAIN c.rows :
            j # i => r.rows[j] = c.rows[j] /\ r.applied[j] = c.applied[j]
    BY <1>2, <2>5, <2>6, <2>10
  <2>13. r.remaining > 0 => r.rows[i].status = "PAID"
    <3>1. c.remaining - part > 0 => part < c.remaining
      BY <1>1, <2>1
    <3>. QED  BY <2>1, <2>3, <2>10, <2>11, <3>1
  <2>14. part # 0
    BY <2>1
  <2>15. Len(r.rows) = Len(c.rows) /\ Len(r.applied) = Len(c.applied)
    BY <2>5, <2>6, <2>10
  <2>. HIDE DEF o, part
  <2>16. r.touched # <<>>
    BY <2>7, <2>10
  <2>17. /\ r.rows[i].plan = c.rows[i].plan /\ r.rows[i].due = c.rows[i].due
              /\ r.rows[i].paid = c.rows[i].paid + r.applied[i]
         /\ Truthful(r.rows[i])
    BY <2>3, <2>11 DEF o
  <2>. QED
    BY <2>10, <2>11, <2>12, <2>13, <2>14, <2>15, <2>16, <2>17 DEF Allocates, r
<1>. QED  BY <1>4, <1>5
-----------------------------------------------------------------------------
(* Dates, versions and standings. *)

LEMMA Bounded ==
  ASSUME NEW n \in Nat, NEW f, \A i \in 1..n : f[i] \in Nat
  PROVE  \E b \in Nat : \A i \in 1..n : f[i] <= b
<1>. DEFINE T == {m \in Nat : m <= n => \E b \in Nat : \A i \in 1..m : f[i] <= b}
<1>1. 0 \in T
  OBVIOUS
<1>2. ASSUME NEW m \in T PROVE m + 1 \in T
  <2>. SUFFICES ASSUME m + 1 <= n PROVE \E b \in Nat : \A i \in 1..(m + 1) : f[i] <= b
    OBVIOUS
  <2>1. PICK b \in Nat : \A i \in 1..m : f[i] <= b
    OBVIOUS
  <2>2. PICK x \in Nat : x = f[m + 1]
    OBVIOUS
  <2>3. PICK y \in Nat : y = b + x /\ b <= y /\ x <= y
    OBVIOUS
  <2>4. \A i \in 1..(m + 1) : f[i] \in Nat /\ (i \in 1..m \/ i = m + 1)
    OBVIOUS
  <2>5. \A i \in 1..(m + 1) : f[i] <= y
    BY <2>1, <2>2, <2>3, <2>4
  <2>. QED  BY <2>5
<1>3. n \in T
  <2>1. T \in SUBSET Nat
    OBVIOUS
  <2>. HIDE DEF T
  <2>. QED  BY <1>1, <1>2, <2>1, NatSets
<1>. QED  BY <1>3

\* The last date of the member's rows on some plans.
PaidUp == {obligations[i].due : i \in {j \in Ids : obligations[j].plan \in Monthly}}

LEMMA LastDue ==
  ASSUME obligations \in Seq(Row), PaidUp # {}
  PROVE  Max(PaidUp) \in Nat /\ \A x \in PaidUp : x <= Max(PaidUp)
<1>1. Len(obligations) \in Nat /\ \A i \in Ids : obligations[i] \in Row
  BY LenProperties, ElementOfSeq DEF Ids
<1>2. PICK n \in Nat : n = Len(obligations)
  BY <1>1
<1>3. PICK f : f = [i \in 1..n |-> obligations[i].due]
  OBVIOUS
<1>4. \A i \in 1..n : f[i] \in Nat
  BY <1>1, <1>2, <1>3 DEF Ids, Row
<1>5. PICK b \in Nat : \A i \in 1..n : f[i] <= b
  BY <1>4, Bounded
<1>6. PICK S : S = PaidUp
  OBVIOUS
<1>7. S \in SUBSET Nat /\ S # {} /\ \A x \in S : x <= b
  BY <1>1, <1>2, <1>3, <1>4, <1>5, <1>6 DEF PaidUp, Ids, Row
<1>8. Max(S) \in S /\ \A x \in S : x <= Max(S)
  BY <1>7, MaxOfBounded
<1>. QED  BY <1>6, <1>7, <1>8

LEMMA InForceType ==
  ASSUME NEW v \in Monthly, NEW m \in Nat
  PROVE  InForce(v, m) \in Monthly
<1>. DEFINE covering == {w \in 1..v : From[w] <= m}
<1>1. v \in Nat /\ 1..v \subseteq Monthly /\ covering \in SUBSET Nat /\ \A w \in covering : w <= v
  BY ContributionsAssumption DEF Monthly
<1>2. covering # {} => Max(covering) \in covering
  <2>. HIDE DEF covering
  <2>. QED  BY <1>1, MaxOfBounded
<1>. QED  BY <1>1, <1>2 DEF InForce

LEMMA ReassessedType ==
  ASSUME NEW s \in Standings, NEW rows, NEW p
  PROVE  Reassessed(s, rows, p) \in Standings
  BY DEF Reassessed, Standings

\* The standing a payment leaves is what its plans, reassessed one after the
\* other, make of the standing before.
LEMMA CommitStanding ==
  ASSUME NEW h \in Handlers, handler[h] \in PayCall, standing \in Standings, PayCommit(h)
  PROVE  \E r, q :
            /\ q = handler[h].touched
            /\ standing' = r[DOMAIN q]
            /\ \A s \in SUBSET DOMAIN q :
                  /\ r[s] \in Standings /\ (s # {} => Max(s) \in s)
                  /\ r[s] = IF s = {} THEN standing
                            ELSE Reassessed(r[s \ {Max(s)}], Written(handler[h]), q[Max(s)])
<1>1. PICK q : q = handler[h].touched
  OBVIOUS
<1>2. q \in Seq(Plans)
  BY <1>1 DEF PayCall
<1>3. PICK D : D = DOMAIN q
  OBVIOUS
<1>0. D = DOMAIN handler[h].touched
  BY <1>1, <1>3
<1>4. PICK n \in Nat : D = 1..n
  BY <1>2, <1>3, LenProperties
<1>5. PICK base : base = standing
  OBVIOUS
<1>. DEFINE Rec(g) == [s \in SUBSET DOMAIN handler[h].touched |-> IF s = {} THEN standing ELSE
                          Reassessed(g[s \ {Max(s)}], Written(handler[h]), handler[h].touched[Max(s)])]
<1>6. PICK c : c = [s \in SUBSET D |-> Max(s)]
  OBVIOUS
<1>7. PICK F : F = [s \in SUBSET D |-> [v \in Standings |->
                       Reassessed(v, Written(handler[h]), handler[h].touched[Max(s)])]]
  OBVIOUS
<1>8. \A s \in SUBSET D : s # {} => c[s] \in s
  BY <1>4, <1>6, LastPlace
<1>9. \A s \in SUBSET D : \A v \in Standings : F[s][v] \in Standings
  BY <1>7, ReassessedType
<1>10. PICK g : IsFold(g, D, Standings, base, c, F)
  <2>1. Foldable(D, Standings, base, c, F)
    BY <1>4, <1>5, <1>8, <1>9, Places DEF Foldable
  <2>. QED  BY <2>1, FoldExists
<1>11. g = Rec(g)
  <2>1. g \in [SUBSET D -> Standings]
    BY <1>10 DEF IsFold
  <2>2. ASSUME NEW s \in SUBSET D PROVE g[s] = Rec(g)[s]
    <3>1. g[s] = IF s = {} THEN base ELSE F[s][g[s \ {c[s]}]]
      BY <1>10 DEF IsFold
    <3>2. g[s \ {c[s]}] \in Standings /\ c[s] = Max(s)
      BY <1>6, <2>1
    <3>3. s \in SUBSET DOMAIN handler[h].touched
      BY <1>0
    <3>4. Rec(g)[s] = IF s = {} THEN standing ELSE
             Reassessed(g[s \ {Max(s)}], Written(handler[h]), handler[h].touched[Max(s)])
      BY <3>3
    <3>. QED  BY <1>5, <1>7, <3>1, <3>2, <3>4
  <2>3. g = [s \in SUBSET D |-> g[s]] /\ Rec(g) = [s \in SUBSET D |-> Rec(g)[s]]
    <3>1. Rec(g) = [s \in SUBSET DOMAIN handler[h].touched |-> Rec(g)[s]]
      BY Zenon
    <3>. HIDE DEF Rec
    <3>. QED  BY <1>0, <2>1, <3>1
  <2>. HIDE DEF Rec
  <2>. QED  BY <2>2, <2>3
<1>12. PICK r : r = Rec(r) /\ r = CHOOSE f : f = Rec(f)
  BY <1>11
<1>a. ASSUME NEW s \in SUBSET D
      PROVE  r[s] = IF s = {} THEN standing ELSE
                Reassessed(r[s \ {Max(s)}], Written(handler[h]), handler[h].touched[Max(s)])
  <2>1. s \in SUBSET DOMAIN handler[h].touched
    BY <1>0
  <2>2. Rec(r)[s] = IF s = {} THEN standing ELSE
           Reassessed(r[s \ {Max(s)}], Written(handler[h]), handler[h].touched[Max(s)])
    BY <2>1
  <2>3. r = Rec(r)
    BY <1>12
  <2>. HIDE DEF Rec
  <2>. QED  BY <2>2, <2>3
<1>13. standing' = FoldLeft(LAMBDA s, p : Reassessed(s, Written(handler[h]), p),
                            standing, handler[h].touched)
  BY Zenon DEF PayCommit
<1>14. standing' = r[D]
  <2>1. standing' = r[DOMAIN handler[h].touched]
    BY <1>12, <1>13, Zenon DEF FoldLeft, MapThenFoldSet
  <2>. QED  BY <1>1, <1>3, <2>1
<1>. DEFINE T == {s \in SUBSET D : r[s] \in Standings}
<1>15. ASSUME NEW s \in SUBSET D, \A x \in s : s \ {x} \in T PROVE s \in T
  <2>1. CASE s = {}
    <3>1. r[s] = standing
      BY <1>a, <2>1
    <3>. QED  BY <3>1
  <2>2. CASE s # {}
    <3>1. Max(s) \in s
      BY <1>4, <2>2, LastPlace
    <3>2. r[s \ {Max(s)}] \in Standings
      BY <1>15, <3>1
    <3>3. r[s] = Reassessed(r[s \ {Max(s)}], Written(handler[h]), handler[h].touched[Max(s)])
      BY <1>a, <2>2
    <3>4. r[s] \in Standings
      BY <3>2, <3>3, ReassessedType
    <3>. QED  BY <3>4
  <2>. QED  BY <2>1, <2>2
<1>16. \A s \in SUBSET D : s \in T
  <2>1. IsFiniteSet(D)
    BY <1>4, Places
  <2>. HIDE DEF T
  <2>. QED  BY <1>15, <2>1, SetsByRemoval
<1>17. ASSUME NEW s \in SUBSET D
       PROVE  /\ r[s] \in Standings /\ (s # {} => Max(s) \in s)
              /\ r[s] = IF s = {} THEN standing
                        ELSE Reassessed(r[s \ {Max(s)}], Written(handler[h]), q[Max(s)])
  <2>1. r[s] \in Standings
    BY <1>16
  <2>2. s # {} => Max(s) \in s
    BY <1>4, LastPlace
  <2>. QED  BY <1>1, <1>a, <2>1, <2>2
<1>. QED  BY <1>1, <1>3, <1>14, <1>17
-----------------------------------------------------------------------------
(* The inductive invariant, however payments interleave.  A payment's own   *)
(* copy of the rows is truthful, and what it has allocated and what remains *)
(* make up what was paid and the credit it began with.                      *)

CallOK(n, c) ==
    /\ c.known <= n /\ c.known <= Len(c.rows) /\ Len(c.applied) = Len(c.rows)
    /\ \A i \in DOMAIN c.rows : Truthful(c.rows[i])
    /\ c.dues \cup c.items \subseteq 1..c.known
    /\ \A i \in c.dues \cup c.items : c.applied[i] = 0
    /\ c.dues \cap c.items = {}
    /\ c.tail <= Versions /\ (c.op = "extend" => c.tail > 0)
    /\ c.remaining + Total(c.applied, DOMAIN c.applied) = c.amount + c.before
    /\ c.op = "read" => c.remaining = c.amount + c.before

\* No entry names an obligation that does not exist yet.
LinesKnown == \A k \in DOMAIN journal : Len(journal[k].lines) <= Len(obligations)

Inv ==
    /\ TypeOK /\ StatusTruthful /\ LinesKnown
    /\ \A h \in Handlers : handler[h] \in PayCall => CallOK(Len(obligations), handler[h])

LEMMA CallByOp ==
  ASSUME TypeOK, NEW h \in Handlers
  PROVE  /\ handler[h].op \in {"read", "dues", "extend", "items"} => handler[h] \in PayCall
         /\ handler[h].op = "reassess" => handler[h] \in ReassessCall
<1>1. PICK c : c = handler[h] /\ c \in {Idle} \cup PayCall \cup ReassessCall
  BY DEF TypeOK
<1>2. CASE c = Idle
  BY <1>1, <1>2 DEF Idle
<1>3. CASE c \in PayCall
  BY <1>1, <1>3 DEF PayCall
<1>4. CASE c \in ReassessCall
  BY <1>1, <1>4 DEF ReassessCall
<1>. QED  BY <1>1, <1>2, <1>3, <1>4

LEMMA IdleIsNoCall == Idle \notin PayCall /\ ReassessCall \cap PayCall = {}
  BY DEF Idle, PayCall, ReassessCall

LEMMA TruthfulRows ==
  ASSUME StatusTruthful
  PROVE  \A i \in Ids : Truthful(obligations[i])
  BY DEF StatusTruthful, Truthful

LEMMA RowsTruthful ==
  ASSUME \A i \in Ids : Truthful(obligations[i])
  PROVE  StatusTruthful
  BY DEF StatusTruthful, Truthful

LEMMA CallFields ==
  ASSUME NEW c \in PayCall
  PROVE  /\ c.rows \in Seq(Row) /\ Len(c.rows) \in Nat /\ DOMAIN c.rows = 1..Len(c.rows)
         /\ c.applied \in Seq(Nat) /\ Len(c.applied) \in Nat
         /\ DOMAIN c.applied = 1..Len(c.applied)
         /\ \A i \in DOMAIN c.rows : c.rows[i] \in Row
         /\ \A i \in DOMAIN c.applied : c.applied[i] \in Nat
         /\ c.remaining \in Nat /\ c.known \in Nat /\ c.month \in Nat /\ c.tail \in Nat
         /\ c.amount \in Nat /\ c.before \in Nat /\ c.extended \in Nat
         /\ c.fund \in Funds
<1>1. /\ c.rows \in Seq(Row) /\ c.applied \in Seq(Nat)
      /\ c.remaining \in Nat /\ c.known \in Nat /\ c.month \in Nat /\ c.tail \in Nat
      /\ c.amount \in Nat /\ c.before \in Nat /\ c.extended \in Nat
      /\ c.fund \in Funds
  BY ContributionsAssumption DEF PayCall
<1>2. /\ Len(c.rows) \in Nat /\ DOMAIN c.rows = 1..Len(c.rows)
      /\ Len(c.applied) \in Nat /\ DOMAIN c.applied = 1..Len(c.applied)
  BY <1>1, LenProperties
<1>3. /\ \A i \in DOMAIN c.rows : c.rows[i] \in Row
      /\ \A i \in DOMAIN c.applied : c.applied[i] \in Nat
  BY <1>1, <1>2, ElementOfSeq
<1>. QED  BY <1>1, <1>2, <1>3

\* An allocation keeps a call as it should be.
LEMMA AllocatesOK ==
  ASSUME NEW n \in Nat, NEW c \in PayCall, CallOK(n, c), NEW i \in DOMAIN c.rows,
         NEW kind, NEW r, Allocates(c, r, i, kind),
         i \notin c.dues \cup c.items, c.applied[i] = 0, c.op # "read"
  PROVE  CallOK(n, r)
<1>1. r \in PayCall
  BY DEF Allocates
<1>2. /\ Len(r.rows) = Len(c.rows) /\ Len(r.applied) = Len(c.applied)
      /\ DOMAIN r.rows = DOMAIN c.rows /\ DOMAIN r.applied = DOMAIN c.applied
  BY <1>1, CallFields DEF Allocates
<1>3. DOMAIN c.applied = DOMAIN c.rows
  BY CallFields DEF CallOK
<1>4. PICK D : D = DOMAIN c.applied
  OBVIOUS
<1>5. IsFiniteSet(D)
  BY <1>4, CallFields, Places
<1>6. Total(r.applied, D) = Total(c.applied, D) + r.applied[i]
  <2>1. PICK a, b, d : a = c.applied /\ b = r.applied /\ d = r.applied[i]
    OBVIOUS
  <2>2. \A x \in D : a[x] \in Int /\ b[x] \in Int
    BY <1>1, <1>2, <1>4, <2>1, CallFields
  <2>3. \A x \in D : x # i => b[x] = a[x]
    BY <1>3, <1>4, <2>1 DEF Allocates
  <2>4. d \in Int /\ a[i] = 0 /\ b[i] = d /\ i \in D
    BY <1>3, <1>4, <2>1, <2>2
  <2>5. \A x \in D : b[x] = IF x = i THEN a[x] + d ELSE a[x]
    BY <2>2, <2>3, <2>4
  <2>6. Total(b, D) = Total(a, D) + d
    BY <1>5, <2>2, <2>4, <2>5, TotalUpdate
  <2>. QED  BY <2>1, <2>6
<1>7. \A x \in D : c.applied[x] \in Int
  BY <1>4, CallFields
<1>8. Total(c.applied, D) \in Int
  <2>1. PICK a : a = c.applied
    OBVIOUS
  <2>2. Total(a, D) \in Int
    BY <1>5, <1>7, <2>1, TotalType
  <2>. QED  BY <2>1, <2>2
<1>9. r.remaining + Total(r.applied, DOMAIN r.applied) = r.amount + r.before
  <2>1. r.applied[i] \in Int /\ r.remaining = c.remaining - r.applied[i]
        /\ r.amount = c.amount /\ r.before = c.before
    BY <1>1, <1>2, <1>3, CallFields DEF Allocates
  <2>2. c.remaining + Total(c.applied, D) = c.amount + c.before /\ c.remaining \in Int
    BY <1>4, CallFields DEF CallOK
  <2>3. PICK s, t : s = Total(c.applied, D) /\ t = Total(r.applied, D)
    OBVIOUS
  <2>4. s \in Int /\ t = s + r.applied[i]
    BY <1>6, <1>8, <2>3
  <2>5. r.remaining + t = c.amount + c.before
    BY <2>1, <2>2, <2>3, <2>4
  <2>. QED  BY <1>2, <1>4, <2>1, <2>3, <2>5
<1>10. \A j \in DOMAIN r.rows : Truthful(r.rows[j])
  BY <1>2 DEF Allocates, CallOK
<1>11. /\ r.known = c.known /\ r.dues = c.dues /\ r.items = c.items
       /\ r.tail = c.tail /\ r.op = c.op
  BY DEF Allocates
<1>12. c.dues \cup c.items \subseteq DOMAIN c.rows
  BY CallFields DEF CallOK
<1>13. \A j \in r.dues \cup r.items : r.applied[j] = 0
  BY <1>11, <1>12 DEF Allocates, CallOK
<1>. QED  BY <1>2, <1>9, <1>10, <1>11, <1>13 DEF CallOK
-----------------------------------------------------------------------------
(* Each step keeps the invariant. *)

\* A call begins, goes on or ends, and nothing else changes.
LEMMA CallStep ==
  ASSUME Inv, NEW h \in Handlers, NEW r,
         r = Idle \/ r \in ReassessCall \/ (r \in PayCall /\ CallOK(Len(obligations), r)),
         handler' = [handler EXCEPT ![h] = r],
         UNCHANGED <<configVars, memberVars, ledgerVars>>
  PROVE  Inv'
<1>1. TypeOK'
  BY DEF Inv, TypeOK, configVars, memberVars, ledgerVars
<1>2. StatusTruthful' /\ LinesKnown'
  BY DEF Inv, StatusTruthful, LinesKnown, Ids, memberVars, ledgerVars
<1>3. ASSUME NEW g \in Handlers, handler'[g] \in PayCall
      PROVE  CallOK(Len(obligations), handler'[g])
  BY <1>3, IdleIsNoCall DEF Inv, TypeOK
<1>. QED  BY <1>1, <1>2, <1>3 DEF Inv, memberVars

\* Rows are only added, and the calls go on.
LEMMA RowsStep ==
  ASSUME Inv, TypeOK', StatusTruthful', LinesKnown', Len(obligations') >= Len(obligations),
         \A g \in Handlers : handler'[g] \in {Idle, handler[g]}
  PROVE  Inv'
<1>1. ASSUME NEW g \in Handlers, handler'[g] \in PayCall
      PROVE  CallOK(Len(obligations'), handler'[g])
  <2>1. PICK c : c = handler[g] /\ c = handler'[g] /\ c \in PayCall
    BY <1>1, IdleIsNoCall
  <2>2. CallOK(Len(obligations), c)
    BY <2>1 DEF Inv
  <2>3. Len(obligations) \in Nat /\ Len(obligations') \in Nat /\ c.known \in Nat
    BY <2>1, CallFields, LenProperties DEF Inv, TypeOK
  <2>4. CallOK(Len(obligations'), c)
    BY <2>2, <2>3 DEF CallOK
  <2>. QED  BY <2>1, <2>4
<1>. QED  BY <1>1 DEF Inv

LEMMA ObligationsType ==
  ASSUME TypeOK
  PROVE  /\ Len(obligations) \in Nat /\ Ids = 1..Len(obligations)
         /\ DOMAIN obligations = Ids /\ \A i \in Ids : obligations[i] \in Row
         /\ DOMAIN income = Ids /\ \A i \in Ids : income[i] \in Int
<1>1. Len(obligations) \in Nat /\ DOMAIN obligations = 1..Len(obligations)
  BY LenProperties DEF TypeOK
<1>2. DOMAIN income = 1..Len(income) /\ Len(income) = Len(obligations)
  BY LenProperties DEF TypeOK
<1>. QED  BY <1>1, <1>2, ElementOfSeq DEF TypeOK, Ids

\* A step adds an entry at most, of obligations that then exist.
LEMMA JournalGrows ==
  ASSUME Inv, Len(obligations') \in Nat, Len(obligations') >= Len(obligations),
         \/ journal' = journal
         \/ \E e \in Entry : journal' = Append(journal, e) /\ Len(e.lines) <= Len(obligations')
  PROVE  journal' \in Seq(Entry) /\ LinesKnown'
<1>1. journal \in Seq(Entry) /\ LinesKnown /\ Len(obligations) \in Nat
  BY ObligationsType DEF Inv, TypeOK
<1>2. PICK n \in Nat : n = Len(journal) /\ DOMAIN journal = 1..n
  BY <1>1, LenProperties
<1>3. \A k \in 1..n : journal[k] \in Entry /\ Len(journal[k].lines) <= Len(obligations)
  BY <1>1, <1>2, ElementOfSeq DEF LinesKnown
<1>4. \A e \in Entry : Len(e.lines) \in Nat
  <2>1. \A e \in Entry : e.lines \in Seq(Int)
    BY DEF Entry
  <2>. QED  BY <2>1, LenProperties
<1>5. \A k \in 1..n : Len(journal[k].lines) <= Len(obligations')
  BY <1>1, <1>3, <1>4
<1>6. CASE journal' = journal
  BY <1>1, <1>2, <1>5, <1>6 DEF LinesKnown
<1>7. ASSUME NEW e \in Entry, journal' = Append(journal, e), Len(e.lines) <= Len(obligations')
      PROVE  journal' \in Seq(Entry) /\ LinesKnown'
  <2>1. /\ journal' \in Seq(Entry) /\ Len(journal') = n + 1 /\ journal'[n + 1] = e
        /\ \A k \in 1..n : journal'[k] = journal[k]
    BY <1>1, <1>2, <1>7, AppendProperties
  <2>2. DOMAIN journal' = 1..(n + 1) /\ \A k \in 1..(n + 1) : k \in 1..n \/ k = n + 1
    BY <2>1, LenProperties
  <2>. QED  BY <1>5, <1>7, <2>1, <2>2 DEF LinesKnown
<1>. QED  BY <1>6, <1>7

\* A new row is owed in full.
LEMMA NewRowType ==
  ASSUME NEW p \in Plans, NEW due \in Nat, NEW amount \in Nat
  PROVE  NewRow(p, due, amount) \in Row /\ Truthful(NewRow(p, due, amount))
  BY DEF NewRow, Row, Open, Truthful

LEMMA AddRowStep ==
  ASSUME Inv, NEW row \in Row, Truthful(row), AddRow(row),
         month' = month, version' = version, launched' \subseteq Events,
         selective' = selective, policy' = policy
  PROVE  Inv'
<1>1. /\ obligations' = Append(obligations, row) /\ income' = Append(income, 0)
      /\ UNCHANGED <<credit, standing, journal, liability, received, handler>>
  BY DEF AddRow
<1>2. PICK n \in Nat : n = Len(obligations)
  BY ObligationsType DEF Inv
<1>3. /\ obligations' \in Seq(Row) /\ Len(obligations') = n + 1
      /\ \A i \in 1..n : obligations'[i] = obligations[i]
      /\ obligations'[n + 1] = row
  BY <1>1, <1>2, AppendProperties DEF Inv, TypeOK
<1>4. income' \in Seq(Int) /\ Len(income') = n + 1
  <2>1. income \in Seq(Int) /\ Len(income) = n /\ 0 \in Int
    BY <1>2 DEF Inv, TypeOK
  <2>. QED  BY <1>1, <2>1, AppendProperties
<1>5. TypeOK'
  BY <1>1, <1>3, <1>4 DEF Inv, TypeOK
<1>6. \A i \in 1..n : Truthful(obligations[i])
  BY <1>2, TruthfulRows DEF Inv, Ids
<1>7. \A i \in 1..(n + 1) : Truthful(obligations'[i])
  <2>1. \A i \in 1..(n + 1) : i \in 1..n \/ i = n + 1
    OBVIOUS
  <2>. QED  BY <1>3, <1>6, <2>1
<1>8. StatusTruthful'
  <2>1. Ids' = 1..(n + 1)
    BY <1>3 DEF Ids
  <2>. QED  BY <1>7, <2>1 DEF StatusTruthful, Truthful
<1>9. Len(obligations') >= Len(obligations) /\ Len(obligations') \in Nat
  BY <1>2, <1>3
<1>10. LinesKnown'
  BY <1>1, <1>9, JournalGrows
<1>. QED  BY <1>1, <1>5, <1>8, <1>9, <1>10, RowsStep

LEMMA CreateObligationStep ==
  ASSUME Inv, NEW p \in Plans, NEW due \in 1..MaxDue, CreateObligation(p, due)
  PROVE  Inv'
<1>1. PICK amount \in Nat : AddRow(NewRow(p, due, amount)) /\ UNCHANGED configVars
  <2>1. Rate[p] \in Nat
    BY ContributionsAssumption
  <2>2. (IF Kind[p] = "voluntary" THEN 0 ELSE Rate[p]) \in Nat
    BY <2>1
  <2>. QED  BY <2>2 DEF CreateObligation
<1>2. due \in Nat
  OBVIOUS
<1>3. NewRow(p, due, amount) \in Row /\ Truthful(NewRow(p, due, amount))
  BY <1>2, NewRowType
<1>. QED  BY <1>1, <1>3, AddRowStep DEF configVars, Inv, TypeOK

LEMMA ActivateEventStep ==
  ASSUME Inv, NEW p \in Plans, NEW due \in 1..MaxDue, ActivateEvent(p, due)
  PROVE  Inv'
<1>1. /\ launched' \subseteq Events
      /\ UNCHANGED <<month, version, selective, policy>>
  BY DEF ActivateEvent, Inv, TypeOK
<1>2. CASE AddRow(NewRow(p, due, Rate[p]))
  <2>1. Rate[p] \in Nat /\ due \in Nat
    BY ContributionsAssumption
  <2>2. NewRow(p, due, Rate[p]) \in Row /\ Truthful(NewRow(p, due, Rate[p]))
    BY <2>1, NewRowType
  <2>. QED  BY <1>1, <1>2, <2>2, AddRowStep
<1>3. CASE UNCHANGED <<memberVars, ledgerVars, handler>>
  <2>1. TypeOK' /\ StatusTruthful'
    BY <1>1, <1>3 DEF Inv, TypeOK, StatusTruthful, Ids, memberVars, ledgerVars
  <2>2. Len(obligations') = Len(obligations) /\ Len(obligations) \in Nat /\ handler' = handler
    BY <1>3, ObligationsType DEF Inv, memberVars
  <2>3. LinesKnown'
    BY <1>3 DEF Inv, LinesKnown, memberVars, ledgerVars
  <2>. QED  BY <2>1, <2>2, <2>3, RowsStep
<1>. QED  BY <1>2, <1>3 DEF ActivateEvent

LEMMA OtherSteps ==
  ASSUME Inv,
         \/ UNCHANGED vars \/ NextMonth \/ ActivateVersion \/ SetAllocationPolicy
         \/ \E t \in Thresholds : SetPolicy(t)
  PROVE  Inv'
<1>1. UNCHANGED <<launched, memberVars, ledgerVars, handler>>
  BY DEF vars, configVars, NextMonth, ActivateVersion, SetAllocationPolicy, SetPolicy
<1>2. /\ month' \in 1..(MaxMonth + 1) /\ version' \in 0..Versions
      /\ selective' \in BOOLEAN /\ policy' \subseteq Thresholds
  <2>1. MaxMonth \in Nat /\ Versions \in Nat
    BY ContributionsAssumption
  <2>2. CASE UNCHANGED vars
    BY <2>2 DEF Inv, TypeOK, vars, configVars
  <2>3. CASE NextMonth
    BY <2>1, <2>3 DEF Inv, TypeOK, NextMonth
  <2>4. CASE ActivateVersion
    BY <2>1, <2>4 DEF Inv, TypeOK, ActivateVersion
  <2>5. CASE SetAllocationPolicy
    BY <2>5 DEF Inv, TypeOK, SetAllocationPolicy
  <2>6. CASE \E t \in Thresholds : SetPolicy(t)
    BY <2>6 DEF Inv, TypeOK, SetPolicy
  <2>. QED  BY <2>2, <2>3, <2>4, <2>5, <2>6
<1>3. TypeOK' /\ StatusTruthful'
  BY <1>1, <1>2 DEF Inv, TypeOK, StatusTruthful, Ids, memberVars, ledgerVars
<1>4. Len(obligations') = Len(obligations) /\ Len(obligations) \in Nat /\ handler' = handler
  BY <1>1, ObligationsType DEF Inv, memberVars
<1>5. LinesKnown'
  BY <1>1 DEF Inv, LinesKnown, memberVars, ledgerVars
<1>. QED  BY <1>3, <1>4, <1>5, RowsStep

LEMMA ReassessSteps ==
  ASSUME Inv, NEW h \in Handlers,
         ReassessCommit(h) \/ \E p \in Plans : ReassessRead(h, p)
  PROVE  Inv'
<1>1. CASE ReassessCommit(h)
  <2>1. handler[h].to \in Standings
    BY <1>1, CallByOp DEF Inv, ReassessCommit, ReassessCall
  <2>2. TypeOK'
    BY <1>1, <2>1 DEF Inv, TypeOK, ReassessCommit, End, configVars, ledgerVars
  <2>3. StatusTruthful' /\ Len(obligations') = Len(obligations) /\ Len(obligations) \in Nat
    BY <1>1, ObligationsType DEF Inv, StatusTruthful, Ids, ReassessCommit
  <2>4. \A g \in Handlers : handler'[g] \in {Idle, handler[g]}
    BY <1>1 DEF Inv, TypeOK, ReassessCommit, End
  <2>5. LinesKnown'
    BY <1>1 DEF Inv, LinesKnown, ReassessCommit, ledgerVars
  <2>. QED  BY <2>2, <2>3, <2>4, <2>5, RowsStep
<1>2. CASE \E p \in Plans : ReassessRead(h, p)
  <2>1. PICK p \in Plans : ReassessRead(h, p)
    BY <1>2
  <2>2. PICK r : r = [op |-> "reassess", to |-> Reassessed(standing, obligations, p)]
    OBVIOUS
  <2>3. Reassessed(standing, obligations, p) \in Standings
    BY ReassessedType DEF Inv, TypeOK
  <2>4. r \in ReassessCall
    BY <2>2, <2>3 DEF ReassessCall
  <2>5. /\ handler' = [handler EXCEPT ![h] = r]
        /\ UNCHANGED <<configVars, memberVars, ledgerVars>>
    BY <2>1, <2>2 DEF ReassessRead, Begin
  <2>. QED  BY <2>4, <2>5, CallStep
<1>. QED  BY <1>1, <1>2
-----------------------------------------------------------------------------
(* The steps of a payment. *)

LEMMA TotalZero ==
  ASSUME NEW S, IsFiniteSet(S), NEW f, \A x \in S : f[x] = 0
  PROVE  Total(f, S) = 0
<1>1. Total(f, S) = Total(f, S) + Total(f, S)
  <2>0. PICK z : z = 0 /\ z \in Int /\ z = z + z
    OBVIOUS
  <2>1. \A x \in S : f[x] \in Int /\ f[x] = f[x] + f[x]
    <3>1. \A x \in S : f[x] = z
      BY <2>0
    <3>. QED  BY <2>0, <3>1, Zenon
  <2>. QED  BY <2>1, TotalAdd
<1>2. Total(f, S) \in Int
  BY TotalType
<1>3. PICK t : t = Total(f, S)
  OBVIOUS
<1>4. t \in Int /\ t = t + t
  BY <1>1, <1>2, <1>3
<1>5. t = 0
  BY <1>4
<1>. QED  BY <1>3, <1>5

LEMMA PayReadStep ==
  ASSUME Inv, NEW h \in Handlers, NEW a \in Payments, NEW f \in Funds,
         NEW chosen \in SUBSET Ids, PayRead(h, a, f, chosen)
  PROVE  Inv'
<1>1. PICK r : r = [op |-> "read", amount |-> a, fund |-> f, selected |-> chosen,
                 before |-> credit, remaining |-> a + credit,
                 rows |-> <<>>, known |-> 0, applied |-> <<>>, touched |-> <<>>,
                 dues |-> {}, items |-> {}, mixed |-> FALSE,
                 month |-> 0, tail |-> 0, extended |-> 0]
  OBVIOUS
<1>2. /\ handler' = [handler EXCEPT ![h] = r]
      /\ UNCHANGED <<configVars, memberVars, ledgerVars>>
  BY <1>1 DEF PayRead, Begin
<1>3. /\ a \in Nat /\ credit \in Nat /\ a + credit \in Nat /\ chosen \in SUBSET Nat
      /\ Len(obligations) \in Nat /\ Versions \in Nat
  <2>1. a \in Nat /\ credit \in Nat /\ Versions \in Nat
    BY ContributionsAssumption DEF Inv, TypeOK
  <2>2. Len(obligations) \in Nat /\ chosen \in SUBSET (1..Len(obligations))
    BY ObligationsType DEF Inv
  <2>. QED  BY <2>1, <2>2
<1>4. r \in PayCall
  <2>1. <<>> \in Seq(Row) /\ <<>> \in Seq(Nat) /\ <<>> \in Seq(Plans)
    BY EmptySeq
  <2>. QED  BY <1>1, <1>3, <2>1 DEF PayCall
<1>5. Total(<<>>, DOMAIN <<>>) = 0
  <2>1. DOMAIN <<>> = {}
    OBVIOUS
  <2>2. PICK q : q = <<>>
    OBVIOUS
  <2>3. Total(q, {}) = 0
    BY TotalEmpty
  <2>. QED  BY <2>1, <2>2, <2>3
<1>6. CallOK(Len(obligations), r)
  <2>1. /\ r.known = 0 /\ r.rows = <<>> /\ r.applied = <<>> /\ r.dues = {} /\ r.items = {}
        /\ r.tail = 0 /\ r.op = "read" /\ r.remaining = a + credit /\ r.amount = a
        /\ r.before = credit
    BY <1>1
  <2>2. Len(<<>>) = 0 /\ DOMAIN <<>> = {}
    OBVIOUS
  <2>3. (a + credit) + 0 = a + credit
    BY <1>3
  <2>4. r.remaining + Total(r.applied, DOMAIN r.applied) = r.amount + r.before
    BY <1>5, <2>1, <2>3
  <2>. HIDE <1>1
  <2>5. /\ r.known <= Len(obligations) /\ r.known <= Len(r.rows) /\ Len(r.applied) = Len(r.rows)
        /\ r.tail <= Versions
    BY <1>3, <2>1, <2>2
  <2>6. DOMAIN r.rows = {} /\ r.dues \cup r.items = {} /\ r.dues \cap r.items = {}
    BY <2>1, <2>2
  <2>. QED  BY <2>1, <2>4, <2>5, <2>6 DEF CallOK
<1>. QED  BY <1>2, <1>4, <1>6, CallStep

\* What PaySelect makes of the call.
Selected(c, r) ==
    LET items == OpenIds(Events) IN
    \E last \in IF OpenIds(Monthly) = {} THEN {0}
                ELSE Newest(obligations, OpenIds(Monthly)) :
       r = [c EXCEPT
          !.op = "dues",
          !.rows = obligations,
          !.known = Len(obligations),
          !.applied = [i \in Ids |-> 0],
          !.dues = OpenIds(Monthly),
          !.items = IF c.selected = {} THEN items ELSE c.selected,
          !.mixed = items # {},
          !.month = IF last = 0 THEN 0 ELSE obligations[last].due,
          !.tail = IF last # 0 /\ obligations[last].plan = version
                   THEN version ELSE 0]

LEMMA SelectedResult ==
  ASSUME TypeOK, NEW c \in PayCall, c.selected \subseteq OpenIds(Events),
         NEW r, Selected(c, r)
  PROVE  /\ r \in PayCall
         /\ r.op = "dues" /\ r.rows = obligations /\ r.known = Len(obligations)
         /\ r.applied = [i \in Ids |-> 0] /\ r.dues = OpenIds(Monthly)
         /\ r.items \subseteq OpenIds(Events) /\ r.mixed = (OpenIds(Events) # {})
         /\ r.amount = c.amount /\ r.before = c.before /\ r.remaining = c.remaining
         /\ r.fund = c.fund /\ r.touched = c.touched
         /\ r.tail \in 0..Versions /\ r.extended = c.extended
         /\ r.month # 0 => \E last \in OpenIds(Monthly) :
               /\ r.month = obligations[last].due
               /\ \A i \in OpenIds(Monthly) : obligations[i].due <= r.month
<1>1. PICK last \in IF OpenIds(Monthly) = {} THEN {0}
                    ELSE Newest(obligations, OpenIds(Monthly)) :
         r = [c EXCEPT
          !.op = "dues",
          !.rows = obligations,
          !.known = Len(obligations),
          !.applied = [i \in Ids |-> 0],
          !.dues = OpenIds(Monthly),
          !.items = IF c.selected = {} THEN OpenIds(Events) ELSE c.selected,
          !.mixed = OpenIds(Events) # {},
          !.month = IF last = 0 THEN 0 ELSE obligations[last].due,
          !.tail = IF last # 0 /\ obligations[last].plan = version
                   THEN version ELSE 0]
  BY DEF Selected
<1>2. PICK applied, dues, items, mixed, mo, tail :
         /\ applied = [i \in Ids |-> 0] /\ dues = OpenIds(Monthly)
         /\ items = (IF c.selected = {} THEN OpenIds(Events) ELSE c.selected)
         /\ mixed = (OpenIds(Events) # {})
         /\ mo = (IF last = 0 THEN 0 ELSE obligations[last].due)
         /\ tail = IF last # 0 /\ obligations[last].plan = version THEN version ELSE 0
  OBVIOUS
<1>3. r = [c EXCEPT !.op = "dues", !.rows = obligations, !.known = Len(obligations),
             !.applied = applied, !.dues = dues, !.items = items, !.mixed = mixed,
             !.month = mo, !.tail = tail]
  BY <1>1, <1>2
<1>4. /\ Len(obligations) \in Nat /\ obligations \in Seq(Row) /\ Ids = 1..Len(obligations)
      /\ \A i \in Ids : obligations[i] \in Row
  BY ObligationsType DEF TypeOK
<1>5. OpenIds(Monthly) \subseteq Ids /\ OpenIds(Events) \subseteq Ids /\ Ids \subseteq Nat
  BY <1>4 DEF OpenIds
<1>6. last = 0 \/ (last \in OpenIds(Monthly) /\ last \in Newest(obligations, OpenIds(Monthly)))
  BY DEF Newest
<1>7. mo \in Nat
  BY <1>2, <1>4, <1>5, <1>6 DEF Row
<1>8. tail \in 0..Versions /\ tail \in Nat
  BY <1>2, ContributionsAssumption DEF TypeOK
<1>9. applied \in Seq(Nat)
  BY <1>2, <1>4, IsASeq
<1>10. /\ dues \in SUBSET Nat /\ items \in SUBSET Nat /\ mixed \in BOOLEAN
       /\ items \subseteq OpenIds(Events)
  BY <1>2, <1>5
<1>11. /\ r \in PayCall
       /\ r.op = "dues" /\ r.rows = obligations /\ r.known = Len(obligations)
       /\ r.applied = applied /\ r.dues = dues /\ r.items = items /\ r.mixed = mixed
       /\ r.amount = c.amount /\ r.before = c.before /\ r.remaining = c.remaining
       /\ r.fund = c.fund /\ r.touched = c.touched /\ r.tail = tail /\ r.month = mo
       /\ r.extended = c.extended
  BY <1>3, <1>4, <1>7, <1>8, <1>9, <1>10 DEF PayCall
<1>12. mo # 0 => \E l \in OpenIds(Monthly) :
               /\ mo = obligations[l].due
               /\ \A i \in OpenIds(Monthly) : obligations[i].due <= mo
  <2>. SUFFICES ASSUME mo # 0
       PROVE  /\ last \in OpenIds(Monthly) /\ mo = obligations[last].due
              /\ \A i \in OpenIds(Monthly) : obligations[i].due <= mo
    OBVIOUS
  <2>1. last \in OpenIds(Monthly) /\ last \in Newest(obligations, OpenIds(Monthly)) /\ mo = obligations[last].due
    BY <1>2, <1>6
  <2>2. ASSUME NEW i \in OpenIds(Monthly) PROVE obligations[i].due <= mo
    <3>1. obligations[last].due >= obligations[i].due
      BY <2>1 DEF Newest
    <3>2. obligations[last].due \in Nat /\ obligations[i].due \in Nat
      BY <1>4, <1>5, <2>1 DEF Row
    <3>. QED  BY <2>1, <3>1, <3>2
  <2>. QED  BY <2>1, <2>2
<1>. QED  BY <1>2, <1>8, <1>10, <1>11, <1>12

LEMMA PaySelectIs ==
  ASSUME NEW h \in Handlers, PaySelect(h)
  PROVE  \E r : /\ Selected(handler[h], r) /\ handler' = [handler EXCEPT ![h] = r]
                /\ handler[h].op = "read" /\ handler[h].selected \subseteq OpenIds(Events)
                /\ UNCHANGED <<configVars, memberVars, ledgerVars>>
  BY DEF PaySelect, Selected, Continue

LEMMA PaySelectStep ==
  ASSUME Inv, NEW h \in Handlers, PaySelect(h)
  PROVE  Inv'
<1>1. PICK c : c = handler[h]
  OBVIOUS
<1>2. PICK r : /\ Selected(c, r) /\ handler' = [handler EXCEPT ![h] = r]
               /\ c.op = "read" /\ c.selected \subseteq OpenIds(Events)
               /\ UNCHANGED <<configVars, memberVars, ledgerVars>>
  BY <1>1, PaySelectIs
<1>3. c \in PayCall /\ CallOK(Len(obligations), c)
  BY <1>1, <1>2, CallByOp DEF Inv
<1>4. /\ r \in PayCall
      /\ r.op = "dues" /\ r.rows = obligations /\ r.known = Len(obligations)
      /\ r.applied = [i \in Ids |-> 0] /\ r.dues = OpenIds(Monthly)
      /\ r.items \subseteq OpenIds(Events)
      /\ r.amount = c.amount /\ r.before = c.before /\ r.remaining = c.remaining
      /\ r.tail \in 0..Versions
  BY <1>2, <1>3, SelectedResult DEF Inv
<1>5. PICK n \in Nat : n = Len(obligations) /\ Ids = 1..n /\ DOMAIN obligations = 1..n
  BY ObligationsType DEF Inv
<1>6. r.remaining = r.amount + r.before /\ r.remaining \in Nat
  BY <1>2, <1>3, <1>4, CallFields DEF CallOK
<1>7. Total(r.applied, DOMAIN r.applied) = 0
  <2>1. PICK q : q = r.applied
    OBVIOUS
  <2>2. DOMAIN q = 1..n /\ \A i \in 1..n : q[i] = 0
    BY <1>4, <1>5, <2>1
  <2>3. Total(q, 1..n) = 0
    BY <2>2, Places, TotalZero
  <2>. QED  BY <2>1, <2>2, <2>3
<1>8. r.remaining + Total(r.applied, DOMAIN r.applied) = r.amount + r.before
  BY <1>6, <1>7
<1>9. Len(r.rows) = n /\ Len(r.applied) = n /\ DOMAIN r.rows = 1..n
  <2>1. DOMAIN r.applied = 1..n /\ Len(r.applied) \in Nat /\ DOMAIN r.applied = 1..Len(r.applied)
    BY <1>4, <1>5, CallFields
  <2>. QED  BY <1>4, <1>5, <2>1
<1>10. \A i \in 1..n : Truthful(r.rows[i])
  BY <1>4, <1>5, TruthfulRows DEF Inv
<1>11. /\ r.dues \cup r.items \subseteq 1..n /\ r.dues \cap r.items = {}
       /\ \A i \in r.dues \cup r.items : r.applied[i] = 0
  BY <1>4, <1>5, ContributionsAssumption DEF OpenIds
<1>12. r.tail <= Versions /\ n <= n
  BY <1>4, ContributionsAssumption
<1>13. CallOK(Len(obligations), r)
  BY <1>4, <1>5, <1>8, <1>9, <1>10, <1>11, <1>12 DEF CallOK
<1>. QED  BY <1>2, <1>4, <1>13, CallStep

LEMMA PayEndsStep ==
  ASSUME Inv, NEW h \in Handlers, PayUnselected(h) \/ PayRefused(h)
  PROVE  Inv'
<1>1. /\ handler' = [handler EXCEPT ![h] = Idle]
      /\ UNCHANGED <<configVars, memberVars, ledgerVars>>
  BY DEF PayUnselected, PayRefused, End
<1>. QED  BY <1>1, CallStep

\* A visit takes row i off the list, which changes nothing else.
LEMMA VisitDue ==
  ASSUME NEW n \in Nat, NEW c \in PayCall, CallOK(n, c), NEW i \in c.dues,
         NEW v, v = [c EXCEPT !.dues = @ \ {i}]
  PROVE  /\ v \in PayCall /\ CallOK(n, v) /\ i \notin v.dues \cup v.items
         /\ v.dues = c.dues \ {i} /\ v.rows = c.rows /\ v.applied = c.applied
         /\ v.remaining = c.remaining /\ v.op = c.op /\ v.known = c.known
         /\ v.items = c.items /\ v.mixed = c.mixed /\ v.month = c.month
         /\ v.before = c.before /\ v.amount = c.amount /\ v.touched = c.touched
         /\ v.tail = c.tail /\ v.extended = c.extended
<1>1. PICK dues : dues = c.dues \ {i}
  OBVIOUS
<1>2. v = [c EXCEPT !.dues = dues]
  BY <1>1 DEF PayCall
<1>3. dues \in SUBSET Nat
  BY <1>1 DEF PayCall
<1>4. /\ v \in PayCall
      /\ v.dues = dues /\ v.rows = c.rows /\ v.applied = c.applied
      /\ v.remaining = c.remaining /\ v.op = c.op /\ v.known = c.known
      /\ v.items = c.items /\ v.mixed = c.mixed /\ v.month = c.month
      /\ v.before = c.before /\ v.amount = c.amount /\ v.touched = c.touched
      /\ v.tail = c.tail /\ v.extended = c.extended
  BY <1>2, <1>3 DEF PayCall
<1>5. CallOK(n, v) /\ i \notin v.dues \cup v.items
  BY <1>1, <1>4 DEF CallOK
<1>. QED  BY <1>1, <1>4, <1>5

LEMMA VisitItem ==
  ASSUME NEW n \in Nat, NEW c \in PayCall, CallOK(n, c), NEW i \in c.items,
         NEW v, v = [c EXCEPT !.items = @ \ {i}]
  PROVE  /\ v \in PayCall /\ CallOK(n, v) /\ i \notin v.dues \cup v.items
         /\ v.items = c.items \ {i} /\ v.rows = c.rows /\ v.applied = c.applied
         /\ v.remaining = c.remaining /\ v.op = c.op /\ v.known = c.known
         /\ v.dues = c.dues /\ v.mixed = c.mixed /\ v.month = c.month
         /\ v.before = c.before /\ v.amount = c.amount /\ v.touched = c.touched
         /\ v.tail = c.tail /\ v.extended = c.extended
<1>1. PICK items : items = c.items \ {i}
  OBVIOUS
<1>2. v = [c EXCEPT !.items = items]
  BY <1>1 DEF PayCall
<1>3. items \in SUBSET Nat
  BY <1>1 DEF PayCall
<1>4. /\ v \in PayCall
      /\ v.items = items /\ v.rows = c.rows /\ v.applied = c.applied
      /\ v.remaining = c.remaining /\ v.op = c.op /\ v.known = c.known
      /\ v.dues = c.dues /\ v.mixed = c.mixed /\ v.month = c.month
      /\ v.before = c.before /\ v.amount = c.amount /\ v.touched = c.touched
      /\ v.tail = c.tail /\ v.extended = c.extended
  BY <1>2, <1>3 DEF PayCall
<1>5. CallOK(n, v) /\ i \notin v.dues \cup v.items
  BY <1>1, <1>4 DEF CallOK
<1>. QED  BY <1>1, <1>4, <1>5

\* The two visits, each with what is allocated in it.
PaysDue(c, v, r, i) ==
    /\ c.op = "dues" /\ c.remaining > 0 /\ i \in Oldest(c.rows, c.dues)
    /\ v = [c EXCEPT !.dues = @ \ {i}]
    /\ Allocates(v, r, i, Kind[c.rows[i].plan])
PaysItem(c, v, r, i) ==
    /\ c.op = "items" /\ c.remaining > 0 /\ i \in Oldest(c.rows, c.items)
    /\ v = [c EXCEPT !.items = @ \ {i}]
    /\ Allocates(v, r, i, Kind[c.rows[i].plan])

LEMMA PlanKind == ASSUME NEW o \in Row PROVE Kind[o.plan] \in Kinds
  BY ContributionsAssumption DEF Row, Kinds

LEMMA VisitResult ==
  ASSUME Inv, NEW h \in Handlers, PayDue(h) \/ PayItem(h)
  PROVE  \E c, v, r, i :
            /\ c = handler[h] /\ c \in PayCall /\ CallOK(Len(obligations), c)
            /\ PaysDue(c, v, r, i) \/ PaysItem(c, v, r, i)
            /\ i \in 1..c.known /\ i \in DOMAIN c.rows
            /\ v \in PayCall /\ CallOK(Len(obligations), v)
            /\ i \notin v.dues \cup v.items /\ v.applied[i] = 0 /\ v.op = c.op
            /\ v.rows = c.rows
            /\ handler' = [handler EXCEPT ![h] = r]
            /\ UNCHANGED <<configVars, memberVars, ledgerVars>>
<1>1. PICK c : c = handler[h]
  OBVIOUS
<1>2. c \in PayCall /\ CallOK(Len(obligations), c)
  BY <1>1, CallByOp DEF Inv, PayDue, PayItem
<1>3. PICK n \in Nat : n = Len(obligations)
  BY ObligationsType DEF Inv
<1>4. CASE PayDue(h)
  <2>1. PICK i \in Oldest(c.rows, c.dues) :
           handler' = [handler EXCEPT ![h] =
              Apply([c EXCEPT !.dues = @ \ {i}], i, Kind[c.rows[i].plan])]
    BY <1>1, <1>4 DEF PayDue, Continue
  <2>2. c.op = "dues" /\ c.remaining > 0 /\ UNCHANGED <<configVars, memberVars, ledgerVars>>
    BY <1>1, <1>4 DEF PayDue
  <2>3. i \in c.dues /\ i \in 1..c.known /\ i \in DOMAIN c.rows /\ c.applied[i] = 0
    BY <1>2, <2>1, CallFields DEF CallOK, Oldest
  <2>4. PICK v : v = [c EXCEPT !.dues = @ \ {i}]
    OBVIOUS
  <2>5. /\ v \in PayCall /\ CallOK(n, v) /\ i \notin v.dues \cup v.items
        /\ v.rows = c.rows /\ v.applied = c.applied /\ v.remaining = c.remaining
        /\ v.op = c.op
    BY <1>2, <1>3, <2>3, <2>4, VisitDue
  <2>6. PICK kind, r : kind = Kind[c.rows[i].plan] /\ r = Apply(v, i, kind)
    OBVIOUS
  <2>7. kind \in Kinds
    BY <1>2, <2>3, <2>6, CallFields, PlanKind
  <2>8. Allocates(v, r, i, kind)
    BY <2>2, <2>3, <2>5, <2>6, <2>7, ApplyResult DEF CallOK
  <2>9. handler' = [handler EXCEPT ![h] = r]
    BY <2>1, <2>4, <2>6
  <2>10. PaysDue(c, v, r, i)
    BY <2>1, <2>2, <2>4, <2>6, <2>8 DEF PaysDue
  <2>. QED  BY <1>1, <1>2, <1>3, <2>2, <2>3, <2>5, <2>9, <2>10
<1>5. CASE PayItem(h)
  <2>1. PICK i \in Oldest(c.rows, c.items) :
           handler' = [handler EXCEPT ![h] =
              Apply([c EXCEPT !.items = @ \ {i}], i, Kind[c.rows[i].plan])]
    BY <1>1, <1>5 DEF PayItem, Continue
  <2>2. c.op = "items" /\ c.remaining > 0 /\ UNCHANGED <<configVars, memberVars, ledgerVars>>
    BY <1>1, <1>5 DEF PayItem
  <2>3. i \in c.items /\ i \in 1..c.known /\ i \in DOMAIN c.rows /\ c.applied[i] = 0
    BY <1>2, <2>1, CallFields DEF CallOK, Oldest
  <2>4. PICK v : v = [c EXCEPT !.items = @ \ {i}]
    OBVIOUS
  <2>5. /\ v \in PayCall /\ CallOK(n, v) /\ i \notin v.dues \cup v.items
        /\ v.rows = c.rows /\ v.applied = c.applied /\ v.remaining = c.remaining
        /\ v.op = c.op
    BY <1>2, <1>3, <2>3, <2>4, VisitItem
  <2>6. PICK kind, r : kind = Kind[c.rows[i].plan] /\ r = Apply(v, i, kind)
    OBVIOUS
  <2>7. kind \in Kinds
    BY <1>2, <2>3, <2>6, CallFields, PlanKind
  <2>8. Allocates(v, r, i, kind)
    BY <2>2, <2>3, <2>5, <2>6, <2>7, ApplyResult DEF CallOK
  <2>9. handler' = [handler EXCEPT ![h] = r]
    BY <2>1, <2>4, <2>6
  <2>10. PaysItem(c, v, r, i)
    BY <2>1, <2>2, <2>4, <2>6, <2>8 DEF PaysItem
  <2>. QED  BY <1>1, <1>2, <1>3, <2>2, <2>3, <2>5, <2>9, <2>10
<1>. QED  BY <1>4, <1>5

LEMMA VisitStep ==
  ASSUME Inv, NEW h \in Handlers, PayDue(h) \/ PayItem(h)
  PROVE  Inv'
<1>1. PICK c, v, r, i :
         /\ PaysDue(c, v, r, i) \/ PaysItem(c, v, r, i)
         /\ i \in DOMAIN c.rows
         /\ v \in PayCall /\ CallOK(Len(obligations), v)
         /\ i \notin v.dues \cup v.items /\ v.applied[i] = 0 /\ v.op = c.op
         /\ v.rows = c.rows
         /\ handler' = [handler EXCEPT ![h] = r]
         /\ UNCHANGED <<configVars, memberVars, ledgerVars>>
  BY VisitResult
<1>2. PICK kind : Allocates(v, r, i, kind)
  BY <1>1 DEF PaysDue, PaysItem
<1>3. v.op # "read" /\ i \in DOMAIN v.rows
  BY <1>1 DEF PaysDue, PaysItem
<1>4. PICK n \in Nat : n = Len(obligations)
  BY ObligationsType DEF Inv
<1>5. CallOK(n, r)
  BY <1>1, <1>2, <1>3, <1>4, AllocatesOK
<1>6. r \in PayCall
  BY <1>2 DEF Allocates
<1>. QED  BY <1>1, <1>4, <1>5, <1>6, CallStep

\* Where the allocation goes on once the dues were visited.
Anchored(c, r) ==
    \E call : /\ call = [c EXCEPT
                           !.month = IF @ # 0 THEN @
                                     ELSE IF PaidUp # {} THEN Max(PaidUp) ELSE month,
                           !.tail = IF @ # 0 THEN @ ELSE version]
              /\ r = [call EXCEPT !.op = IF Extends(call) THEN "extend" ELSE "items"]

LEMMA AnchoredResult ==
  ASSUME TypeOK, NEW c \in PayCall, c.tail <= Versions, NEW r, Anchored(c, r)
  PROVE  /\ r \in PayCall
         /\ r.op \in {"extend", "items"} /\ r.rows = c.rows /\ r.known = c.known
         /\ r.applied = c.applied /\ r.dues = c.dues /\ r.items = c.items
         /\ r.mixed = c.mixed /\ r.touched = c.touched /\ r.extended = c.extended
         /\ r.amount = c.amount /\ r.before = c.before /\ r.remaining = c.remaining
         /\ r.tail <= Versions
         /\ r.month = IF c.month # 0 THEN c.month
                      ELSE IF PaidUp # {} THEN Max(PaidUp) ELSE month
         /\ r.op = "extend" => r.tail > 0 /\ r.remaining > 0 /\ ~r.mixed
<1>1. PICK mo, tail :
         /\ mo = (IF c.month # 0 THEN c.month
                  ELSE IF PaidUp # {} THEN Max(PaidUp) ELSE month)
         /\ tail = IF c.tail # 0 THEN c.tail ELSE version
  OBVIOUS
<1>2. PICK call : /\ call = [c EXCEPT !.month = mo, !.tail = tail]
                  /\ r = [call EXCEPT !.op = IF Extends(call) THEN "extend" ELSE "items"]
  BY <1>1 DEF Anchored, PayCall
<1>3. mo \in Nat
  <2>1. PaidUp # {} => Max(PaidUp) \in Nat
    BY LastDue DEF TypeOK
  <2>2. MaxMonth \in Nat /\ month \in Nat /\ c.month \in Nat
    BY ContributionsAssumption, CallFields DEF TypeOK
  <2>. QED  BY <1>1, <2>1, <2>2
<1>4. tail \in Nat /\ tail <= Versions
  BY <1>1, CallFields, ContributionsAssumption DEF TypeOK
<1>5. /\ call \in PayCall /\ call.month = mo /\ call.tail = tail
      /\ call.rows = c.rows /\ call.known = c.known
      /\ call.applied = c.applied /\ call.dues = c.dues /\ call.items = c.items
      /\ call.mixed = c.mixed /\ call.touched = c.touched /\ call.extended = c.extended
      /\ call.amount = c.amount /\ call.before = c.before /\ call.remaining = c.remaining
  BY <1>2, <1>3, <1>4 DEF PayCall
<1>6. PICK op : op = IF Extends(call) THEN "extend" ELSE "items"
  OBVIOUS
<1>7. r = [call EXCEPT !.op = op] /\ op \in {"extend", "items"}
  BY <1>2, <1>6
<1>8. /\ r \in PayCall /\ r.op = op /\ r.month = call.month /\ r.tail = call.tail
      /\ r.rows = call.rows /\ r.known = call.known
      /\ r.applied = call.applied /\ r.dues = call.dues /\ r.items = call.items
      /\ r.mixed = call.mixed /\ r.touched = call.touched /\ r.extended = call.extended
      /\ r.amount = call.amount /\ r.before = call.before /\ r.remaining = call.remaining
  BY <1>5, <1>7 DEF PayCall
<1>9. op = "extend" => call.tail > 0 /\ call.remaining > 0 /\ ~call.mixed
  BY <1>6 DEF Extends
<1>. QED  BY <1>1, <1>4, <1>5, <1>7, <1>8, <1>9

LEMMA PayAnchorIs ==
  ASSUME NEW h \in Handlers, PayAnchor(h)
  PROVE  \E r : /\ Anchored(handler[h], r) /\ handler' = [handler EXCEPT ![h] = r]
                /\ DuesVisited(handler[h]) /\ handler[h].op = "dues"
                /\ UNCHANGED <<configVars, memberVars, ledgerVars>>
  BY DEF PayAnchor, Anchored, Continue, PaidUp, DuesVisited

LEMMA PayAnchorStep ==
  ASSUME Inv, NEW h \in Handlers, PayAnchor(h)
  PROVE  Inv'
<1>1. PICK c : c = handler[h]
  OBVIOUS
<1>2. PICK r : /\ Anchored(c, r) /\ handler' = [handler EXCEPT ![h] = r]
               /\ DuesVisited(c) /\ c.op = "dues"
               /\ UNCHANGED <<configVars, memberVars, ledgerVars>>
  BY <1>1, PayAnchorIs
<1>3. c \in PayCall /\ CallOK(Len(obligations), c)
  BY <1>1, <1>2, CallByOp DEF Inv
<1>4. /\ r \in PayCall
      /\ r.op \in {"extend", "items"} /\ r.rows = c.rows /\ r.known = c.known
      /\ r.applied = c.applied /\ r.dues = c.dues /\ r.items = c.items
      /\ r.amount = c.amount /\ r.before = c.before /\ r.remaining = c.remaining
      /\ r.tail <= Versions /\ (r.op = "extend" => r.tail > 0)
  BY <1>2, <1>3, AnchoredResult DEF Inv, CallOK
<1>5. CallOK(Len(obligations), r)
  BY <1>3, <1>4 DEF CallOK
<1>. QED  BY <1>2, <1>4, <1>5, CallStep

\* One more month: the row is added, and then paid.
Grows(c, g) ==
    \E due, plan :
       /\ due = c.month + 1 /\ plan = InForce(c.tail, due)
       /\ g = [c EXCEPT
                  !.month = due,
                  !.extended = @ + 1,
                  !.rows = Append(@, [plan |-> plan, due |-> due,
                                      amount |-> Rate[plan], paid |-> 0,
                                      status |-> "DUE"]),
                  !.applied = Append(@, 0)]

LEMMA GrowsResult ==
  ASSUME NEW n \in Nat, NEW c \in PayCall, CallOK(n, c), c.op = "extend",
         NEW g, Grows(c, g)
  PROVE  LET i == Len(c.rows) + 1 IN
         /\ g \in PayCall /\ CallOK(n, g) /\ Len(g.rows) = i /\ Len(g.applied) = i
         /\ DOMAIN g.rows = 1..i
         /\ \A j \in DOMAIN c.rows : g.rows[j] = c.rows[j] /\ g.applied[j] = c.applied[j]
         /\ g.rows[i] \in Row /\ g.rows[i].plan \in Monthly /\ g.rows[i].due = c.month + 1
         /\ g.rows[i].paid = 0 /\ g.rows[i].amount = Rate[g.rows[i].plan]
         /\ g.applied[i] = 0
         /\ g.month = c.month + 1 /\ g.op = c.op /\ g.known = c.known /\ g.mixed = c.mixed
         /\ g.remaining = c.remaining /\ g.before = c.before /\ g.amount = c.amount
         /\ g.dues = c.dues /\ g.items = c.items /\ g.touched = c.touched
         /\ i \notin c.dues \cup c.items
<1>1. PICK due, plan :
       /\ due = c.month + 1 /\ plan = InForce(c.tail, due)
       /\ g = [c EXCEPT
                  !.month = due,
                  !.extended = @ + 1,
                  !.rows = Append(@, [plan |-> plan, due |-> due,
                                      amount |-> Rate[plan], paid |-> 0,
                                      status |-> "DUE"]),
                  !.applied = Append(@, 0)]
  BY DEF Grows
<1>2. PICK k \in Nat : k = Len(c.rows) /\ k = Len(c.applied) /\ DOMAIN c.rows = 1..k
                       /\ DOMAIN c.applied = 1..k
  BY CallFields DEF CallOK
<1>3. due \in Nat /\ plan \in Monthly /\ c.extended + 1 \in Nat
  <2>1. c.tail \in Monthly /\ c.month \in Nat /\ c.extended \in Nat
    BY CallFields, ContributionsAssumption DEF CallOK, Monthly
  <2>2. due \in Nat
    BY <1>1, <2>1
  <2>. QED  BY <1>1, <2>1, <2>2, InForceType
<1>4. PICK row : row = [plan |-> plan, due |-> due, amount |-> Rate[plan], paid |-> 0,
                        status |-> "DUE"]
  OBVIOUS
<1>5. row \in Row /\ Truthful(row)
  <2>1. plan \in Plans /\ Rate[plan] \in Nat
    BY <1>3, ContributionsAssumption DEF Plans
  <2>. QED  BY <1>3, <1>4, <2>1 DEF Row, Open, Truthful
<1>6. PICK rows, applied : rows = Append(c.rows, row) /\ applied = Append(c.applied, 0)
  OBVIOUS
<1>7. /\ rows \in Seq(Row) /\ Len(rows) = k + 1 /\ rows[k + 1] = row
      /\ \A j \in 1..k : rows[j] = c.rows[j]
  BY <1>2, <1>5, <1>6, CallFields, AppendProperties
<1>8. /\ applied \in Seq(Nat) /\ Len(applied) = k + 1 /\ applied[k + 1] = 0
      /\ \A j \in 1..k : applied[j] = c.applied[j]
  <2>1. c.applied \in Seq(Nat) /\ 0 \in Nat
    BY CallFields
  <2>. QED  BY <1>2, <1>6, <2>1, AppendProperties
<1>9. g = [c EXCEPT !.month = due, !.extended = c.extended + 1, !.rows = rows,
                    !.applied = applied]
  BY <1>1, <1>4, <1>6 DEF PayCall
<1>10. /\ g \in PayCall /\ g.rows = rows /\ g.applied = applied
       /\ g.month = due /\ g.op = c.op /\ g.known = c.known /\ g.mixed = c.mixed
       /\ g.remaining = c.remaining /\ g.before = c.before /\ g.amount = c.amount
       /\ g.dues = c.dues /\ g.items = c.items /\ g.touched = c.touched /\ g.tail = c.tail
  BY <1>3, <1>7, <1>8, <1>9 DEF PayCall
<1>11. DOMAIN rows = 1..(k + 1) /\ DOMAIN applied = 1..(k + 1)
  BY <1>7, <1>8, LenProperties
<1>12. Total(applied, DOMAIN applied) = Total(c.applied, DOMAIN c.applied)
  <2>1. PICK a, b : a = c.applied /\ b = applied
    OBVIOUS
  <2>2. \A j \in 1..k : a[j] \in Int /\ b[j] = a[j]
    BY <1>2, <1>8, <2>1, CallFields
  <2>3. Total(b, 1..k) = Total(a, 1..k)
    BY <2>2, Places, TotalEqual
  <2>4. \A j \in 1..(k + 1) : b[j] \in Int
    BY <1>8, <1>11, <2>1, ElementOfSeq
  <2>5. Total(b, 1..(k + 1)) = Total(b, 1..k) + b[k + 1] /\ Total(b, 1..k) \in Int
    BY <2>4, TotalFirst
  <2>6. Total(b, 1..(k + 1)) = Total(b, 1..k)
    BY <1>8, <2>1, <2>5
  <2>. QED  BY <1>2, <1>11, <2>1, <2>3, <2>6
<1>13. \A j \in 1..(k + 1) : Truthful(rows[j])
  <2>1. \A j \in 1..(k + 1) : j \in 1..k \/ j = k + 1
    OBVIOUS
  <2>. QED  BY <1>2, <1>5, <1>7, <2>1 DEF CallOK
<1>14. c.known <= k + 1 /\ c.known <= n /\ c.known \in Nat /\ c.known <= k
  BY <1>2, CallFields DEF CallOK
<1>15. c.dues \cup c.items \subseteq 1..k /\ k + 1 \notin 1..k
  BY <1>2, <1>14 DEF CallOK
<1>16. \A j \in c.dues \cup c.items : applied[j] = 0
  BY <1>8, <1>15 DEF CallOK
<1>17. CallOK(n, g)
  BY <1>7, <1>8, <1>10, <1>11, <1>12, <1>13, <1>14, <1>16 DEF CallOK
<1>18. /\ g.rows[k + 1] = row /\ row.plan = plan /\ row.due = due /\ row.paid = 0
       /\ row.amount = Rate[plan]
  BY <1>4, <1>7, <1>10
<1>19. g.applied[k + 1] = 0
  BY <1>8, <1>10
<1>. QED
  BY <1>1, <1>2, <1>3, <1>5, <1>7, <1>8, <1>10, <1>11, <1>15, <1>17, <1>18, <1>19

LEMMA ExtendResult ==
  ASSUME Inv, NEW h \in Handlers, PayExtend(h)
  PROVE  \E c, g, r :
            /\ c = handler[h] /\ c \in PayCall /\ CallOK(Len(obligations), c)
            /\ c.op = "extend" /\ c.remaining > 0
            /\ Grows(c, g) /\ Allocates(g, r, Len(c.rows) + 1, "fixed")
            /\ handler' = [handler EXCEPT ![h] = r]
            /\ UNCHANGED <<configVars, memberVars, ledgerVars>>
<1>1. PICK c : c = handler[h]
  OBVIOUS
<1>2. c \in PayCall /\ CallOK(Len(obligations), c) /\ c.op = "extend" /\ c.remaining > 0
  BY <1>1, CallByOp DEF Inv, PayExtend
<1>3. PICK g : /\ Grows(c, g)
               /\ handler' = [handler EXCEPT ![h] = Apply(g, Len(g.rows), "fixed")]
               /\ UNCHANGED <<configVars, memberVars, ledgerVars>>
  BY <1>1 DEF PayExtend, Grows, Continue
<1>4. PICK n \in Nat : n = Len(obligations)
  BY ObligationsType DEF Inv
<1>5. PICK i : i = Len(c.rows) + 1
  OBVIOUS
<1>6. /\ g \in PayCall /\ CallOK(n, g) /\ Len(g.rows) = i /\ DOMAIN g.rows = 1..i
      /\ g.applied[i] = 0 /\ g.remaining = c.remaining
  BY <1>2, <1>3, <1>4, <1>5, GrowsResult
<1>7. i \in DOMAIN g.rows /\ Truthful(g.rows[i]) /\ Len(g.applied) = Len(g.rows)
  <2>1. Len(c.rows) \in Nat
    BY <1>2, CallFields
  <2>2. i \in 1..i
    BY <1>5, <2>1
  <2>. QED  BY <1>6, <2>2 DEF CallOK
<1>8. "fixed" \in Kinds
  BY DEF Kinds
<1>9. PICK kind, r : kind = "fixed" /\ r = Apply(g, i, kind)
  OBVIOUS
<1>10. Allocates(g, r, i, kind)
  BY <1>2, <1>6, <1>7, <1>8, <1>9, ApplyResult
<1>. QED  BY <1>1, <1>2, <1>3, <1>5, <1>6, <1>9, <1>10

LEMMA PayExtendStep ==
  ASSUME Inv, NEW h \in Handlers, PayExtend(h)
  PROVE  Inv'
<1>1. PICK c, g, r :
         /\ c \in PayCall /\ CallOK(Len(obligations), c) /\ c.op = "extend"
         /\ Grows(c, g) /\ Allocates(g, r, Len(c.rows) + 1, "fixed")
         /\ handler' = [handler EXCEPT ![h] = r]
         /\ UNCHANGED <<configVars, memberVars, ledgerVars>>
  BY ExtendResult
<1>2. PICK n \in Nat : n = Len(obligations)
  BY ObligationsType DEF Inv
<1>3. PICK i, kind : i = Len(c.rows) + 1 /\ kind = "fixed"
  OBVIOUS
<1>4. /\ g \in PayCall /\ CallOK(n, g) /\ i \in DOMAIN g.rows /\ g.applied[i] = 0
      /\ i \notin g.dues \cup g.items /\ g.op # "read"
  <2>1. /\ g \in PayCall /\ CallOK(n, g) /\ DOMAIN g.rows = 1..i /\ g.applied[i] = 0
        /\ i \notin c.dues \cup c.items /\ g.dues = c.dues /\ g.items = c.items
        /\ g.op = c.op
    BY <1>1, <1>2, <1>3, GrowsResult
  <2>2. i \in 1..i
    BY <1>1, <1>3, CallFields
  <2>. QED  BY <1>1, <2>1, <2>2
<1>5. Allocates(g, r, i, kind)
  BY <1>1, <1>3
<1>6. CallOK(n, r)
  BY <1>4, <1>5, AllocatesOK
<1>7. r \in PayCall
  BY <1>5 DEF Allocates
<1>. QED  BY <1>1, <1>2, <1>6, <1>7, CallStep

\* The rows and the lines of income that a payment leaves.
LEMMA WrittenRows ==
  ASSUME TypeOK, NEW c \in PayCall, CallOK(Len(obligations), c)
  PROVE  /\ Written(c) \in Seq(Row)
         /\ Len(Written(c)) = Len(obligations) + (Len(c.rows) - c.known)
         /\ \A i \in Ids : Written(c)[i] = IF i <= c.known /\ c.applied[i] > 0
                                           THEN c.rows[i] ELSE obligations[i]
         /\ \A j \in 1..(Len(c.rows) - c.known) :
               Written(c)[Len(obligations) + j] = c.rows[c.known + j]
<1>1. PICK n \in Nat : n = Len(obligations)
  BY ObligationsType
<1>2. PICK k \in Nat : k = c.known
  BY CallFields
<1>3. PICK m \in Nat : m = Len(c.rows)
  BY CallFields
<1>4. k <= n /\ k <= m
  BY <1>1, <1>2, <1>3 DEF CallOK
<1>5. PICK A : A = [i \in Ids |-> IF i <= c.known /\ c.applied[i] > 0
                                  THEN c.rows[i] ELSE obligations[i]]
  OBVIOUS
<1>6. PICK B : B = SubSeq(c.rows, c.known + 1, Len(c.rows))
  OBVIOUS
<1>7. \A i \in 1..m : c.rows[i] \in Row
  BY <1>3, CallFields
<1>8. A \in Seq(Row) /\ Len(A) = n /\ \A i \in 1..n : A[i] = IF i <= k /\ c.applied[i] > 0
                                                             THEN c.rows[i] ELSE obligations[i]
  <2>1. Ids = 1..n /\ \A i \in 1..n : obligations[i] \in Row
    BY <1>1, ObligationsType
  <2>2. DOMAIN A = 1..n /\ A \in [1..n -> Row]
    BY <1>2, <1>4, <1>5, <1>7, <2>1
  <2>3. A \in Seq(Row)
    BY <2>2, SeqDef
  <2>4. Len(A) = n
    BY <2>2, <2>3, LenProperties
  <2>. QED  BY <1>2, <1>5, <2>1, <2>3, <2>4
<1>9. B \in Seq(Row) /\ Len(B) = m - k /\ \A j \in 1..(m - k) : B[j] = c.rows[k + j]
  <2>1. PICK rows : rows = c.rows
    OBVIOUS
  <2>2. k + 1 \in Int /\ m \in Int /\ \A i \in (k + 1)..m : rows[i] \in Row
    BY <1>7, <2>1
  <2>3. B = SubSeq(rows, k + 1, m)
    BY <1>2, <1>3, <1>6, <2>1
  <2>4. /\ B \in Seq(Row) /\ Len(B) = IF k + 1 <= m THEN m - (k + 1) + 1 ELSE 0
        /\ \A j \in 1..(m - (k + 1) + 1) : B[j] = rows[(k + 1) + j - 1]
    BY <2>2, <2>3, SubSeqProperties
  <2>5. m - (k + 1) + 1 = m - k /\ \A j \in 1..(m - k) : (k + 1) + j - 1 = k + j
    OBVIOUS
  <2>. QED  BY <1>4, <2>1, <2>4, <2>5
<1>10. PICK W : W = Written(c) /\ W = A \o B
  BY <1>5, <1>6 DEF Written
<1>11. /\ W \in Seq(Row) /\ Len(W) = n + (m - k)
       /\ \A i \in 1..(n + (m - k)) : W[i] = IF i <= n THEN A[i] ELSE B[i - n]
  <2>1. A \in Seq(Row) /\ B \in Seq(Row) /\ Len(A) = n /\ Len(B) = m - k
    BY <1>8, <1>9
  <2>2. /\ A \o B \in Seq(Row) /\ Len(A \o B) = Len(A) + Len(B)
        /\ \A i \in 1..(Len(A) + Len(B)) :
              (A \o B)[i] = IF i <= Len(A) THEN A[i] ELSE B[i - Len(A)]
    BY <2>1, ConcatProperties
  <2>. QED  BY <1>10, <2>1, <2>2
<1>12. \A i \in 1..n : W[i] = A[i]
  <2>1. \A i \in 1..n : i \in 1..(n + (m - k)) /\ i <= n
    BY <1>4
  <2>. QED  BY <1>11, <2>1
<1>13. \A j \in 1..(m - k) : W[n + j] = B[j]
  <2>1. \A j \in 1..(m - k) : n + j \in 1..(n + (m - k)) /\ ~(n + j <= n) /\ (n + j) - n = j
    BY <1>4
  <2>. QED  BY <1>11, <2>1
<1>14. Ids = 1..n
  BY <1>1, ObligationsType
<1>. QED  BY <1>1, <1>2, <1>3, <1>8, <1>9, <1>10, <1>11, <1>12, <1>13, <1>14

\* The entry of a payment has a line for each of its allocations.
LEMMA PaymentLines ==
  ASSUME TypeOK, NEW c \in PayCall, CallOK(Len(obligations), c), NEW e, e = PaymentEntry(c)
  PROVE  /\ e \in Entry /\ e.reversal = FALSE /\ e.fund = c.fund
         /\ e.received = c.amount /\ e.parked = CreditChange(c)
         /\ Len(e.lines) = Len(obligations) + (Len(c.rows) - c.known)
         /\ DOMAIN e.lines = 1..(Len(obligations) + (Len(c.rows) - c.known))
         /\ \A i \in Ids : e.lines[i] = IF i <= c.known THEN c.applied[i] ELSE 0
         /\ \A j \in 1..(Len(c.rows) - c.known) :
               e.lines[Len(obligations) + j] = c.applied[c.known + j]
         /\ \A i \in DOMAIN e.lines : e.lines[i] \in Nat
<1>1. PICK n \in Nat : n = Len(obligations)
  BY ObligationsType
<1>2. PICK k \in Nat : k = c.known
  BY CallFields
<1>3. PICK m \in Nat : m = Len(c.applied) /\ m = Len(c.rows)
  BY CallFields DEF CallOK
<1>4. k <= n /\ k <= m
  BY <1>1, <1>2, <1>3 DEF CallOK
<1>5. PICK A : A = [i \in Ids |-> IF i <= c.known THEN c.applied[i] ELSE 0]
  OBVIOUS
<1>6. PICK B : B = SubSeq(c.applied, c.known + 1, Len(c.applied))
  OBVIOUS
<1>7. \A i \in 1..m : c.applied[i] \in Nat
  BY <1>3, CallFields
<1>8. A \in Seq(Nat) /\ Len(A) = n
      /\ \A i \in 1..n : A[i] = IF i <= k THEN c.applied[i] ELSE 0
  <2>1. Ids = 1..n
    BY <1>1, ObligationsType
  <2>2. \A i \in 1..n : (IF i <= k THEN c.applied[i] ELSE 0) \in Nat
    BY <1>4, <1>7
  <2>3. DOMAIN A = 1..n /\ A \in [1..n -> Nat]
    BY <1>2, <1>5, <2>1, <2>2
  <2>4. A \in Seq(Nat)
    BY <2>3, SeqDef
  <2>5. Len(A) = n
    BY <2>3, <2>4, LenProperties
  <2>. QED  BY <1>2, <1>5, <2>1, <2>4, <2>5
<1>9. B \in Seq(Nat) /\ Len(B) = m - k /\ \A j \in 1..(m - k) : B[j] = c.applied[k + j]
  <2>1. PICK a : a = c.applied
    OBVIOUS
  <2>2. k + 1 \in Int /\ m \in Int /\ \A i \in (k + 1)..m : a[i] \in Nat
    BY <1>7, <2>1
  <2>3. B = SubSeq(a, k + 1, m)
    BY <1>2, <1>3, <1>6, <2>1
  <2>4. /\ B \in Seq(Nat) /\ Len(B) = IF k + 1 <= m THEN m - (k + 1) + 1 ELSE 0
        /\ \A j \in 1..(m - (k + 1) + 1) : B[j] = a[(k + 1) + j - 1]
    BY <2>2, <2>3, SubSeqProperties
  <2>5. m - (k + 1) + 1 = m - k /\ \A j \in 1..(m - k) : (k + 1) + j - 1 = k + j
    OBVIOUS
  <2>. QED  BY <1>4, <2>1, <2>4, <2>5
<1>10. PICK W : W = e.lines /\ W = A \o B
  BY <1>5, <1>6 DEF PaymentEntry
<1>11. /\ W \in Seq(Nat) /\ Len(W) = n + (m - k)
       /\ \A i \in 1..(n + (m - k)) : W[i] = IF i <= n THEN A[i] ELSE B[i - n]
  <2>1. A \in Seq(Nat) /\ B \in Seq(Nat) /\ Len(A) = n /\ Len(B) = m - k
    BY <1>8, <1>9
  <2>2. /\ A \o B \in Seq(Nat) /\ Len(A \o B) = Len(A) + Len(B)
        /\ \A i \in 1..(Len(A) + Len(B)) :
              (A \o B)[i] = IF i <= Len(A) THEN A[i] ELSE B[i - Len(A)]
    BY <2>1, ConcatProperties
  <2>. QED  BY <1>10, <2>1, <2>2
<1>12. \A i \in 1..n : W[i] = A[i]
  <2>1. \A i \in 1..n : i \in 1..(n + (m - k)) /\ i <= n
    BY <1>4
  <2>. QED  BY <1>11, <2>1
<1>13. \A j \in 1..(m - k) : W[n + j] = B[j]
  <2>1. \A j \in 1..(m - k) : n + j \in 1..(n + (m - k)) /\ ~(n + j <= n) /\ (n + j) - n = j
    BY <1>4
  <2>. QED  BY <1>11, <2>1
<1>14. Ids = 1..n
  BY <1>1, ObligationsType
<1>15. /\ e.fund = c.fund /\ e.received = c.amount /\ e.parked = CreditChange(c)
       /\ e.reversal = FALSE
  BY DEF PaymentEntry
<1>16. e \in Entry
  <2>1. c.fund \in Funds /\ c.amount \in Int
    BY CallFields
  <2>2. CreditChange(c) \in Int
    BY CallFields DEF CreditChange
  <2>3. W \in Seq(Int)
    <3>1. Nat \subseteq Int
      OBVIOUS
    <3>. QED  BY <1>11, <3>1, SeqMonotonic
  <2>4. e = [fund |-> c.fund, received |-> c.amount, parked |-> CreditChange(c),
             lines |-> W, reversal |-> FALSE]
    BY <1>10 DEF PaymentEntry
  <2>. QED  BY <2>1, <2>2, <2>3, <2>4 DEF Entry
<1>17. DOMAIN W = 1..(n + (m - k)) /\ \A i \in DOMAIN W : W[i] \in Nat
  BY <1>11, LenProperties, ElementOfSeq
<1>. QED  BY <1>1, <1>2, <1>3, <1>8, <1>9, <1>10, <1>11, <1>12, <1>13, <1>14, <1>15, <1>16, <1>17

LEMMA EntryFields ==
  ASSUME NEW e \in Entry
  PROVE  /\ e.fund \in Funds /\ e.received \in Int /\ e.parked \in Int
         /\ e.lines \in Seq(Int) /\ Len(e.lines) \in Nat /\ DOMAIN e.lines = 1..Len(e.lines)
         /\ \A i \in DOMAIN e.lines : e.lines[i] \in Int
         /\ \A i : LineOf(e, i) \in Int
<1>1. /\ e.fund \in Funds /\ e.received \in Int /\ e.parked \in Int /\ e.lines \in Seq(Int)
  BY DEF Entry
<1>2. /\ Len(e.lines) \in Nat /\ DOMAIN e.lines = 1..Len(e.lines)
      /\ \A i \in DOMAIN e.lines : e.lines[i] \in Int
  BY <1>1, LenProperties, ElementOfSeq
<1>. QED  BY <1>1, <1>2 DEF LineOf

\* The contra entry takes back every line.
LEMMA ContraLines ==
  ASSUME NEW f \in Entry, NEW e, e = ContraEntry(f)
  PROVE  /\ e \in Entry /\ e.reversal = TRUE /\ e.fund = f.fund
         /\ e.received = -f.received /\ e.parked = -f.parked
         /\ Len(e.lines) = Len(f.lines) /\ DOMAIN e.lines = DOMAIN f.lines
         /\ \A i \in DOMAIN f.lines : e.lines[i] = -f.lines[i]
<1>1. PICK n \in Nat : n = Len(f.lines) /\ DOMAIN f.lines = 1..n
  BY EntryFields
<1>2. PICK q : q = [i \in DOMAIN f.lines |-> -f.lines[i]]
  OBVIOUS
<1>3. q \in [1..n -> Int] /\ DOMAIN q = 1..n
  <2>1. \A i \in 1..n : -f.lines[i] \in Int
    BY <1>1, EntryFields
  <2>. QED  BY <1>1, <1>2, <2>1
<1>4. q \in Seq(Int) /\ Len(q) = n
  <2>1. q \in Seq(Int)
    BY <1>3, SeqDef
  <2>. QED  BY <1>3, <2>1, LenProperties
<1>5. f = [fund |-> f.fund, received |-> f.received, parked |-> f.parked,
           lines |-> f.lines, reversal |-> f.reversal]
  BY DEF Entry
<1>6. e = [fund |-> f.fund, received |-> -f.received, parked |-> -f.parked,
           lines |-> q, reversal |-> TRUE]
  BY <1>2, <1>5 DEF ContraEntry
<1>7. f.fund \in Funds /\ -f.received \in Int /\ -f.parked \in Int
  BY EntryFields
<1>8. e \in Entry
  BY <1>4, <1>6, <1>7 DEF Entry
<1>. QED  BY <1>1, <1>2, <1>3, <1>4, <1>6, <1>8

\* What posting an entry does to the accounts.
LEMMA EntryPosts ==
  ASSUME TypeOK, NEW e \in Entry, PostEntry(e),
         NEW N \in Nat, DOMAIN obligations' = 1..N, Len(obligations) <= N
  PROVE  /\ income' \in Seq(Int) /\ Len(income') = N
         /\ \A i \in 1..N : income'[i] = (IF i \in Ids THEN income[i] ELSE 0) + LineOf(e, i)
         /\ liability' = [liability EXCEPT ![e.fund] = @ + e.parked]
         /\ liability' \in [Funds -> Int]
         /\ received' = received + e.received /\ received' \in Int
         /\ journal' = Append(journal, e)
<1>1. \A i \in 1..N : (IF i \in Ids THEN income[i] ELSE 0) + LineOf(e, i) \in Int
  <2>1. \A i \in 1..N : (IF i \in Ids THEN income[i] ELSE 0) \in Int
    BY ObligationsType
  <2>2. \A i \in 1..N : LineOf(e, i) \in Int
    BY EntryFields
  <2>. QED  BY <2>1, <2>2
<1>2. income' = [i \in 1..N |-> (IF i \in Ids THEN income[i] ELSE 0) + LineOf(e, i)]
  BY DEF PostEntry
<1>3. income' \in [1..N -> Int] /\ DOMAIN income' = 1..N
  BY <1>1, <1>2
<1>4. income' \in Seq(Int) /\ Len(income') = N
  <2>1. income' \in Seq(Int)
    BY <1>3, SeqDef
  <2>. QED  BY <1>3, <2>1, LenProperties
<1>5. /\ liability' = [liability EXCEPT ![e.fund] = @ + e.parked]
      /\ received' = received + e.received /\ journal' = Append(journal, e)
  BY DEF PostEntry
<1>6. received \in Int /\ liability \in [Funds -> Int] /\ e.fund \in Funds
      /\ e.parked \in Int /\ e.received \in Int
  BY EntryFields DEF TypeOK
<1>7. liability[e.fund] + e.parked \in Int /\ received + e.received \in Int
  <2>1. liability[e.fund] \in Int
    BY <1>6
  <2>. QED  BY <1>6, <2>1
<1>8. liability' \in [Funds -> Int]
  BY <1>5, <1>6, <1>7
<1>. QED  BY <1>2, <1>4, <1>5, <1>7, <1>8

LEMMA PayCommitIs ==
  ASSUME Inv, NEW h \in Handlers, PayCommit(h)
  PROVE  \E c : /\ c = handler[h] /\ c \in PayCall /\ CallOK(Len(obligations), c)
                /\ Allocated(c) /\ c.op \in {"extend", "items"}
                /\ obligations' = Written(c) /\ credit' = c.remaining
                /\ PostEntry(PaymentEntry(c))
                /\ handler' = [handler EXCEPT ![h] = Idle]
                /\ UNCHANGED configVars
<1>1. handler[h].op \in {"extend", "items"}
  BY DEF PayCommit, Allocated
<1>2. handler[h] \in PayCall /\ CallOK(Len(obligations), handler[h])
  BY <1>1, CallByOp DEF Inv
<1>3. PICK c : c = handler[h]
  OBVIOUS
<1>. QED  BY <1>1, <1>2, <1>3 DEF PayCommit, End

LEMMA PayCommitStep ==
  ASSUME Inv, NEW h \in Handlers, PayCommit(h)
  PROVE  Inv'
<1>1. PICK c : /\ c = handler[h] /\ c \in PayCall /\ CallOK(Len(obligations), c)
               /\ obligations' = Written(c) /\ credit' = c.remaining
               /\ PostEntry(PaymentEntry(c))
               /\ handler' = [handler EXCEPT ![h] = Idle]
               /\ UNCHANGED configVars
  BY PayCommitIs
<1>2. PICK n, k, m : /\ n \in Nat /\ k \in Nat /\ m \in Nat
                     /\ n = Len(obligations) /\ k = c.known /\ m = Len(c.rows)
  BY <1>1, ObligationsType, CallFields DEF Inv
<1>3. k <= n /\ k <= m
  BY <1>1, <1>2 DEF CallOK
<1>4. PICK W : W = Written(c)
  OBVIOUS
<1>5. /\ W \in Seq(Row) /\ Len(W) = n + (m - k)
      /\ \A i \in Ids : W[i] = IF i <= k /\ c.applied[i] > 0 THEN c.rows[i] ELSE obligations[i]
      /\ \A j \in 1..(m - k) : W[n + j] = c.rows[k + j]
  BY <1>1, <1>2, <1>4, WrittenRows DEF Inv
<1>a. PICK e : e = PaymentEntry(c)
  OBVIOUS
<1>b. PICK N \in Nat : N = n + (m - k)
  <2>1. n + (m - k) \in Nat
    BY <1>2, <1>3
  <2>. QED  BY <2>1
<1>c. e \in Entry /\ Len(e.lines) = N /\ PostEntry(e)
  BY <1>1, <1>2, <1>a, <1>b, PaymentLines DEF Inv
<1>d. DOMAIN obligations' = 1..N /\ Len(obligations') = N /\ Len(obligations) <= N
  BY <1>1, <1>2, <1>3, <1>4, <1>5, <1>b, LenProperties
<1>6. /\ income' \in Seq(Int) /\ Len(income') = N
      /\ liability' \in [Funds -> Int] /\ received' \in Int /\ journal' = Append(journal, e)
  BY <1>c, <1>d, EntryPosts DEF Inv
<1>e. journal' \in Seq(Entry) /\ LinesKnown'
  BY <1>6, <1>c, <1>d, JournalGrows
<1>7. standing' \in Standings
  <2>1. PICK r, q :
            /\ standing' = r[DOMAIN q]
            /\ \A s \in SUBSET DOMAIN q : r[s] \in Standings
    BY <1>1, CommitStanding DEF Inv, TypeOK
  <2>2. DOMAIN q \in SUBSET DOMAIN q
    OBVIOUS
  <2>. QED  BY <2>1, <2>2
<1>8. credit' \in Nat
  BY <1>1, CallFields
<1>9. TypeOK'
  <2>1. obligations' \in Seq(Row) /\ Len(income') = Len(obligations')
    BY <1>1, <1>4, <1>5, <1>6, <1>d
  <2>2. handler' \in [Handlers -> {Idle} \cup PayCall \cup ReassessCall]
    BY <1>1 DEF Inv, TypeOK
  <2>. QED  BY <1>1, <1>6, <1>7, <1>8, <1>e, <2>1, <2>2 DEF Inv, TypeOK, configVars
<1>10. \A i \in 1..(n + (m - k)) : Truthful(W[i])
  <2>. SUFFICES ASSUME NEW i \in 1..(n + (m - k)) PROVE Truthful(W[i])
    OBVIOUS
  <2>1. \A j \in 1..m : Truthful(c.rows[j])
    BY <1>1, <1>2, CallFields DEF CallOK
  <2>2. Ids = 1..n
    BY <1>1, <1>2, ObligationsType DEF Inv
  <2>3. CASE i <= n
    <3>1. i \in Ids /\ Truthful(obligations[i])
      BY <2>2, <2>3, TruthfulRows DEF Inv
    <3>2. i <= k => Truthful(c.rows[i])
      <4>1. i <= k => i \in 1..m
        BY <1>2, <1>3
      <4>. QED  BY <2>1, <4>1
    <3>. QED  BY <1>5, <3>1, <3>2
  <2>4. CASE i > n
    <3>1. i - n \in 1..(m - k) /\ n + (i - n) = i /\ k + (i - n) \in 1..m
      BY <1>2, <1>3, <2>4, SMTT(30)
    <3>2. W[i] = c.rows[k + (i - n)]
      BY <1>5, <3>1
    <3>. QED  BY <2>1, <3>1, <3>2
  <2>. QED  BY <1>2, <2>3, <2>4
<1>11. StatusTruthful'
  <2>1. Ids' = 1..(n + (m - k))
    BY <1>1, <1>4, <1>5 DEF Ids
  <2>. QED  BY <1>1, <1>4, <1>10, <2>1 DEF StatusTruthful, Truthful
<1>12. Len(obligations') >= Len(obligations)
  BY <1>1, <1>2, <1>3, <1>4, <1>5
<1>13. \A g \in Handlers : handler'[g] \in {Idle, handler[g]}
  BY <1>1 DEF Inv, TypeOK
<1>. QED  BY <1>9, <1>11, <1>12, <1>13, <1>e, RowsStep

\* A reversal touches the ledger only.
LEMMA ReverseIs ==
  ASSUME Inv, NEW k \in 1..Len(journal), ReverseEntry(k)
  PROVE  \E f \in Entry, e \in Entry :
            /\ f = journal[k] /\ e = ContraEntry(f) /\ PostEntry(e)
            /\ Len(e.lines) <= Len(obligations)
            /\ DOMAIN obligations' = 1..Len(obligations)
            /\ UNCHANGED <<configVars, memberVars, handler>>
<1>1. journal \in Seq(Entry) /\ k \in DOMAIN journal
  BY LenProperties DEF Inv, TypeOK
<1>2. PICK f \in Entry : f = journal[k]
  BY <1>1, ElementOfSeq
<1>3. PICK e : e = ContraEntry(f)
  OBVIOUS
<1>4. e \in Entry /\ Len(e.lines) = Len(f.lines)
  BY <1>3, ContraLines
<1>5. Len(f.lines) <= Len(obligations)
  BY <1>1, <1>2 DEF Inv, LinesKnown
<1>6. PostEntry(e) /\ UNCHANGED <<configVars, memberVars, handler>>
  BY <1>2, <1>3 DEF ReverseEntry
<1>7. DOMAIN obligations' = 1..Len(obligations)
  BY <1>6, ObligationsType DEF Inv, memberVars
<1>. QED  BY <1>2, <1>3, <1>4, <1>5, <1>6, <1>7

LEMMA ReverseStep ==
  ASSUME Inv, NEW k \in 1..Len(journal), ReverseEntry(k)
  PROVE  Inv'
<1>1. PICK e \in Entry :
            /\ PostEntry(e) /\ Len(e.lines) <= Len(obligations)
            /\ DOMAIN obligations' = 1..Len(obligations)
            /\ UNCHANGED <<configVars, memberVars, handler>>
  BY ReverseIs
<1>2. PICK n \in Nat : n = Len(obligations)
  BY ObligationsType DEF Inv
<1>3. /\ income' \in Seq(Int) /\ Len(income') = n
      /\ liability' \in [Funds -> Int] /\ received' \in Int /\ journal' = Append(journal, e)
  BY <1>1, <1>2, EntryPosts DEF Inv
<1>4. obligations' = obligations /\ Len(obligations') = n /\ handler' = handler
  BY <1>1, <1>2 DEF memberVars
<1>5. journal' \in Seq(Entry) /\ LinesKnown'
  BY <1>1, <1>2, <1>3, <1>4, JournalGrows
<1>6. TypeOK' /\ StatusTruthful'
  BY <1>1, <1>2, <1>3, <1>4, <1>5 DEF Inv, TypeOK, StatusTruthful, Ids, configVars, memberVars
<1>. QED  BY <1>2, <1>4, <1>5, <1>6, RowsStep
-----------------------------------------------------------------------------
(* Types, and rows whose status is truthful. *)

LEMMA InitInv == Init => Inv
<1>. SUFFICES ASSUME Init PROVE Inv
  OBVIOUS
<1>1. obligations = <<>> /\ income = <<>> /\ Len(obligations) = 0
  BY DEF Init
<1>2. TypeOK
  <2>1. <<>> \in Seq(Row) /\ <<>> \in Seq(Int) /\ <<>> \in Seq(Entry)
    BY EmptySeq
  <2>2. 1 \in 1..(MaxMonth + 1) /\ 0 \in 0..Versions
    BY ContributionsAssumption
  <2>3. liability \in [Funds -> Int] /\ handler \in [Handlers -> {Idle} \cup PayCall \cup ReassessCall]
    BY DEF Init
  <2>4. /\ income \in Seq(Int) /\ obligations \in Seq(Row) /\ Len(income) = Len(obligations)
        /\ journal \in Seq(Entry)
    BY <1>1, <2>1 DEF Init
  <2>5. standing \in Standings /\ credit \in Nat /\ received \in Int
    BY DEF Init, Standings
  <2>6. /\ launched \subseteq Events /\ selective \in BOOLEAN /\ policy \subseteq Thresholds
        /\ month = 1 /\ version = 0
    BY DEF Init
  <2>. QED  BY <2>2, <2>3, <2>4, <2>5, <2>6 DEF TypeOK
<1>3. StatusTruthful
  <2>1. Ids = {}
    BY <1>1 DEF Ids
  <2>. QED  BY <2>1 DEF StatusTruthful
<1>4. \A h \in Handlers : handler[h] \notin PayCall
  BY IdleIsNoCall DEF Init
<1>5. LinesKnown
  BY DEF Init, LinesKnown
<1>. QED  BY <1>2, <1>3, <1>4, <1>5 DEF Inv

LEMMA NextInv == Inv /\ [Next]_vars => Inv'
<1>. SUFFICES ASSUME Inv, [Next]_vars PROVE Inv'
  OBVIOUS
<1>1. CASE \/ UNCHANGED vars \/ NextMonth \/ ActivateVersion \/ SetAllocationPolicy
           \/ \E t \in Thresholds : SetPolicy(t)
  BY <1>1, OtherSteps
<1>2. CASE \E p \in Plans, due \in 1..MaxDue : CreateObligation(p, due) \/ ActivateEvent(p, due)
  BY <1>2, CreateObligationStep, ActivateEventStep
<1>3. ASSUME NEW h \in Handlers, ReassessCommit(h) \/ \E p \in Plans : ReassessRead(h, p)
      PROVE  Inv'
  BY <1>3, ReassessSteps
<1>4. ASSUME NEW h \in Handlers, NEW a \in Payments, NEW f \in Funds,
             NEW chosen \in SUBSET Ids, PayRead(h, a, f, chosen)
      PROVE  Inv'
  BY <1>4, PayReadStep
<1>5. ASSUME NEW h \in Handlers,
             \/ PaySelect(h) \/ PayUnselected(h) \/ PayDue(h) \/ PayAnchor(h)
             \/ PayExtend(h) \/ PayItem(h) \/ PayRefused(h) \/ PayCommit(h)
      PROVE  Inv'
  BY <1>5, PaySelectStep, PayEndsStep, VisitStep, PayAnchorStep, PayExtendStep, PayCommitStep
<1>6. CASE \E k \in 1..Len(journal) : ReverseEntry(k)
  BY <1>6, ReverseStep
<1>. QED  BY <1>1, <1>2, <1>3, <1>4, <1>5, <1>6 DEF Next

\* The state of an organisation's contributions, and every payment in
\* progress, stay what the code takes them to be: no allocation goes below
\* zero or beyond the rows the payment read.
THEOREM TypeCorrect == Spec => []TypeOK
<1>1. Init => Inv
  BY InitInv
<1>2. Inv /\ [Next]_vars => Inv'
  BY NextInv
<1>3. Inv => TypeOK
  BY DEF Inv
<1>. QED  BY <1>1, <1>2, <1>3, PTL DEF Spec

\* A row's status says what its amounts say, for any number of payments,
\* reassessments and administrators at once.
THEOREM RowsStayTruthful == Spec => []StatusTruthful
<1>1. Init => Inv
  BY InitInv
<1>2. Inv /\ [Next]_vars => Inv'
  BY NextInv
<1>3. Inv => StatusTruthful
  BY DEF Inv
<1>. QED  BY <1>1, <1>2, <1>3, PTL DEF Spec
-----------------------------------------------------------------------------
(* The trial balance. *)

EntryBalanced(e) == e.received = Total(e.lines, DOMAIN e.lines) + e.parked

Balanced ==
    /\ received = Total(income, DOMAIN income) + Total(liability, Funds)
    /\ \A k \in DOMAIN journal : EntryBalanced(journal[k])

LEMMA BalancedIs ==
  ASSUME TypeOK, Balanced
  PROVE  TrialBalance
<1>1. PICK q : q = income /\ q \in Seq(Int)
  BY DEF TypeOK
<1>2. FoldLeft(+, 0, q) = Total(q, DOMAIN q)
  BY <1>1, FoldLeftTotal
<1>3. FoldLeft(+, 0, income) = Total(income, DOMAIN income)
  BY <1>1, <1>2
<1>4. MapThenSumSet(LAMBDA f : liability[f], Funds) = Total(liability, Funds)
  BY Zenon DEF Total
<1>5. received = Total(income, DOMAIN income) + Total(liability, Funds)
  BY DEF Balanced
<1>. QED  BY <1>3, <1>4, <1>5, Zenon DEF TrialBalance

\* The first N values of h are the first n of f, followed by zeros.
Pads(h, N, f, n) ==
    /\ n \in Nat /\ N \in Nat /\ n <= N
    /\ \A i \in 1..n : f[i] \in Int
    /\ \A i \in 1..N : h[i] = IF i \in 1..n THEN f[i] ELSE 0

LEMMA TotalPadded ==
  ASSUME NEW h, NEW N, NEW f, NEW n, Pads(h, N, f, n)
  PROVE  Total(h, 1..N) = Total(f, 1..n) /\ Total(f, 1..n) \in Int
<1>. USE DEF Pads
<1>1. PICK l \in Nat : l = N - n
  OBVIOUS
<1>2. PICK z : z = [j \in 1..l |-> 0]
  OBVIOUS
<1>3. \A i \in 1..n : i \in 1..N
  OBVIOUS
<1>4. \A j \in 1..l : n + j \in 1..N /\ n + j \notin 1..n
  BY <1>1
<1>5. Joins(h, f, n, z, l)
  <2>1. \A i \in 1..n : f[i] \in Int /\ h[i] = f[i]
    BY <1>3
  <2>2. \A j \in 1..l : z[j] = 0
    BY <1>2
  <2>3. \A j \in 1..l : h[n + j] = 0
    BY <1>4
  <2>4. \A j \in 1..l : z[j] \in Int /\ h[n + j] = z[j]
    BY <2>2, <2>3
  <2>. QED  BY <2>1, <2>4 DEF Joins
<1>6. Total(h, 1..(n + l)) = Total(f, 1..n) + Total(z, 1..l)
  BY <1>5, TotalConcat
<1>7. Total(z, 1..l) = 0
  <2>1. \A j \in 1..l : z[j] = 0
    BY <1>2
  <2>. QED  BY <2>1, Places, TotalZero
<1>8. n + l = N /\ Total(f, 1..n) \in Int
  BY <1>1, Places, TotalType
<1>. QED  BY <1>6, <1>7, <1>8

\* What a payment posts to income is what it allocated.
LEMMA PaymentBalanced ==
  ASSUME TypeOK, NEW c \in PayCall, CallOK(Len(obligations), c), NEW e, e = PaymentEntry(c)
  PROVE  EntryBalanced(e)
<1>1. PICK n, k, m : /\ n \in Nat /\ k \in Nat /\ m \in Nat
                     /\ n = Len(obligations) /\ k = c.known /\ m = Len(c.rows)
                     /\ m = Len(c.applied)
  BY ObligationsType, CallFields DEF CallOK
<1>2. k <= n /\ k <= m
  BY <1>1 DEF CallOK
<1>3. PICK d, l \in Nat : d = m - k /\ l = n - k
  BY <1>1, <1>2
<1>4. PICK W, a : W = e.lines /\ a = c.applied
  OBVIOUS
<1>5. DOMAIN a = 1..m /\ \A i \in 1..m : a[i] \in Int
  BY <1>1, <1>4, CallFields
<1>6. /\ DOMAIN W = 1..(n + d)
      /\ \A i \in 1..n : W[i] = IF i <= k THEN a[i] ELSE 0
      /\ \A j \in 1..d : W[n + j] = a[k + j]
  <2>1. Ids = 1..n
    BY <1>1, ObligationsType
  <2>2. /\ DOMAIN e.lines = 1..(Len(obligations) + (Len(c.rows) - c.known))
        /\ \A i \in Ids : e.lines[i] = IF i <= c.known THEN c.applied[i] ELSE 0
        /\ \A j \in 1..(Len(c.rows) - c.known) :
              e.lines[Len(obligations) + j] = c.applied[c.known + j]
    BY PaymentLines
  <2>3. \A j \in 1..(m - k) : e.lines[n + j] = c.applied[k + j]
    BY <1>1, <2>2
  <2>. QED  BY <1>1, <1>3, <1>4, <2>1, <2>2, <2>3
<1>7. PICK p : p = [i \in 1..n |-> IF i \in 1..k THEN a[i] ELSE 0]
  OBVIOUS
<1>8. PICK b : b = [j \in 1..d |-> a[k + j]]
  OBVIOUS
<1>9. \A j \in 1..d : b[j] \in Int /\ k + j \in 1..m /\ a[k + j] = b[j]
  <2>1. \A j \in 1..d : k + j \in 1..m
    <3>1. k + d = m /\ k \in Nat /\ d \in Nat
      BY <1>1, <1>3
    <3>. QED  BY <3>1
  <2>. QED  BY <1>5, <1>8, <2>1
<1>10. \A i \in 1..k : a[i] \in Int /\ a[i] = a[i]
  BY <1>1, <1>2, <1>5
<1>11. \A i \in 1..n : p[i] \in Int /\ W[i] = p[i] /\ p[i] = IF i \in 1..k THEN a[i] ELSE 0
  <2>1. \A i \in 1..n : i <= k <=> i \in 1..k
    BY <1>1
  <2>. QED  BY <1>6, <1>7, <1>10, <2>1
<1>12. Total(W, 1..(n + d)) = Total(p, 1..n) + Total(b, 1..d)
  <2>1. Joins(W, p, n, b, d)
    BY <1>1, <1>3, <1>6, <1>9, <1>11 DEF Joins
  <2>. QED  BY <2>1, TotalConcat
<1>13. Total(p, 1..n) = Total(a, 1..k) /\ Total(a, 1..k) \in Int
  <2>1. \A i \in 1..k : a[i] \in Int
    BY <1>10
  <2>2. \A i \in 1..n : p[i] = IF i \in 1..k THEN a[i] ELSE 0
    BY <1>11
  <2>3. Pads(p, n, a, k)
    BY <1>1, <1>2, <2>1, <2>2 DEF Pads
  <2>. QED  BY <2>3, TotalPadded
<1>14. Total(a, 1..m) = Total(a, 1..k) + Total(b, 1..d)
  <2>1. Joins(a, a, k, b, d)
    BY <1>1, <1>3, <1>9, <1>10 DEF Joins
  <2>2. Total(a, 1..(k + d)) = Total(a, 1..k) + Total(b, 1..d)
    BY <2>1, TotalConcat
  <2>3. k + d = m
    BY <1>1, <1>3
  <2>. QED  BY <2>2, <2>3
<1>15. Total(a, 1..m) \in Int
  BY <1>1, <1>5, Places, TotalType
<1>16. PICK t : t = Total(a, DOMAIN a) /\ t = Total(W, DOMAIN W) /\ t \in Int
  BY <1>5, <1>6, <1>12, <1>13, <1>14, <1>15
<1>17. PICK x, y, v \in Int : x = c.remaining /\ y = c.amount /\ v = c.before
  BY CallFields
<1>18. x + t = y + v
  BY <1>4, <1>16, <1>17 DEF CallOK
<1>19. e.received = y /\ e.parked = x - v
  BY <1>17, PaymentLines DEF CreditChange
<1>20. e.received = t + e.parked
  BY <1>16, <1>17, <1>18, <1>19, SMTT(30)
<1>. QED  BY <1>4, <1>16, <1>20 DEF EntryBalanced

LEMMA ContraBalanced ==
  ASSUME NEW f \in Entry, EntryBalanced(f), NEW e, e = ContraEntry(f)
  PROVE  EntryBalanced(e)
<1>1. PICK a, b, S : a = f.lines /\ b = e.lines /\ S = DOMAIN f.lines
  OBVIOUS
<1>2. /\ \A i \in S : a[i] \in Int /\ b[i] = -a[i]
      /\ IsFiniteSet(S) /\ DOMAIN b = S /\ DOMAIN a = S
      /\ e.received = -f.received /\ e.parked = -f.parked
      /\ f.received \in Int /\ f.parked \in Int
  BY <1>1, EntryFields, ContraLines, Places
<1>3. PICK z : z = [i \in S |-> 0]
  OBVIOUS
<1>4. \A i \in S : a[i] \in Int /\ b[i] \in Int /\ z[i] = a[i] + b[i]
  BY <1>2, <1>3
<1>5. Total(z, S) = Total(a, S) + Total(b, S)
  BY <1>2, <1>4, TotalAdd
<1>6. Total(z, S) = 0
  <2>1. \A i \in S : z[i] = 0
    BY <1>3
  <2>. QED  BY <1>2, <2>1, TotalZero
<1>7. Total(a, S) \in Int /\ Total(b, S) \in Int
  BY <1>2, <1>4, TotalType
<1>8. PICK x, y \in Int : x = Total(a, S) /\ y = Total(b, S)
  BY <1>7
<1>9. f.received = x + f.parked
  BY <1>1, <1>2, <1>8 DEF EntryBalanced
<1>10. x + y = 0
  BY <1>5, <1>6, <1>8
<1>11. e.received = y + e.parked
  BY <1>2, <1>9, <1>10
<1>. QED  BY <1>1, <1>2, <1>8, <1>11 DEF EntryBalanced

LEMMA PostedBalanced ==
  ASSUME TypeOK, Balanced, NEW e \in Entry, EntryBalanced(e), PostEntry(e),
         NEW N \in Nat, DOMAIN obligations' = 1..N, Len(obligations) <= N, Len(e.lines) <= N
  PROVE  Balanced'
<1>1. /\ income' \in Seq(Int) /\ Len(income') = N
      /\ \A i \in 1..N : income'[i] = (IF i \in Ids THEN income[i] ELSE 0) + LineOf(e, i)
      /\ liability' = [liability EXCEPT ![e.fund] = @ + e.parked]
      /\ received' = received + e.received /\ journal' = Append(journal, e)
  BY EntryPosts
<1>2. PICK n, l \in Nat : n = Len(obligations) /\ l = Len(e.lines)
  BY ObligationsType, EntryFields
<1>3. PICK q, a, w : q = income /\ a = e.lines /\ w = income'
  OBVIOUS
<1>4. /\ Ids = 1..n /\ DOMAIN q = 1..n /\ DOMAIN a = 1..l /\ DOMAIN w = 1..N
      /\ \A i \in 1..n : q[i] \in Int
      /\ \A i \in 1..l : a[i] \in Int
  BY <1>1, <1>2, <1>3, ObligationsType, EntryFields, LenProperties
<1>5. PICK u : u = [i \in 1..N |-> IF i \in 1..n THEN q[i] ELSE 0]
  OBVIOUS
<1>6. PICK v : v = [i \in 1..N |-> IF i \in 1..l THEN a[i] ELSE 0]
  OBVIOUS
<1>7. \A i \in 1..N : u[i] \in Int /\ v[i] \in Int /\ w[i] = u[i] + v[i]
  <2>1. \A i \in 1..N : u[i] = (IF i \in Ids THEN income[i] ELSE 0) /\ v[i] = LineOf(e, i)
    BY <1>3, <1>4, <1>5, <1>6 DEF LineOf
  <2>2. \A i \in 1..N : u[i] \in Int /\ v[i] \in Int
    BY <1>4, <1>5, <1>6
  <2>. QED  BY <1>1, <1>3, <2>1, <2>2
<1>8. Total(w, 1..N) = Total(u, 1..N) + Total(v, 1..N)
  BY <1>7, Places, TotalAdd
<1>9. Total(u, 1..N) = Total(q, 1..n) /\ Total(q, 1..n) \in Int
  <2>1. \A i \in 1..N : u[i] = IF i \in 1..n THEN q[i] ELSE 0
    BY <1>5
  <2>2. n <= N
    BY <1>2
  <2>3. Pads(u, N, q, n)
    BY <1>2, <1>4, <2>1, <2>2 DEF Pads
  <2>. QED  BY <2>3, TotalPadded
<1>10. Total(v, 1..N) = Total(a, 1..l) /\ Total(a, 1..l) \in Int
  <2>1. \A i \in 1..N : v[i] = IF i \in 1..l THEN a[i] ELSE 0
    BY <1>6
  <2>2. l <= N
    BY <1>2
  <2>3. Pads(v, N, a, l)
    BY <1>2, <1>4, <2>1, <2>2 DEF Pads
  <2>. QED  BY <2>3, TotalPadded
<1>11. Total(liability', Funds) = Total(liability, Funds) + e.parked
       /\ Total(liability, Funds) \in Int
  <2>1. PICK g, m, f, d : g = liability /\ m = liability' /\ f = e.fund /\ d = e.parked
    OBVIOUS
  <2>2. /\ \A x \in Funds : g[x] \in Int
        /\ f \in Funds /\ d \in Int /\ IsFiniteSet(Funds)
        /\ \A x \in Funds : m[x] = IF x = f THEN g[x] + d ELSE g[x]
    <3>1. g \in [Funds -> Int] /\ f \in Funds /\ IsFiniteSet(Funds) /\ d \in Int
      BY <2>1, EntryFields, ContributionsAssumption DEF TypeOK
    <3>. QED  BY <1>1, <2>1, <3>1
  <2>3. Total(m, Funds) = Total(g, Funds) + d /\ Total(g, Funds) \in Int
    BY <2>2, TotalUpdate, TotalType
  <2>. QED  BY <2>1, <2>3
<1>12. PICK t, y, x : t = Total(q, 1..n) /\ y = Total(liability, Funds) /\ x = Total(a, 1..l)
  OBVIOUS
<1>13. received = t + y /\ e.received = x + e.parked
  BY <1>3, <1>4, <1>12 DEF Balanced, EntryBalanced
<1>14. received' = (t + x) + (y + e.parked)
  <2>1. t \in Int /\ y \in Int /\ x \in Int /\ e.parked \in Int
    BY <1>9, <1>10, <1>11, <1>12, EntryFields
  <2>2. received' = (t + y) + (x + e.parked)
    BY <1>1, <1>13
  <2>. QED  BY <2>1, <2>2
<1>15. received' = Total(income', DOMAIN income') + Total(liability', Funds)
  BY <1>3, <1>4, <1>8, <1>9, <1>10, <1>11, <1>12, <1>14
<1>16. \A k \in DOMAIN journal' : EntryBalanced(journal'[k])
  <2>1. PICK r \in Nat : r = Len(journal) /\ DOMAIN journal = 1..r /\ journal \in Seq(Entry)
    BY LenProperties DEF TypeOK
  <2>2. /\ journal' \in Seq(Entry) /\ Len(journal') = r + 1 /\ journal'[r + 1] = e
        /\ \A k \in 1..r : journal'[k] = journal[k]
    BY <1>1, <2>1, AppendProperties
  <2>3. DOMAIN journal' = 1..(r + 1) /\ \A k \in 1..(r + 1) : k \in 1..r \/ k = r + 1
    BY <2>2, LenProperties
  <2>4. \A k \in 1..r : EntryBalanced(journal[k])
    BY <2>1 DEF Balanced
  <2>. QED  BY <2>2, <2>3, <2>4
<1>. QED  BY <1>15, <1>16 DEF Balanced, EntryBalanced

LEMMA LedgerSteps ==
  ASSUME [Next]_vars
  PROVE  \/ UNCHANGED ledgerVars
         \/ \E row : AddRow(row)
         \/ \E h \in Handlers : PayCommit(h)
         \/ \E k \in 1..Len(journal) : ReverseEntry(k)
<1>1. CASE \/ UNCHANGED vars \/ NextMonth \/ ActivateVersion \/ SetAllocationPolicy
           \/ \E t \in Thresholds : SetPolicy(t)
  BY <1>1 DEF vars, ledgerVars, NextMonth, ActivateVersion, SetAllocationPolicy, SetPolicy
<1>2. CASE \E p \in Plans, due \in 1..MaxDue : CreateObligation(p, due) \/ ActivateEvent(p, due)
  BY <1>2 DEF CreateObligation, ActivateEvent
<1>3. ASSUME NEW h \in Handlers, ReassessCommit(h) \/ \E p \in Plans : ReassessRead(h, p)
      PROVE  UNCHANGED ledgerVars
  BY <1>3 DEF ReassessCommit, ReassessRead
<1>4. ASSUME NEW h \in Handlers, NEW a \in Payments, NEW f \in Funds,
             NEW chosen \in SUBSET Ids, PayRead(h, a, f, chosen)
      PROVE  UNCHANGED ledgerVars
  BY <1>4 DEF PayRead
<1>5. ASSUME NEW h \in Handlers,
             \/ PaySelect(h) \/ PayUnselected(h) \/ PayDue(h) \/ PayAnchor(h)
             \/ PayExtend(h) \/ PayItem(h) \/ PayRefused(h)
      PROVE  UNCHANGED ledgerVars
  BY <1>5 DEF PaySelect, PayUnselected, PayDue, PayAnchor, PayExtend, PayItem, PayRefused
<1>. QED  BY <1>1, <1>2, <1>3, <1>4, <1>5 DEF Next

\* A payment commits: it writes its rows and posts its entry.
LEMMA CommitPosts ==
  ASSUME Inv, NEW h \in Handlers, PayCommit(h)
  PROVE  \E c \in PayCall, e \in Entry, N \in Nat :
            /\ c = handler[h] /\ CallOK(Len(obligations), c) /\ e = PaymentEntry(c)
            /\ obligations' = Written(c) /\ credit' = c.remaining
            /\ PostEntry(e)
            /\ handler' = [handler EXCEPT ![h] = Idle]
            /\ N = Len(obligations) + (Len(c.rows) - c.known)
            /\ c.known <= Len(obligations) /\ c.known <= Len(c.rows)
            /\ DOMAIN obligations' = 1..N /\ Len(obligations') = N
            /\ Len(obligations) <= N /\ Len(e.lines) = N /\ DOMAIN e.lines = 1..N
<1>1. PICK c : /\ c = handler[h] /\ c \in PayCall /\ CallOK(Len(obligations), c)
               /\ obligations' = Written(c) /\ credit' = c.remaining
               /\ PostEntry(PaymentEntry(c))
               /\ handler' = [handler EXCEPT ![h] = Idle]
  BY PayCommitIs
<1>2. PICK n, k, m \in Nat : n = Len(obligations) /\ k = c.known /\ m = Len(c.rows)
  BY <1>1, ObligationsType, CallFields DEF Inv
<1>3. k <= n /\ k <= m
  BY <1>1, <1>2 DEF CallOK
<1>4. PICK N \in Nat : N = n + (m - k) /\ n <= N
  BY <1>3
<1>5. obligations' \in Seq(Row) /\ Len(obligations') = N
  BY <1>1, <1>2, <1>4, WrittenRows DEF Inv
<1>6. PICK e : e = PaymentEntry(c)
  OBVIOUS
<1>7. e \in Entry /\ Len(e.lines) = N /\ DOMAIN e.lines = 1..N
  BY <1>1, <1>2, <1>4, <1>6, PaymentLines DEF Inv
<1>8. DOMAIN obligations' = 1..N
  BY <1>5, LenProperties
<1>. QED  BY <1>1, <1>2, <1>3, <1>4, <1>5, <1>6, <1>7, <1>8

LEMMA BalancedStep ==
  ASSUME Inv, Balanced, [Next]_vars
  PROVE  Balanced'
<1>1. CASE UNCHANGED ledgerVars
  BY <1>1 DEF Balanced, EntryBalanced, ledgerVars
<1>2. ASSUME NEW row, AddRow(row) PROVE Balanced'
  <2>1. PICK q, w : q = income /\ w = income' /\ w = Append(q, 0)
    BY <1>2 DEF AddRow
  <2>2. PICK n \in Nat : n = Len(q) /\ DOMAIN q = 1..n /\ \A i \in 1..n : q[i] \in Int
    <3>1. q \in Seq(Int)
      BY <2>1 DEF Inv, TypeOK
    <3>. QED  BY <3>1, LenProperties, ElementOfSeq
  <2>3. /\ Len(w) = n + 1 /\ w[n + 1] = 0 /\ \A i \in 1..n : w[i] = q[i]
        /\ DOMAIN w = 1..(n + 1)
    <3>1. q \in Seq(Int) /\ 0 \in Int
      BY <2>1 DEF Inv, TypeOK
    <3>2. w \in Seq(Int) /\ Len(w) = n + 1 /\ w[n + 1] = 0 /\ \A i \in 1..n : w[i] = q[i]
      BY <2>1, <2>2, <3>1, AppendProperties
    <3>. QED  BY <3>2, LenProperties
  <2>4. \A i \in 1..(n + 1) : w[i] \in Int
    <3>1. \A i \in 1..(n + 1) : i \in 1..n \/ i = n + 1
      OBVIOUS
    <3>. QED  BY <2>2, <2>3, <3>1
  <2>5. Total(w, 1..(n + 1)) = Total(w, 1..n) + w[n + 1] /\ Total(w, 1..n) \in Int
    BY <2>4, TotalFirst
  <2>6. Total(w, 1..n) = Total(q, 1..n)
    BY <2>2, <2>3, Places, TotalEqual
  <2>7. Total(w, DOMAIN w) = Total(q, DOMAIN q)
    BY <2>2, <2>3, <2>5, <2>6
  <2>8. UNCHANGED <<journal, liability, received>>
    BY <1>2 DEF AddRow
  <2>. QED  BY <2>1, <2>7, <2>8 DEF Balanced, EntryBalanced
<1>3. ASSUME NEW h \in Handlers, PayCommit(h) PROVE Balanced'
  <2>1. PICK c \in PayCall, e \in Entry, N \in Nat :
            /\ CallOK(Len(obligations), c) /\ e = PaymentEntry(c) /\ PostEntry(e)
            /\ DOMAIN obligations' = 1..N /\ Len(obligations) <= N /\ Len(e.lines) = N
    BY <1>3, CommitPosts
  <2>2. EntryBalanced(e)
    BY <2>1, PaymentBalanced DEF Inv
  <2>. QED  BY <2>1, <2>2, PostedBalanced DEF Inv
<1>4. ASSUME NEW k \in 1..Len(journal), ReverseEntry(k) PROVE Balanced'
  <2>1. PICK f \in Entry, e \in Entry :
            /\ f = journal[k] /\ e = ContraEntry(f) /\ PostEntry(e)
            /\ Len(e.lines) <= Len(obligations)
            /\ DOMAIN obligations' = 1..Len(obligations)
    BY <1>4, ReverseIs
  <2>2. k \in DOMAIN journal /\ Len(obligations) \in Nat
    BY ObligationsType, LenProperties DEF Inv, TypeOK
  <2>3. EntryBalanced(e)
    BY <2>1, <2>2, ContraBalanced DEF Balanced
  <2>. QED  BY <2>1, <2>2, <2>3, PostedBalanced DEF Inv
<1>. QED  BY <1>1, <1>2, <1>3, <1>4, LedgerSteps

LEMMA InitBalanced == Init => Balanced
<1>. SUFFICES ASSUME Init PROVE Balanced
  OBVIOUS
<1>1. PICK q, g : q = income /\ g = liability
  OBVIOUS
<1>2. DOMAIN q = {} /\ \A f \in Funds : g[f] = 0
  BY <1>1 DEF Init
<1>3. Total(q, {}) = 0
  BY TotalEmpty
<1>4. Total(g, Funds) = 0
  BY <1>2, TotalZero, ContributionsAssumption
<1>5. DOMAIN journal = {} /\ received = 0
  BY DEF Init
<1>. QED  BY <1>1, <1>2, <1>3, <1>4, <1>5 DEF Balanced

\* What Cash and the fees account received is what the income lines and the
\* members' credit add up to, for any number of payments and reversals.
THEOREM BooksBalance == Spec => []TrialBalance
<1>1. Init => Inv /\ Balanced
  BY InitInv, InitBalanced
<1>2. (Inv /\ Balanced) /\ [Next]_vars => (Inv /\ Balanced)'
  BY NextInv, BalancedStep
<1>3. Inv /\ Balanced => TrialBalance
  BY BalancedIs DEF Inv
<1>. QED  BY <1>1, <1>2, <1>3, PTL DEF Spec
-----------------------------------------------------------------------------
(* What payments posted for an obligation, and as credit: the balances      *)
(* without the contra lines of reversals.                                   *)

LEMMA SumTotal == ASSUME NEW f PROVE SumFunction(f) = Total(f, DOMAIN f)
  BY DEF SumFunction, SumFunctionOnSet, FoldFunctionOnSet, Total, MapThenSumSet

\* h has the values of g on S, and one more for x.
Adds(h, g, S, x) ==
    /\ IsFiniteSet(S) /\ x \notin S /\ h[x] \in Int
    /\ \A y \in S : g[y] \in Int /\ h[y] = g[y]

LEMMA TotalGrow ==
  ASSUME NEW h, NEW g, NEW S, NEW x, Adds(h, g, S, x)
  PROVE  Total(h, S \cup {x}) = Total(g, S) + h[x] /\ Total(g, S) \in Int
<1>. USE DEF Adds
<1>1. PICK T : T = S \cup {x}
  OBVIOUS
<1>2. IsFiniteSet(T) /\ x \in T /\ T \ {x} = S
  BY <1>1, FS_AddElement
<1>3. \A y \in T : h[y] \in Int
  BY <1>1
<1>4. Total(h, T) = h[x] + Total(h, S)
  BY <1>2, <1>3, TotalRemove
<1>5. Total(h, S) = Total(g, S) /\ Total(g, S) \in Int
  <2>1. Total(h, S) = Total(g, S)
    BY TotalEqual
  <2>2. \A y \in S : g[y] \in Int
    OBVIOUS
  <2>. QED  BY <2>1, <2>2, TotalType
<1>6. PICK a, b \in Int : a = h[x] /\ b = Total(h, S)
  BY <1>5
<1>. QED  BY <1>1, <1>4, <1>5, <1>6

\* A posted entry counts as a contra entry if it is one.
LEMMA ContraGrows ==
  ASSUME journal \in Seq(Entry), NEW e \in Entry, journal' = Append(journal, e), NEW i
  PROVE  /\ Contra(i)' = Contra(i) + (IF e.reversal THEN LineOf(e, i) ELSE 0)
         /\ ContraCredit' = ContraCredit + (IF e.reversal THEN e.parked ELSE 0)
         /\ Contra(i) \in Int /\ ContraCredit \in Int
<1>1. PICK n \in Nat : n = Len(journal) /\ DOMAIN journal = 1..n
  BY LenProperties
<1>2. /\ \A k \in 1..n : journal[k] \in Entry /\ journal'[k] = journal[k]
      /\ journal'[n + 1] = e /\ DOMAIN journal' = 1..(n + 1)
  <2>1. /\ journal' \in Seq(Entry) /\ Len(journal') = n + 1 /\ journal'[n + 1] = e
        /\ \A k \in 1..n : journal'[k] = journal[k]
    BY <1>1, AppendProperties
  <2>2. DOMAIN journal' = 1..(n + 1)
    BY <2>1, LenProperties
  <2>. QED  BY <1>1, <2>1, <2>2, ElementOfSeq
<1>3. PICK R : R = Reversals /\ IsFiniteSet(R) /\ \A k \in R : k \in 1..n
  <2>1. Reversals \subseteq 1..n
    BY <1>1 DEF Reversals
  <2>. QED  BY <2>1, Places, FS_Subset
<1>4. PICK x : x = n + 1 /\ x \notin 1..n /\ x \notin R /\ journal'[x] = e
  BY <1>2, <1>3
<1>5. Reversals' = IF e.reversal THEN R \cup {x} ELSE R
  <2>1. \A k : k \in 1..(n + 1) <=> k \in 1..n \/ k = x
    BY <1>4
  <2>. QED  BY <1>1, <1>2, <1>3, <1>4, <2>1 DEF Reversals
<1>6. PICK g, gc : /\ g = [k \in R |-> LineOf(journal[k], i)]
                   /\ gc = [k \in R |-> journal[k].parked]
  OBVIOUS
<1>7. PICK S : S = Reversals'
  OBVIOUS
<1>8. PICK h, hc : /\ h = [k \in S |-> LineOf(journal'[k], i)]
                   /\ hc = [k \in S |-> journal'[k].parked]
  OBVIOUS
<1>9. Contra(i) = Total(g, R) /\ ContraCredit = Total(gc, R)
  BY <1>3, <1>6, SumTotal DEF Contra, ContraCredit
<1>10. Contra(i)' = Total(h, S) /\ ContraCredit' = Total(hc, S)
  <2>1. Contra(i)' = SumFunction(h) /\ ContraCredit' = SumFunction(hc)
    BY <1>7, <1>8 DEF Contra, ContraCredit, LineOf
  <2>2. DOMAIN h = S /\ DOMAIN hc = S
    BY <1>8
  <2>. QED  BY <2>1, <2>2, SumTotal
<1>11. \A k \in R : g[k] \in Int /\ gc[k] \in Int
  BY <1>2, <1>3, <1>6, EntryFields
<1>12. Total(g, R) \in Int /\ Total(gc, R) \in Int
  BY <1>3, <1>11, TotalType
<1>13. CASE e.reversal
  <2>1. S = R \cup {x}
    BY <1>5, <1>7, <1>13
  <2>2. \A k \in R : h[k] = g[k] /\ hc[k] = gc[k]
    BY <1>2, <1>3, <1>6, <1>8, <2>1
  <2>3. h[x] = LineOf(e, i) /\ hc[x] = e.parked /\ h[x] \in Int /\ hc[x] \in Int
    BY <1>4, <1>8, <2>1, EntryFields
  <2>4. Total(h, R \cup {x}) = Total(g, R) + h[x]
    <3>1. \A k \in R : g[k] \in Int /\ h[k] = g[k]
      BY <1>11, <2>2
    <3>2. Adds(h, g, R, x)
      BY <1>3, <1>4, <2>3, <3>1 DEF Adds
    <3>. QED  BY <3>2, TotalGrow
  <2>5. Total(hc, R \cup {x}) = Total(gc, R) + hc[x]
    <3>1. \A k \in R : gc[k] \in Int /\ hc[k] = gc[k]
      BY <1>11, <2>2
    <3>2. Adds(hc, gc, R, x)
      BY <1>3, <1>4, <2>3, <3>1 DEF Adds
    <3>. QED  BY <3>2, TotalGrow
  <2>. QED  BY <1>9, <1>10, <1>12, <1>13, <2>1, <2>3, <2>4, <2>5
<1>14. CASE ~ e.reversal
  <2>1. S = R
    BY <1>5, <1>7, <1>14
  <2>2. \A k \in R : h[k] = g[k] /\ hc[k] = gc[k]
    BY <1>2, <1>3, <1>6, <1>8, <2>1
  <2>3. Total(h, R) = Total(g, R) /\ Total(hc, R) = Total(gc, R)
    BY <1>3, <1>11, <2>2, TotalEqual
  <2>. QED  BY <1>9, <1>10, <1>12, <1>14, <2>1, <2>3
<1>. QED  BY <1>9, <1>12, <1>13, <1>14

\* No contra line names an obligation that does not exist yet.
LEMMA ContraUnknown ==
  ASSUME Inv, NEW i \in Nat, i > Len(obligations)
  PROVE  Contra(i) = 0
<1>1. \A k \in Reversals : LineOf(journal[k], i) = 0
  <2>. SUFFICES ASSUME NEW k \in Reversals PROVE i \notin DOMAIN journal[k].lines
    BY DEF LineOf
  <2>1. k \in DOMAIN journal /\ journal[k] \in Entry
    BY ElementOfSeq, LenProperties DEF Reversals, Inv, TypeOK
  <2>2. PICK l \in Nat : l = Len(journal[k].lines) /\ DOMAIN journal[k].lines = 1..l
    BY <2>1, EntryFields
  <2>3. l <= Len(obligations) /\ Len(obligations) \in Nat
    BY <2>1, <2>2, ObligationsType DEF Inv, LinesKnown
  <2>. QED  BY <2>2, <2>3
<1>2. IsFiniteSet(Reversals)
  <2>1. PICK n \in Nat : DOMAIN journal = 1..n
    BY LenProperties DEF Inv, TypeOK
  <2>2. Reversals \subseteq 1..n
    BY <2>1 DEF Reversals
  <2>. QED  BY <2>2, Places, FS_Subset
<1>3. PICK g, R : R = Reversals /\ g = [k \in R |-> LineOf(journal[k], i)]
  OBVIOUS
<1>4. Total(g, R) = 0
  BY <1>1, <1>2, <1>3, TotalZero
<1>. QED  BY <1>3, <1>4, SumTotal DEF Contra

LEMMA CreditTotal == PostedCredit = Total(liability, Funds) - ContraCredit
  BY Zenon DEF PostedCredit, Total

LEMMA CreditTotalNext == (PostedCredit = Total(liability, Funds) - ContraCredit)'
  BY CreditTotal, PTL

LEMMA ContraKept ==
  ASSUME journal' = journal
  PROVE  ContraCredit' = ContraCredit /\ \A i : Contra(i)' = Contra(i)
<1>1. Reversals' = Reversals
  BY DEF Reversals
<1>2. ASSUME NEW i PROVE Contra(i)' = Contra(i)
  <2>1. PICK g : g = [k \in Reversals |-> LineOf(journal[k], i)]
    OBVIOUS
  <2>2. g = [k \in Reversals' |-> LineOf(journal'[k], i)]
    BY <1>1, <2>1
  <2>. QED  BY <2>1, <2>2 DEF Contra
<1>3. ContraCredit' = ContraCredit
  <2>1. PICK g : g = [k \in Reversals |-> journal[k].parked]
    OBVIOUS
  <2>2. g = [k \in Reversals' |-> journal'[k].parked]
    BY <1>1, <2>1
  <2>. QED  BY <2>1, <2>2 DEF ContraCredit
<1>. QED  BY <1>2, <1>3

LEMMA PostedType ==
  ASSUME Inv
  PROVE  PostedCredit \in Int /\ \A i \in Ids : PostedFor(i) \in Int
<1>1. \A i : Contra(i) \in Int /\ ContraCredit \in Int
  <2>. SUFFICES ASSUME NEW i PROVE Contra(i) \in Int /\ ContraCredit \in Int
    OBVIOUS
  <2>1. PICK n \in Nat : DOMAIN journal = 1..n /\ journal \in Seq(Entry)
    BY LenProperties DEF Inv, TypeOK
  <2>2. PICK R : R = Reversals /\ IsFiniteSet(R) /\ \A k \in R : journal[k] \in Entry
    <3>1. Reversals \subseteq 1..n
      BY <2>1 DEF Reversals
    <3>2. IsFiniteSet(Reversals)
      BY <3>1, Places, FS_Subset
    <3>3. \A k \in Reversals : journal[k] \in Entry
      BY <2>1, <3>1, ElementOfSeq
    <3>. QED  BY <3>2, <3>3
  <2>3. PICK g, gc : /\ g = [k \in R |-> LineOf(journal[k], i)]
                     /\ gc = [k \in R |-> journal[k].parked]
    OBVIOUS
  <2>4. \A k \in R : g[k] \in Int /\ gc[k] \in Int
    BY <2>2, <2>3, EntryFields
  <2>5. Total(g, R) \in Int /\ Total(gc, R) \in Int
    BY <2>2, <2>4, TotalType
  <2>. QED  BY <2>2, <2>3, <2>5, SumTotal DEF Contra, ContraCredit
<1>2. Total(liability, Funds) \in Int
  <2>1. \A f \in Funds : liability[f] \in Int
    BY DEF Inv, TypeOK
  <2>. QED  BY <2>1, TotalType, ContributionsAssumption
<1>3. \A i \in Ids : income[i] \in Int
  BY ObligationsType DEF Inv
<1>. QED  BY <1>1, <1>2, <1>3, CreditTotal DEF PostedFor

LEMMA PostedKept ==
  ASSUME UNCHANGED <<journal, income, liability>>
  PROVE  PostedCredit' = PostedCredit /\ \A i : PostedFor(i)' = PostedFor(i)
BY ContraKept, CreditTotal, CreditTotalNext DEF PostedFor

\* A payment's lines are added; a reversal's are left out.
LEMMA PostedBy ==
  ASSUME Inv, NEW e \in Entry, PostEntry(e),
         NEW N \in Nat, DOMAIN obligations' = 1..N, Len(obligations) <= N
  PROVE  /\ \A i \in 1..N : PostedFor(i)' = (IF i \in Ids THEN PostedFor(i) ELSE 0)
                                            + (IF e.reversal THEN 0 ELSE LineOf(e, i))
         /\ PostedCredit' = PostedCredit + (IF e.reversal THEN 0 ELSE e.parked)
<1>1. /\ \A i \in 1..N : income'[i] = (IF i \in Ids THEN income[i] ELSE 0) + LineOf(e, i)
      /\ liability' = [liability EXCEPT ![e.fund] = @ + e.parked]
      /\ journal' = Append(journal, e)
  BY EntryPosts DEF Inv
<1>2. ASSUME NEW i
      PROVE  /\ Contra(i)' = Contra(i) + (IF e.reversal THEN LineOf(e, i) ELSE 0)
             /\ ContraCredit' = ContraCredit + (IF e.reversal THEN e.parked ELSE 0)
             /\ Contra(i) \in Int /\ ContraCredit \in Int
  BY <1>1, ContraGrows DEF Inv, TypeOK
<1>3. ASSUME NEW i \in 1..N
      PROVE  PostedFor(i)' = (IF i \in Ids THEN PostedFor(i) ELSE 0)
                             + (IF e.reversal THEN 0 ELSE LineOf(e, i))
  <2>1. PICK l \in Int : l = LineOf(e, i)
    BY EntryFields
  <2>2. PostedFor(i)' = income'[i] - Contra(i)'
    BY DEF PostedFor
  <2>3. /\ Contra(i)' = Contra(i) + (IF e.reversal THEN l ELSE 0) /\ Contra(i) \in Int
        /\ income'[i] = (IF i \in Ids THEN income[i] ELSE 0) + l
    BY <1>1, <1>2, <2>1
  <2>4. CASE i \in Ids
    <3>1. income[i] \in Int /\ PostedFor(i) = income[i] - Contra(i)
      BY <2>4, ObligationsType DEF Inv, PostedFor
    <3>. QED  BY <2>1, <2>2, <2>3, <2>4, <3>1
  <2>5. CASE i \notin Ids
    <3>1. i > Len(obligations)
      BY <2>5, ObligationsType DEF Inv
    <3>2. Contra(i) = 0
      BY <3>1, ContraUnknown
    <3>. QED  BY <2>1, <2>2, <2>3, <2>5, <3>2
  <2>. QED  BY <2>4, <2>5
<1>4. PostedCredit' = PostedCredit + (IF e.reversal THEN 0 ELSE e.parked)
  <2>1. PICK g, m, f, d : g = liability /\ m = liability' /\ f = e.fund /\ d = e.parked
    OBVIOUS
  <2>2. /\ \A x \in Funds : g[x] \in Int
        /\ f \in Funds /\ d \in Int /\ IsFiniteSet(Funds)
        /\ \A x \in Funds : m[x] = IF x = f THEN g[x] + d ELSE g[x]
    <3>1. g \in [Funds -> Int] /\ f \in Funds /\ IsFiniteSet(Funds) /\ d \in Int
      BY <2>1, EntryFields, ContributionsAssumption DEF Inv, TypeOK
    <3>. QED  BY <1>1, <2>1, <3>1
  <2>3. Total(m, Funds) = Total(g, Funds) + d /\ Total(g, Funds) \in Int
    BY <2>2, TotalUpdate, TotalType
  <2>4. PostedCredit = Total(g, Funds) - ContraCredit
    BY <2>1, CreditTotal
  <2>5. PostedCredit' = Total(m, Funds) - ContraCredit'
    BY <2>1, CreditTotalNext
  <2>6. PICK t, z \in Int : t = Total(g, Funds) /\ z = ContraCredit
    BY <1>2, <2>3
  <2>7. ContraCredit' = z + (IF e.reversal THEN d ELSE 0)
    BY <1>2, <2>1, <2>6
  <2>. QED  BY <2>1, <2>2, <2>3, <2>4, <2>5, <2>6, <2>7
<1>. QED  BY <1>3, <1>4

LEMMA PostedReverse ==
  ASSUME Inv, NEW k \in 1..Len(journal), ReverseEntry(k)
  PROVE  PostedCredit' = PostedCredit /\ \A i \in Ids : PostedFor(i)' = PostedFor(i)
<1>1. PICK f \in Entry, e \in Entry :
          /\ e = ContraEntry(f) /\ PostEntry(e) /\ DOMAIN obligations' = 1..Len(obligations)
  BY ReverseIs
<1>2. PICK n \in Nat : n = Len(obligations) /\ Ids = 1..n
  BY ObligationsType DEF Inv
<1>3. e.reversal
  BY <1>1, ContraLines
<1>4. /\ \A i \in 1..n : PostedFor(i)' = (IF i \in Ids THEN PostedFor(i) ELSE 0) + 0
      /\ PostedCredit' = PostedCredit + 0
  BY <1>1, <1>2, <1>3, PostedBy
<1>. QED  BY <1>2, <1>4, PostedType

\* A payment knows k of n rows, and adds d.
Sizes(call, c, n, k, d) ==
    c = call /\ n = Len(obligations) /\ k = c.known /\ d = Len(c.rows) - c.known

LEMMA PostedPayment ==
  ASSUME Inv, NEW h \in Handlers, PayCommit(h), NEW c, NEW n, NEW k, NEW d,
         Sizes(handler[h], c, n, k, d)
  PROVE  /\ \A i \in 1..n : PostedFor(i)' = PostedFor(i) + (IF i <= k THEN c.applied[i] ELSE 0)
         /\ \A j \in 1..d : PostedFor(n + j)' = c.applied[k + j]
         /\ PostedCredit' = PostedCredit + (c.remaining - c.before)
<1>0. c = handler[h] /\ n = Len(obligations) /\ k = c.known /\ d = Len(c.rows) - c.known
  BY DEF Sizes
<1>1. PICK e, N : /\ c \in PayCall /\ CallOK(n, c) /\ e = PaymentEntry(c)
                  /\ e \in Entry /\ N \in Nat /\ PostEntry(e)
                  /\ N = n + d /\ k <= n /\ k <= Len(c.rows)
                  /\ DOMAIN obligations' = 1..N /\ n <= N /\ DOMAIN e.lines = 1..N
  BY <1>0, CommitPosts
<1>2. PICK x, m \in Nat : x = n /\ Ids = 1..x /\ m = Len(c.rows) /\ k \in Nat
  BY <1>0, <1>1, ObligationsType, CallFields DEF Inv
<1>3. n \in Nat /\ k \in Nat /\ d \in Nat /\ Ids = 1..n /\ k + d = m
  BY <1>0, <1>1, <1>2
<1>4. /\ e.reversal = FALSE /\ e.parked = CreditChange(c)
      /\ \A i \in Ids : e.lines[i] = IF i <= c.known THEN c.applied[i] ELSE 0
      /\ \A j \in 1..(Len(c.rows) - c.known) :
            e.lines[Len(obligations) + j] = c.applied[c.known + j]
  <2>1. TypeOK /\ c \in PayCall /\ CallOK(Len(obligations), c) /\ e = PaymentEntry(c)
    BY <1>0, <1>1 DEF Inv
  <2>. QED  BY <2>1, PaymentLines
<1>5. /\ \A i \in 1..N : PostedFor(i)' = (IF i \in Ids THEN PostedFor(i) ELSE 0) + LineOf(e, i)
      /\ PostedCredit' = PostedCredit + e.parked
  BY <1>0, <1>1, <1>4, PostedBy
<1>6. \A i \in 1..N : LineOf(e, i) = e.lines[i]
  BY <1>1 DEF LineOf
<1>7. \A i \in 1..n : i \in 1..N
  BY <1>1, <1>3
<1>8. \A i \in 1..n : PostedFor(i)' = PostedFor(i) + (IF i <= k THEN c.applied[i] ELSE 0)
  BY <1>0, <1>3, <1>4, <1>5, <1>6, <1>7
<1>9. ASSUME NEW j \in 1..d PROVE PostedFor(n + j)' = c.applied[k + j]
  <2>1. n + j \in 1..N /\ n + j \notin Ids /\ k + j \in 1..m
    <3>1. j \in Nat /\ 1 <= j /\ j <= d /\ n \in Nat /\ k \in Nat /\ d \in Nat
      BY <1>3
    <3>2. n + j \in 1..(n + d) /\ n + j \notin 1..n /\ k + j \in 1..(k + d)
      BY <3>1
    <3>. QED  BY <1>1, <1>3, <3>2
  <2>2. e.lines[n + j] = c.applied[k + j]
    BY <1>0, <1>4
  <2>3. c.applied[k + j] \in Nat
    BY <1>1, <1>2, <2>1, CallFields DEF CallOK
  <2>4. PostedFor(n + j)' = 0 + LineOf(e, n + j)
    BY <1>5, <2>1
  <2>. QED  BY <1>6, <2>1, <2>2, <2>3, <2>4
<1>10. PostedCredit' = PostedCredit + (c.remaining - c.before)
  BY <1>4, <1>5 DEF CreditChange
<1>. QED  BY <1>8, <1>9, <1>10

\* Nothing is posted for a new row.
LEMMA PostedRow ==
  ASSUME Inv, NEW row, AddRow(row), NEW n, n = Len(obligations)
  PROVE  /\ n \in Nat /\ Ids = 1..n
         /\ PostedCredit' = PostedCredit
         /\ \A i \in 1..n : PostedFor(i)' = PostedFor(i)
         /\ PostedFor(n + 1)' = 0
<1>1. n \in Nat /\ Ids = 1..n /\ income \in Seq(Int) /\ Len(income) = n
  BY ObligationsType DEF Inv, TypeOK
<1>2. income' = Append(income, 0) /\ UNCHANGED <<journal, liability>>
  BY DEF AddRow
<1>3. /\ \A i \in 1..n : income'[i] = income[i]
      /\ income'[n + 1] = 0
  BY <1>1, <1>2, AppendProperties
<1>4. PostedCredit' = PostedCredit /\ \A i : Contra(i)' = Contra(i)
  BY <1>2, ContraKept, CreditTotal, CreditTotalNext
<1>5. \A i : PostedFor(i)' = income'[i] - Contra(i)'
  BY DEF PostedFor
<1>6. \A i \in 1..n : PostedFor(i)' = PostedFor(i)
  BY <1>3, <1>4, <1>5 DEF PostedFor
<1>7. PostedFor(n + 1)' = 0
  <2>1. n + 1 \in Nat /\ n + 1 > Len(obligations)
    BY <1>1
  <2>2. Contra(n + 1) = 0
    BY <2>1, ContraUnknown
  <2>. QED  BY <1>3, <1>4, <1>5, <2>2
<1>. QED  BY <1>1, <1>4, <1>6, <1>7
-----------------------------------------------------------------------------
(* Any number of calls at once.  A payment shows no obligation as paid with *)
(* more than was posted for it and what it allocates itself; then others    *)
(* that commit meanwhile only post more.                                    *)

Covered(c) ==
    /\ \A i \in 1..c.known : c.rows[i].paid <= PostedFor(i) + c.applied[i]
    /\ \A i \in DOMAIN c.rows : i > c.known => c.rows[i].paid = c.applied[i]

CoveredInv ==
    /\ Inv /\ PaidIsPosted
    /\ \A h \in Handlers : handler[h] \in PayCall => Covered(handler[h])

LEMMA CoveredKept ==
  ASSUME Inv, NEW c \in PayCall, CallOK(Len(obligations), c), Covered(c),
         \A i \in Ids : PostedFor(i)' \in Int /\ PostedFor(i)' >= PostedFor(i)
  PROVE  Covered(c)'
<1>1. PICK k, m, n \in Nat : /\ k = c.known /\ m = Len(c.rows) /\ n = Len(obligations)
                             /\ k <= m /\ k <= n /\ Ids = 1..n /\ DOMAIN c.rows = 1..m
                             /\ DOMAIN c.applied = 1..m
  BY ObligationsType, CallFields DEF Inv, CallOK
<1>2. ASSUME NEW i \in 1..k PROVE c.rows[i].paid <= PostedFor(i)' + c.applied[i]
  <2>1. i \in Ids /\ i \in DOMAIN c.rows /\ i \in DOMAIN c.applied
    BY <1>1
  <2>2. PICK x, y, z \in Int : x = PostedFor(i) /\ y = PostedFor(i)' /\ z = c.applied[i]
    BY <2>1, PostedType, CallFields
  <2>3. PICK r \in Nat : r = c.rows[i].paid
    BY <2>1, CallFields DEF Row
  <2>4. r <= x + z /\ y >= x
    BY <1>1, <2>1, <2>2, <2>3 DEF Covered
  <2>5. r <= y + z
    BY <2>4
  <2>. QED  BY <2>2, <2>3, <2>5
<1>. QED  BY <1>1, <1>2 DEF Covered

\* Rows are added, or an entry is reversed.
LEMMA CoveredGrow ==
  ASSUME CoveredInv, Inv', handler' = handler,
         \A i \in Ids : obligations'[i] = obligations[i] /\ PostedFor(i)' = PostedFor(i),
         \A i \in Ids' : i \in Ids \/ obligations'[i].paid <= PostedFor(i)'
  PROVE  CoveredInv'
<1>1. PaidIsPosted'
  BY DEF CoveredInv, PaidIsPosted
<1>2. \A i \in Ids : PostedFor(i)' \in Int /\ PostedFor(i)' >= PostedFor(i)
  <2>1. \A i \in Ids : PostedFor(i) \in Int
    BY PostedType DEF CoveredInv
  <2>. QED  BY <2>1
<1>3. ASSUME NEW h \in Handlers, handler[h] \in PayCall PROVE Covered(handler[h])'
  <2>1. PICK c : c = handler[h] /\ c = handler'[h]
    OBVIOUS
  <2>2. Covered(c) /\ CallOK(Len(obligations), c) /\ c \in PayCall /\ Inv
    BY <1>3, <2>1 DEF CoveredInv, Inv
  <2>3. Covered(c)'
    BY <1>2, <2>2, CoveredKept
  <2>. QED  BY <2>1, <2>3 DEF Covered
<1>. QED  BY <1>1, <1>3 DEF CoveredInv

\* A call begins, goes on or ends.
LEMMA CoveredCallStep ==
  ASSUME CoveredInv, Inv', NEW h \in Handlers, NEW r, r \in PayCall => Covered(r),
         handler' = [handler EXCEPT ![h] = r], UNCHANGED <<obligations, ledgerVars>>
  PROVE  CoveredInv'
<1>1. Ids' = Ids /\ \A i : PostedFor(i)' = PostedFor(i)
  BY PostedKept DEF Ids, ledgerVars
<1>2. PaidIsPosted'
  BY <1>1 DEF CoveredInv, PaidIsPosted
<1>3. \A g \in Handlers : handler'[g] = IF g = h THEN r ELSE handler[g]
  BY DEF CoveredInv, Inv, TypeOK
<1>4. ASSUME NEW g \in Handlers, handler'[g] \in PayCall PROVE Covered(handler[g])'
  <2>1. PICK c : c = handler'[g]
    OBVIOUS
  <2>2. Covered(c)
    BY <1>3, <1>4, <2>1 DEF CoveredInv
  <2>3. Covered(c)'
    BY <1>1, <2>2 DEF Covered
  <2>. QED  BY <2>1, <2>3 DEF Covered
<1>. QED  BY <1>2, <1>4 DEF CoveredInv

LEMMA CoveredCalm ==
  ASSUME CoveredInv, Inv', UNCHANGED <<obligations, ledgerVars, handler>>
  PROVE  CoveredInv'
<1>1. Ids' = Ids /\ \A i : PostedFor(i)' = PostedFor(i)
  BY PostedKept DEF Ids, ledgerVars
<1>. QED  BY <1>1, CoveredGrow

LEMMA CoveredRows ==
  ASSUME CoveredInv, Inv', NEW row, AddRow(row), row.paid = 0
  PROVE  CoveredInv'
<1>1. PICK n \in Nat :
         /\ n = Len(obligations) /\ Ids = 1..n
         /\ \A i \in 1..n : PostedFor(i)' = PostedFor(i)
         /\ PostedFor(n + 1)' = 0
  BY PostedRow DEF CoveredInv
<1>2. obligations' = Append(obligations, row) /\ obligations \in Seq(Row)
  BY DEF AddRow, CoveredInv, Inv, TypeOK
<1>3. /\ Len(obligations') = n + 1 /\ Ids' = 1..(n + 1) /\ obligations'[n + 1] = row
      /\ \A i \in 1..n : obligations'[i] = obligations[i]
  BY <1>1, <1>2 DEF Ids
<1>4. \A i \in 1..(n + 1) : i \in 1..n \/ i = n + 1
  OBVIOUS
<1>5. \A i \in Ids' : i \in Ids \/ obligations'[i].paid <= PostedFor(i)'
  BY <1>1, <1>3, <1>4
<1>6. handler' = handler
  BY DEF AddRow
<1>. QED  BY <1>1, <1>3, <1>5, <1>6, CoveredGrow

LEMMA AllocatesCovered ==
  ASSUME TypeOK, Inv, NEW c \in PayCall, CallOK(Len(obligations), c), Covered(c),
         NEW i \in DOMAIN c.rows, c.applied[i] = 0, NEW kind, NEW r, Allocates(c, r, i, kind)
  PROVE  Covered(r)
<1>1. /\ r \in PayCall /\ r.known = c.known
      /\ \A j \in DOMAIN c.rows : j # i => r.rows[j] = c.rows[j] /\ r.applied[j] = c.applied[j]
      /\ r.rows[i].paid = c.rows[i].paid + r.applied[i]
      /\ Len(r.rows) = Len(c.rows) /\ Len(r.applied) = Len(c.applied)
  BY DEF Allocates
<1>2. PICK m, k \in Nat : /\ m = Len(c.rows) /\ k = c.known /\ k <= m
                          /\ DOMAIN c.rows = 1..m /\ DOMAIN r.rows = 1..m
                          /\ DOMAIN c.applied = 1..m /\ DOMAIN r.applied = 1..m
  BY <1>1, CallFields DEF CallOK
<1>3. \A j \in 1..m : r.applied[j] \in Nat /\ c.rows[j].paid \in Nat
  BY <1>1, <1>2, CallFields DEF Row
<1>4. \A j \in 1..k : j \in 1..m /\ j \in Ids /\ PostedFor(j) \in Int
  <2>1. Ids = 1..Len(obligations) /\ Len(obligations) \in Nat /\ k <= Len(obligations)
    BY <1>2, ObligationsType DEF CallOK
  <2>. QED  BY <1>2, <2>1, PostedType
<1>5. ASSUME NEW j \in 1..k PROVE r.rows[j].paid <= PostedFor(j) + r.applied[j]
  <2>1. c.rows[j].paid <= PostedFor(j) + c.applied[j]
    BY <1>2 DEF Covered
  <2>2. CASE j = i
    <3>1. PICK x \in Int : x = PostedFor(j)
      BY <1>4
    <3>2. PICK y, a \in Nat : y = c.rows[j].paid /\ a = r.applied[j]
      BY <1>3, <1>4
    <3>3. y <= x
      BY <2>1, <2>2, <3>1, <3>2
    <3>4. r.rows[j].paid = y + a
      BY <1>1, <2>2, <3>2
    <3>. QED  BY <3>1, <3>2, <3>3, <3>4
  <2>3. CASE j # i
    BY <1>1, <1>2, <1>4, <2>1, <2>3
  <2>. QED  BY <2>2, <2>3
<1>6. ASSUME NEW j \in 1..m, j > k PROVE r.rows[j].paid = r.applied[j]
  <2>1. c.rows[j].paid = c.applied[j]
    BY <1>2, <1>6 DEF Covered
  <2>2. CASE j = i
    <3>1. r.rows[j].paid = 0 + r.applied[j] /\ r.applied[j] \in Nat
      BY <1>1, <1>3, <2>1, <2>2
    <3>. QED  BY <3>1
  <2>3. CASE j # i
    BY <1>1, <1>2, <2>1, <2>3
  <2>. QED  BY <2>2, <2>3
<1>. QED  BY <1>1, <1>2, <1>5, <1>6 DEF Covered

LEMMA CoveredPay ==
  ASSUME CoveredInv, Inv', NEW h \in Handlers,
         \/ \E a \in Payments, f \in Funds, chosen \in SUBSET Ids : PayRead(h, a, f, chosen)
         \/ PaySelect(h) \/ PayUnselected(h) \/ PayDue(h) \/ PayAnchor(h)
         \/ PayExtend(h) \/ PayItem(h) \/ PayRefused(h)
  PROVE  CoveredInv'
<1>. USE DEF CoveredInv
<1>1. ASSUME NEW a \in Payments, NEW f \in Funds, NEW chosen \in SUBSET Ids,
             PayRead(h, a, f, chosen)
      PROVE  CoveredInv'
  <2>1. PICK r : r = [op |-> "read", amount |-> a, fund |-> f, selected |-> chosen,
                 before |-> credit, remaining |-> a + credit,
                 rows |-> <<>>, known |-> 0, applied |-> <<>>, touched |-> <<>>,
                 dues |-> {}, items |-> {}, mixed |-> FALSE,
                 month |-> 0, tail |-> 0, extended |-> 0]
    OBVIOUS
  <2>2. /\ handler' = [handler EXCEPT ![h] = r]
        /\ UNCHANGED <<configVars, memberVars, ledgerVars>>
    BY <1>1, <2>1 DEF PayRead, Begin
  <2>3. r.known = 0 /\ r.rows = <<>> /\ r.applied = <<>>
    BY <2>1
  <2>4. 1..0 = {} /\ DOMAIN <<>> = {}
    OBVIOUS
  <2>5. Covered(r)
    BY <2>3, <2>4 DEF Covered
  <2>. QED  BY <2>2, <2>5, CoveredCallStep DEF memberVars
<1>2. CASE PaySelect(h)
  <2>1. PICK c : c = handler[h]
    OBVIOUS
  <2>2. PICK r : /\ Selected(c, r) /\ handler' = [handler EXCEPT ![h] = r]
                 /\ c.op = "read" /\ c.selected \subseteq OpenIds(Events)
                 /\ UNCHANGED <<configVars, memberVars, ledgerVars>>
    BY <1>2, <2>1, PaySelectIs
  <2>3. c \in PayCall
    BY <2>1, <2>2, CallByOp DEF Inv
  <2>4. /\ r \in PayCall /\ r.rows = obligations /\ r.known = Len(obligations)
        /\ r.applied = [i \in Ids |-> 0]
    BY <2>2, <2>3, SelectedResult DEF Inv
  <2>5. PICK n \in Nat : /\ n = Len(obligations) /\ Ids = 1..n /\ DOMAIN obligations = 1..n
                         /\ \A i \in Ids : obligations[i].paid \in Nat
    BY ObligationsType DEF Inv, Row
  <2>6. \A i \in 1..n : r.applied[i] = 0 /\ obligations[i].paid <= PostedFor(i) + r.applied[i]
    BY <2>4, <2>5, PostedType DEF PaidIsPosted
  <2>7. \A i \in 1..n : ~(i > n)
    OBVIOUS
  <2>8. Covered(r)
    BY <2>4, <2>5, <2>6, <2>7 DEF Covered
  <2>. QED  BY <2>2, <2>4, <2>8, CoveredCallStep DEF memberVars
<1>3. CASE PayUnselected(h) \/ PayRefused(h)
  <2>1. /\ handler' = [handler EXCEPT ![h] = Idle]
        /\ UNCHANGED <<configVars, memberVars, ledgerVars>>
    BY <1>3 DEF PayUnselected, PayRefused, End
  <2>2. Idle \notin PayCall
    BY IdleIsNoCall
  <2>. QED  BY <2>1, <2>2, CoveredCallStep DEF memberVars
<1>4. CASE PayDue(h) \/ PayItem(h)
  <2>1. PICK c, v, r, i :
         /\ c = handler[h] /\ c \in PayCall /\ CallOK(Len(obligations), c)
         /\ PaysDue(c, v, r, i) \/ PaysItem(c, v, r, i)
         /\ i \in DOMAIN c.rows
         /\ v \in PayCall /\ CallOK(Len(obligations), v) /\ v.applied[i] = 0
         /\ v.rows = c.rows
         /\ handler' = [handler EXCEPT ![h] = r]
         /\ UNCHANGED <<configVars, memberVars, ledgerVars>>
    BY <1>4, VisitResult
  <2>2. PICK n \in Nat : n = Len(obligations)
    BY ObligationsType DEF Inv
  <2>3. v.known = c.known /\ v.applied = c.applied
    <3>1. CASE PaysDue(c, v, r, i)
      <4>1. i \in c.dues /\ v = [c EXCEPT !.dues = @ \ {i}]
        BY <3>1 DEF PaysDue, Oldest
      <4>. QED  BY <2>1, <2>2, <4>1, VisitDue
    <3>2. CASE PaysItem(c, v, r, i)
      <4>1. i \in c.items /\ v = [c EXCEPT !.items = @ \ {i}]
        BY <3>2 DEF PaysItem, Oldest
      <4>. QED  BY <2>1, <2>2, <4>1, VisitItem
    <3>. QED  BY <2>1, <3>1, <3>2
  <2>4. Covered(c)
    BY <2>1
  <2>5. Covered(v)
    BY <2>1, <2>3, <2>4 DEF Covered
  <2>6. PICK kind : Allocates(v, r, i, kind)
    BY <2>1 DEF PaysDue, PaysItem
  <2>7. Covered(r) /\ r \in PayCall
    <3>1. r \in PayCall /\ i \in DOMAIN v.rows /\ TypeOK
      BY <2>1, <2>6 DEF Allocates, Inv
    <3>2. Covered(r)
      BY <2>1, <2>5, <2>6, <3>1, AllocatesCovered
    <3>. QED  BY <3>1, <3>2
  <2>. QED  BY <2>1, <2>7, CoveredCallStep DEF memberVars
<1>5. CASE PayAnchor(h)
  <2>1. PICK c : c = handler[h]
    OBVIOUS
  <2>2. PICK r : /\ Anchored(c, r) /\ handler' = [handler EXCEPT ![h] = r]
                 /\ c.op = "dues" /\ UNCHANGED <<configVars, memberVars, ledgerVars>>
    BY <1>5, <2>1, PayAnchorIs
  <2>3. c \in PayCall /\ Covered(c) /\ c.tail <= Versions
    BY <2>1, <2>2, CallByOp DEF Inv, CallOK
  <2>4. /\ r \in PayCall /\ r.rows = c.rows /\ r.known = c.known
        /\ r.applied = c.applied
    BY <2>2, <2>3, AnchoredResult DEF Inv
  <2>5. Covered(r)
    BY <2>3, <2>4 DEF Covered
  <2>. QED  BY <2>2, <2>4, <2>5, CoveredCallStep DEF memberVars
<1>6. CASE PayExtend(h)
  <2>1. PICK c, g, r :
         /\ c = handler[h] /\ c \in PayCall /\ CallOK(Len(obligations), c) /\ c.op = "extend"
         /\ Grows(c, g) /\ Allocates(g, r, Len(c.rows) + 1, "fixed")
         /\ handler' = [handler EXCEPT ![h] = r]
         /\ UNCHANGED <<configVars, memberVars, ledgerVars>>
    BY <1>6, ExtendResult
  <2>2. PICK n, k, i : /\ n \in Nat /\ k \in Nat /\ i \in Nat
                       /\ n = Len(obligations) /\ k = Len(c.rows) /\ i = k + 1
    <3>1. Len(obligations) \in Nat /\ Len(c.rows) \in Nat
      BY <2>1, ObligationsType, CallFields DEF Inv
    <3>2. PICK x \in Nat : x = Len(c.rows)
      BY <3>1
    <3>3. PICK y \in Nat : y = Len(obligations)
      BY <3>1
    <3>4. x + 1 \in Nat
      OBVIOUS
    <3>. QED  BY <3>2, <3>3, <3>4, Zenon
  <2>3. /\ g \in PayCall /\ CallOK(n, g) /\ DOMAIN g.rows = 1..i
        /\ \A j \in DOMAIN c.rows : g.rows[j] = c.rows[j] /\ g.applied[j] = c.applied[j]
        /\ g.rows[i].paid = 0 /\ g.applied[i] = 0
        /\ g.known = c.known
    <3>1. CallOK(n, c) /\ Grows(c, g) /\ c.op = "extend" /\ c \in PayCall
      BY <2>1, <2>2
    <3>2. TypeOK
      BY DEF Inv
    <3>. QED  BY <2>2, <3>1, <3>2, GrowsResult
  <2>4. DOMAIN c.rows = 1..k /\ DOMAIN c.applied = 1..k /\ c.known \in Nat /\ c.known <= k
    BY <2>1, <2>2, CallFields DEF CallOK
  <2>5. DOMAIN g.applied = 1..i
    BY <2>2, <2>3, CallFields DEF CallOK
  <2>6. Covered(c)
    BY <2>1
  <2>7. \A j \in 1..i : j \in 1..k \/ j = i
    BY <2>2
  <2>8. Covered(g)
    <3>1. \A j \in 1..c.known : j \in DOMAIN c.rows
      BY <2>2, <2>4
    <3>2. \A j \in 1..i : j > c.known => g.rows[j].paid = g.applied[j]
      BY <2>3, <2>4, <2>6, <2>7 DEF Covered
    <3>4. \A j \in 1..c.known : g.rows[j] = c.rows[j] /\ g.applied[j] = c.applied[j]
      BY <2>3, <3>1
    <3>. QED  BY <2>3, <2>5, <2>6, <3>2, <3>4 DEF Covered
  <2>9. i \in DOMAIN g.rows
    BY <2>2, <2>3
  <2>10. r \in PayCall /\ TypeOK
    BY <2>1 DEF Allocates, Inv
  <2>11. PICK kind : Allocates(g, r, i, kind)
    BY <2>1, <2>2
  <2>12. Covered(r)
    BY <2>2, <2>3, <2>8, <2>9, <2>10, <2>11, AllocatesCovered
  <2>. QED  BY <2>1, <2>10, <2>12, CoveredCallStep DEF memberVars
<1>. QED  BY <1>1, <1>2, <1>3, <1>4, <1>5, <1>6

LEMMA CoveredCommit ==
  ASSUME CoveredInv, Inv', NEW h \in Handlers, PayCommit(h)
  PROVE  CoveredInv'
<1>1. PICK c : /\ c = handler[h] /\ c \in PayCall /\ CallOK(Len(obligations), c)
               /\ obligations' = Written(c)
               /\ handler' = [handler EXCEPT ![h] = Idle]
  BY PayCommitIs DEF CoveredInv
<1>2. TypeOK /\ Inv /\ Covered(c)
  BY <1>1 DEF CoveredInv, Inv
<1>3. PICK n, k, m, d : /\ n \in Nat /\ k \in Nat /\ m \in Nat /\ d \in Nat
                        /\ n = Len(obligations) /\ k = c.known /\ m = Len(c.rows)
                        /\ d = m - k /\ k <= n
  <2>1. /\ Len(obligations) \in Nat /\ c.known \in Nat /\ Len(c.rows) \in Nat
        /\ c.known <= Len(c.rows) /\ c.known <= Len(obligations)
    BY <1>1, <1>2, ObligationsType, CallFields DEF CallOK
  <2>2. Len(c.rows) - c.known \in Nat
    BY <2>1
  <2>. QED  BY <2>1, <2>2
<1>4. PICK W : W = Written(c)
  OBVIOUS
<1>5. /\ W \in Seq(Row) /\ Len(W) = n + d
      /\ \A i \in Ids : W[i] = IF i <= k /\ c.applied[i] > 0 THEN c.rows[i] ELSE obligations[i]
      /\ \A j \in 1..d : W[n + j] = c.rows[k + j]
  BY <1>1, <1>2, <1>3, <1>4, WrittenRows
<1>6. /\ \A i \in 1..n : PostedFor(i)' = PostedFor(i) + (IF i <= k THEN c.applied[i] ELSE 0)
      /\ \A j \in 1..d : PostedFor(n + j)' = c.applied[k + j]
  <2>1. Sizes(handler[h], c, n, k, d)
    BY <1>1, <1>3 DEF Sizes
  <2>2. /\ \A i \in 1..n : PostedFor(i)' = PostedFor(i) + (IF i <= k THEN c.applied[i] ELSE 0)
        /\ \A j \in 1..d : PostedFor(n + j)' = c.applied[k + j]
        /\ PostedCredit' = PostedCredit + (c.remaining - c.before)
    BY <1>2, <2>1, PostedPayment
  <2>. QED  BY <2>2
<1>7. Ids = 1..n /\ \A i \in Ids : PostedFor(i) \in Int /\ obligations[i].paid \in Nat
  BY <1>2, <1>3, ObligationsType, PostedType DEF Row
<1>8. \A i \in 1..n : PostedFor(i)' \in Int /\ PostedFor(i)' >= PostedFor(i)
  <2>. SUFFICES ASSUME NEW i \in 1..n PROVE PostedFor(i)' \in Int /\ PostedFor(i)' >= PostedFor(i)
    OBVIOUS
  <2>1. (IF i <= k THEN c.applied[i] ELSE 0) \in Nat
    <3>1. i <= k => i \in 1..m
      BY <1>3
    <3>. QED  BY <1>1, <1>3, <3>1, CallFields DEF CallOK
  <2>. QED  BY <1>6, <1>7, <2>1
<1>9. ASSUME NEW i \in 1..n PROVE W[i].paid <= PostedFor(i)'
  <2>1. CASE i <= k /\ c.applied[i] > 0
    <3>1. c.rows[i].paid <= PostedFor(i) + c.applied[i]
      BY <1>2, <1>3, <2>1 DEF Covered
    <3>. QED  BY <1>5, <1>6, <1>7, <2>1, <3>1
  <2>2. CASE ~(i <= k /\ c.applied[i] > 0)
    <3>1. W[i] = obligations[i] /\ obligations[i].paid <= PostedFor(i)
      BY <1>5, <1>7, <2>2 DEF CoveredInv, PaidIsPosted
    <3>2. PICK x, y, z \in Int : x = obligations[i].paid /\ y = PostedFor(i) /\ z = PostedFor(i)'
      BY <1>7, <1>8
    <3>3. x <= y /\ z >= y
      BY <1>8, <3>1, <3>2
    <3>. QED  BY <3>1, <3>2, <3>3
  <2>. QED  BY <2>1, <2>2
<1>10. ASSUME NEW j \in 1..d PROVE W[n + j].paid = PostedFor(n + j)' /\ W[n + j].paid \in Nat
  <2>1. k + j \in 1..m /\ k + j > k
    BY <1>3
  <2>2. c.rows[k + j].paid = c.applied[k + j] /\ c.applied[k + j] \in Nat
    BY <1>1, <1>2, <1>3, <2>1, CallFields DEF Covered, CallOK
  <2>. QED  BY <1>5, <1>6, <2>2
<1>11. PaidIsPosted'
  <2>1. Ids' = 1..(n + d)
    BY <1>1, <1>4, <1>5 DEF Ids
  <2>2. ASSUME NEW i \in 1..(n + d) PROVE W[i].paid <= PostedFor(i)'
    <3>1. CASE i <= n
      BY <1>3, <1>9, <3>1
    <3>2. CASE i > n
      <4>1. i - n \in 1..d /\ n + (i - n) = i
        BY <1>3, <3>2
      <4>2. W[i].paid = PostedFor(i)' /\ W[i].paid \in Nat
        BY <1>10, <4>1
      <4>. QED  BY <4>2
    <3>. QED  BY <1>3, <3>1, <3>2
  <2>. QED  BY <1>1, <1>4, <2>1, <2>2 DEF PaidIsPosted
<1>12. ASSUME NEW g \in Handlers, handler'[g] \in PayCall PROVE Covered(handler[g])'
  <2>1. PICK b : b = handler'[g] /\ b \in PayCall
    BY <1>12
  <2>2. b = handler[g]
    BY <1>1, <1>2, <2>1, IdleIsNoCall DEF TypeOK
  <2>3. Covered(b) /\ CallOK(Len(obligations), b)
    BY <2>1, <2>2 DEF CoveredInv, Inv
  <2>4. \A i \in Ids : PostedFor(i)' \in Int /\ PostedFor(i)' >= PostedFor(i)
    BY <1>7, <1>8
  <2>5. Covered(b)'
    BY <1>2, <2>1, <2>3, <2>4, CoveredKept
  <2>. QED  BY <2>1, <2>5 DEF Covered
<1>. QED  BY <1>11, <1>12 DEF CoveredInv

LEMMA NextCovered == CoveredInv /\ [Next]_vars => CoveredInv'
<1>. SUFFICES ASSUME CoveredInv, [Next]_vars PROVE CoveredInv'
  OBVIOUS
<1>0. Inv'
  BY NextInv DEF CoveredInv
<1>1. CASE \/ UNCHANGED vars \/ NextMonth \/ ActivateVersion \/ SetAllocationPolicy
           \/ \E t \in Thresholds : SetPolicy(t)
  BY <1>0, <1>1, CoveredCalm
     DEF vars, memberVars, NextMonth, ActivateVersion, SetAllocationPolicy, SetPolicy
<1>2. ASSUME NEW p \in Plans, NEW due \in 1..MaxDue,
             CreateObligation(p, due) \/ ActivateEvent(p, due)
      PROVE  CoveredInv'
  <2>1. \A amount : NewRow(p, due, amount).paid = 0
    BY DEF NewRow
  <2>2. CASE \E amount : AddRow(NewRow(p, due, amount))
    BY <1>0, <2>1, <2>2, CoveredRows
  <2>3. CASE UNCHANGED <<memberVars, ledgerVars, handler>>
    BY <1>0, <2>3, CoveredCalm DEF memberVars
  <2>. QED  BY <1>2, <2>2, <2>3 DEF CreateObligation, ActivateEvent
<1>3. ASSUME NEW h \in Handlers, ReassessCommit(h) \/ \E p \in Plans : ReassessRead(h, p)
      PROVE  CoveredInv'
  <2>1. PICK r : r \notin PayCall /\ handler' = [handler EXCEPT ![h] = r]
    <3>1. CASE ReassessCommit(h)
      BY <3>1, IdleIsNoCall DEF ReassessCommit, End
    <3>2. ASSUME NEW p \in Plans, ReassessRead(h, p)
          PROVE  \E r : r \notin PayCall /\ handler' = [handler EXCEPT ![h] = r]
      <4>1. PICK r : r = [op |-> "reassess", to |-> Reassessed(standing, obligations, p)]
        OBVIOUS
      <4>. QED  BY <3>2, <4>1 DEF ReassessRead, Begin, PayCall
    <3>. QED  BY <1>3, <3>1, <3>2
  <2>2. UNCHANGED <<obligations, ledgerVars>>
    BY <1>3 DEF ReassessCommit, ReassessRead, memberVars
  <2>. QED  BY <1>0, <2>1, <2>2, CoveredCallStep DEF memberVars
<1>4. ASSUME NEW h \in Handlers,
             \/ \E a \in Payments, f \in Funds, chosen \in SUBSET Ids : PayRead(h, a, f, chosen)
             \/ PaySelect(h) \/ PayUnselected(h) \/ PayDue(h) \/ PayAnchor(h)
             \/ PayExtend(h) \/ PayItem(h) \/ PayRefused(h)
      PROVE  CoveredInv'
  BY <1>0, <1>4, CoveredPay
<1>5. ASSUME NEW h \in Handlers, PayCommit(h) PROVE CoveredInv'
  BY <1>0, <1>5, CoveredCommit
<1>6. ASSUME NEW k \in 1..Len(journal), ReverseEntry(k) PROVE CoveredInv'
  <2>1. UNCHANGED <<obligations, handler>> /\ Ids' = Ids
    BY <1>6 DEF ReverseEntry, memberVars, Ids
  <2>2. \A i \in Ids : PostedFor(i)' = PostedFor(i)
    BY <1>6, PostedReverse DEF CoveredInv
  <2>. QED  BY <1>0, <2>1, <2>2, CoveredGrow
<1>. QED  BY <1>1, <1>2, <1>3, <1>4, <1>5, <1>6 DEF Next

\* No obligation is shown as paid with money that no payment posted for it, for
\* any number of payments, reversals and administrators at once: where
\* overlapping payments lose an update, they lose it on the member's side.
THEOREM NothingPaidUnposted == Spec => []PaidIsPosted
<1>1. Init => CoveredInv
  <2>. SUFFICES ASSUME Init PROVE CoveredInv
    OBVIOUS
  <2>1. Ids = {}
    BY DEF Init, Ids
  <2>2. \A h \in Handlers : handler[h] \notin PayCall
    BY IdleIsNoCall DEF Init
  <2>. QED  BY <2>1, <2>2, InitInv DEF CoveredInv, PaidIsPosted
<1>2. CoveredInv /\ [Next]_vars => CoveredInv'
  BY NextCovered
<1>3. CoveredInv => PaidIsPosted
  BY DEF CoveredInv
<1>. QED  BY <1>1, <1>2, <1>3, PTL DEF Spec
-----------------------------------------------------------------------------
(* One call at a time.  Then what a payment read of the rows it will write  *)
(* is still so when it commits, although rows may have been added.          *)

SerialCalls == \A g, h \in Handlers : g = h

GoodStanding == {"ACTIVE", "PROBATION"}

\* What a payment holds of the member's rows and credit is what they are, and
\* what it allocated.
Mirrors(c) ==
    /\ c.before = credit
    /\ \A i \in 1..c.known :
          /\ c.rows[i].plan = obligations[i].plan /\ c.rows[i].due = obligations[i].due
          /\ c.rows[i].paid = obligations[i].paid + c.applied[i]
          /\ c.applied[i] = 0 => c.rows[i] = obligations[i]
    /\ \A i \in DOMAIN c.rows : i > c.known => c.rows[i].paid = c.applied[i]
    /\ c.touched = <<>> => \A i \in DOMAIN c.applied : c.applied[i] = 0

\* A member is out of good standing only under a policy, with a lapsed due.
Earned(s) == s \notin GoodStanding => policy # {} /\ Lapsed(obligations) # {}

SerialInv ==
    /\ Inv
    /\ LedgerShowsPaid
    /\ Earned(standing)
    /\ \A h \in Handlers : /\ handler[h] \in PayCall => Mirrors(handler[h])
                           /\ handler[h] \in ReassessCall => Earned(handler[h].to)

LEMMA LapsedGrows ==
  ASSUME TypeOK, month' \in Nat, month' >= month, obligations' \in Seq(Row),
         Len(obligations') >= Len(obligations), \A i \in Ids : obligations'[i] = obligations[i],
         policy # {} => policy' # {}, NEW s, Earned(s)
  PROVE  Earned(s)'
<1>1. Lapsed(obligations) # {} => Lapsed(obligations)' # {}
  <2>. SUFFICES ASSUME NEW i \in Lapsed(obligations) PROVE i \in Lapsed(obligations)'
    OBVIOUS
  <2>1. /\ i \in Ids /\ obligations[i].due + Grace <= month /\ obligations[i].status # "PAID"
        /\ obligations[i].due \in Nat
    BY ObligationsType DEF Lapsed, Row
  <2>2. Grace \in Nat /\ month \in Nat
    BY ContributionsAssumption DEF TypeOK
  <2>3. i \in DOMAIN obligations'
    <3>1. Len(obligations) \in Nat /\ i \in 1..Len(obligations)
      BY <2>1, ObligationsType
    <3>2. DOMAIN obligations' = 1..Len(obligations') /\ Len(obligations') \in Nat
      BY LenProperties
    <3>. QED  BY <3>1, <3>2
  <2>4. obligations'[i].due + Grace <= month'
    BY <2>1, <2>2
  <2>. QED  BY <2>1, <2>3, <2>4 DEF Lapsed
<1>. QED  BY <1>1 DEF Earned

\* Something missed is something lapsed.
LEMMA ReassessedBad ==
  ASSUME TypeOK, NEW s \in Standings, NEW rows \in Seq(Row), NEW p,
         Reassessed(s, rows, p) \notin GoodStanding
  PROVE  \/ policy # {} /\ Lapsed(rows) # {}
         \/ policy = {} /\ s \notin GoodStanding
<1>. DEFINE lapsed == {i \in DOMAIN rows : rows[i].plan = p /\ rows[i].due + Grace <= month}
            settled == {i \in lapsed : rows[i].status = "PAID"}
            open == {i \in lapsed : \A j \in settled : rows[j].due < rows[i].due}
<1>1. Missed(rows, p) = Cardinality(open)
  BY DEF Missed
<1>2. PICK m : m = Missed(rows, p)
  OBVIOUS
<1>3. m # 0 => Lapsed(rows) # {}
  <2>1. CASE open = {}
    BY <1>1, <1>2, <2>1, FS_EmptySet
  <2>2. CASE open # {}
    <3>1. PICK i : i \in open
      BY <2>2
    <3>2. i \in lapsed /\ \A j \in settled : rows[j].due < rows[i].due
      BY <3>1
    <3>3. i \notin settled
      <4>0. i \in DOMAIN rows
        BY <3>2
      <4>a. rows[i] \in Row
        BY <4>0, LenProperties, ElementOfSeq
      <4>1. rows[i].due \in Nat
        BY <4>a DEF Row
      <4>2. ~ (rows[i].due < rows[i].due)
        BY <4>1
      <4>. QED  BY <3>2, <4>2
    <3>4. i \in Lapsed(rows)
      BY <3>2, <3>3 DEF Lapsed
    <3>. QED  BY <3>4
  <2>. QED  BY <2>1, <2>2
<1>4. \A t \in policy : t.forfeiture \in Nat \ {0} /\ t.defaulter \in Nat \ {0}
  BY ContributionsAssumption DEF TypeOK
<1>. HIDE DEF lapsed, settled, open
<1>5. CASE \E t \in policy : m >= t.forfeiture \/ m >= t.defaulter
  <2>1. m # 0
    BY <1>4, <1>5
  <2>. QED  BY <1>3, <1>5, <2>1
<1>6. CASE ~ \E t \in policy : m >= t.forfeiture \/ m >= t.defaulter
  <2>1. Reassessed(s, rows, p) =
           IF policy # {} /\ m = 0 /\ s \in {"DEFAULTER", "SUSPENDED"}
           THEN IF p \in Waits THEN "PROBATION" ELSE "ACTIVE" ELSE s
    BY <1>2, <1>6 DEF Reassessed
  <2>2. s \in GoodStanding \/ s \in {"DEFAULTER", "SUSPENDED"}
    BY DEF Standings, GoodStanding
  <2>. QED  BY <1>3, <2>1, <2>2 DEF GoodStanding
<1>. QED  BY <1>5, <1>6

\* Rows are added, or something else changes that no call looks at.
LEMMA SerialGrow ==
  ASSUME SerialInv, Inv', month' >= month,
         UNCHANGED <<handler, credit, standing>>, PostedCredit' = PostedCredit,
         Len(obligations') >= Len(obligations), \A i \in Ids : obligations'[i] = obligations[i],
         \A i \in Ids' : obligations'[i].paid = PostedFor(i)',
         policy # {} => policy' # {}
  PROVE  SerialInv'
<1>1. TypeOK /\ TypeOK' /\ month' \in Nat /\ obligations' \in Seq(Row)
  <2>1. TypeOK /\ TypeOK' /\ MaxMonth \in Nat
    BY ContributionsAssumption DEF SerialInv, Inv
  <2>. QED  BY <2>1 DEF TypeOK
<1>2. ASSUME NEW s, Earned(s) PROVE Earned(s)'
  BY <1>1, <1>2, LapsedGrows
<1>3. ASSUME NEW h \in Handlers, handler[h] \in PayCall PROVE Mirrors(handler[h])'
  <2>1. PICK c : c = handler[h] /\ c = handler'[h]
    OBVIOUS
  <2>2. Mirrors(c) /\ CallOK(Len(obligations), c)
    BY <1>3, <2>1 DEF SerialInv, Inv
  <2>3. \A i \in 1..c.known : i \in Ids
    <3>1. Ids = 1..Len(obligations) /\ Len(obligations) \in Nat
      BY <1>1, ObligationsType
    <3>2. c.known \in Nat /\ c.known <= Len(obligations)
      BY <1>3, <2>1, <2>2, CallFields DEF CallOK
    <3>. QED  BY <3>1, <3>2
  <2>4. \A i \in 1..c.known : obligations'[i] = obligations[i]
    BY <2>3
  <2>5. /\ c.before = credit'
        /\ \A i \in 1..c.known :
              /\ c.rows[i].plan = obligations'[i].plan /\ c.rows[i].due = obligations'[i].due
              /\ c.rows[i].paid = obligations'[i].paid + c.applied[i]
              /\ c.applied[i] = 0 => c.rows[i] = obligations'[i]
    BY <2>2, <2>4 DEF Mirrors
  <2>. QED  BY <2>1, <2>2, <2>5 DEF Mirrors
<1>4. Earned(standing)'
  <2>1. PICK s : s = standing /\ s = standing'
    OBVIOUS
  <2>2. Earned(s)'
    BY <1>2, <2>1 DEF SerialInv
  <2>. QED  BY <2>1, <2>2 DEF Earned
<1>5. ASSUME NEW h \in Handlers, handler[h] \in ReassessCall PROVE Earned(handler[h].to)'
  <2>1. PICK s : s = handler[h].to /\ s = handler'[h].to
    OBVIOUS
  <2>2. Earned(s)'
    BY <1>2, <1>5, <2>1 DEF SerialInv
  <2>. QED  BY <2>1, <2>2 DEF Earned
<1>6. LedgerShowsPaid'
  BY DEF SerialInv, LedgerShowsPaid
<1>. QED  BY <1>3, <1>4, <1>5, <1>6 DEF SerialInv

LEMMA ShownKept ==
  ASSUME LedgerShowsPaid, UNCHANGED <<obligations, credit, ledgerVars>>
  PROVE  LedgerShowsPaid' /\ \A i \in Ids' : obligations'[i].paid = PostedFor(i)'
<1>1. PostedCredit' = PostedCredit /\ \A i : PostedFor(i)' = PostedFor(i)
  BY PostedKept DEF ledgerVars
<1>2. Ids' = Ids
  BY DEF Ids
<1>. QED  BY <1>1, <1>2 DEF LedgerShowsPaid

\* A call begins, goes on or ends.
LEMMA SerialCallStep ==
  ASSUME SerialInv, Inv', NEW h \in Handlers, NEW r,
         r \in PayCall => Mirrors(r), r \in ReassessCall => Earned(r.to),
         handler' = [handler EXCEPT ![h] = r],
         UNCHANGED <<configVars, memberVars, ledgerVars>>
  PROVE  SerialInv'
<1>1. ASSUME NEW s, Earned(s) PROVE Earned(s)'
  BY <1>1 DEF Earned, Lapsed, configVars, memberVars
<1>2. ASSUME NEW c, Mirrors(c) PROVE Mirrors(c)'
  BY <1>2 DEF Mirrors, memberVars
<1>3. \A g \in Handlers : handler'[g] = IF g = h THEN r ELSE handler[g]
  BY DEF SerialInv, Inv, TypeOK
<1>4. ASSUME NEW g \in Handlers, handler'[g] \in PayCall PROVE Mirrors(handler[g])'
  <2>1. PICK c : c = handler'[g]
    OBVIOUS
  <2>2. Mirrors(c)
    BY <1>3, <1>4, <2>1 DEF SerialInv
  <2>3. Mirrors(c)'
    BY <1>2, <2>2
  <2>. QED  BY <2>1, <2>3 DEF Mirrors
<1>5. ASSUME NEW g \in Handlers, handler'[g] \in ReassessCall PROVE Earned(handler[g].to)'
  <2>1. PICK s : s = handler'[g].to
    OBVIOUS
  <2>2. Earned(s)
    BY <1>3, <1>5, <2>1 DEF SerialInv
  <2>3. Earned(s)'
    BY <1>1, <2>2
  <2>. QED  BY <2>1, <2>3 DEF Earned
<1>6. Earned(standing)'
  BY DEF SerialInv, Earned, Lapsed, configVars, memberVars
<1>7. LedgerShowsPaid'
  BY ShownKept DEF SerialInv, memberVars
<1>. QED  BY <1>4, <1>5, <1>6, <1>7 DEF SerialInv

LEMMA SerialCalm ==
  ASSUME SerialInv, Inv',
         \/ UNCHANGED vars \/ NextMonth \/ ActivateVersion \/ SetAllocationPolicy
         \/ \E t \in Thresholds : SetPolicy(t)
  PROVE  SerialInv'
<1>1. UNCHANGED <<memberVars, ledgerVars, handler>>
  BY DEF vars, configVars, NextMonth, ActivateVersion, SetAllocationPolicy, SetPolicy
<1>2. month \in Nat /\ MaxMonth \in Nat
  BY ContributionsAssumption DEF SerialInv, Inv, TypeOK
<1>3. month' >= month
  BY <1>2 DEF vars, configVars, NextMonth, ActivateVersion, SetAllocationPolicy, SetPolicy
<1>4. policy # {} => policy' # {}
  BY DEF vars, configVars, NextMonth, ActivateVersion, SetAllocationPolicy, SetPolicy
<1>5. Len(obligations) \in Nat
  BY ObligationsType DEF SerialInv, Inv
<1>6. PostedCredit' = PostedCredit /\ \A i \in Ids' : obligations'[i].paid = PostedFor(i)'
  BY <1>1, ShownKept, PostedKept DEF SerialInv, memberVars, ledgerVars
<1>7. /\ UNCHANGED <<handler, credit, standing>>
      /\ Len(obligations') >= Len(obligations) /\ \A i \in Ids : obligations'[i] = obligations[i]
  BY <1>1, <1>5 DEF memberVars
<1>. QED  BY <1>3, <1>4, <1>6, <1>7, SerialGrow

LEMMA SerialRows ==
  ASSUME SerialInv, Inv', NEW p \in Plans, NEW due \in 1..MaxDue,
         CreateObligation(p, due) \/ ActivateEvent(p, due)
  PROVE  SerialInv'
<1>1. month' = month /\ policy' = policy /\ month \in Nat
  <2>1. month \in Nat
    BY ContributionsAssumption DEF SerialInv, Inv, TypeOK
  <2>. QED  BY <2>1 DEF CreateObligation, ActivateEvent, configVars
<1>2. ASSUME NEW row, AddRow(row), row.paid = 0 PROVE SerialInv'
  <2>1. PICK n \in Nat :
           /\ n = Len(obligations) /\ Ids = 1..n /\ PostedCredit' = PostedCredit
           /\ \A i \in 1..n : PostedFor(i)' = PostedFor(i)
           /\ PostedFor(n + 1)' = 0
    BY <1>2, PostedRow DEF SerialInv
  <2>2. /\ obligations' = Append(obligations, row)
        /\ UNCHANGED <<handler, credit, standing>>
    BY <1>2 DEF AddRow
  <2>3. obligations \in Seq(Row) /\ obligations' \in Seq(Row)
    BY DEF SerialInv, Inv, TypeOK
  <2>4. Len(obligations') = n + 1 /\ Ids' = 1..(n + 1)
    BY <2>1, <2>2, <2>3 DEF Ids
  <2>5. obligations'[n + 1] = row /\ \A i \in 1..n : obligations'[i] = obligations[i]
    BY <2>1, <2>2, <2>3
  <2>6. \A i \in 1..(n + 1) : i \in 1..n \/ i = n + 1
    OBVIOUS
  <2>7. \A i \in Ids' : obligations'[i].paid = PostedFor(i)'
    BY <1>2, <2>1, <2>4, <2>5, <2>6 DEF SerialInv, LedgerShowsPaid
  <2>8. Len(obligations') >= Len(obligations)
    BY <2>1, <2>4
  <2>9. month' >= month /\ (policy # {} => policy' # {})
    BY <1>1
  <2>10. \A i \in Ids : obligations'[i] = obligations[i]
    BY <2>1, <2>5
  <2>. QED  BY <2>1, <2>2, <2>7, <2>8, <2>9, <2>10, SerialGrow
<1>3. ASSUME UNCHANGED <<memberVars, ledgerVars, handler>> PROVE SerialInv'
  <2>1. Len(obligations) \in Nat
    BY ObligationsType DEF SerialInv, Inv
  <2>2. PostedCredit' = PostedCredit /\ \A i \in Ids' : obligations'[i].paid = PostedFor(i)'
    BY <1>3, ShownKept, PostedKept DEF SerialInv, memberVars, ledgerVars
  <2>3. /\ UNCHANGED <<handler, credit, standing>>
        /\ Len(obligations') >= Len(obligations) /\ \A i \in Ids : obligations'[i] = obligations[i]
    BY <1>3, <2>1 DEF memberVars
  <2>. QED  BY <1>1, <2>2, <2>3, SerialGrow
<1>4. \A amount : NewRow(p, due, amount).paid = 0
  BY DEF NewRow
<1>. QED  BY <1>2, <1>3, <1>4 DEF CreateObligation, ActivateEvent

LEMMA SerialReassess ==
  ASSUME SerialCalls, SerialInv, Inv', NEW h \in Handlers,
         ReassessCommit(h) \/ \E p \in Plans : ReassessRead(h, p)
  PROVE  SerialInv'
<1>1. CASE ReassessCommit(h)
  <2>1. PICK s : s = handler[h].to
    OBVIOUS
  <2>2. Earned(s)
    BY <1>1, <2>1, CallByOp DEF SerialInv, Inv, ReassessCommit
  <2>3. /\ standing' = s /\ handler' = [handler EXCEPT ![h] = Idle]
        /\ UNCHANGED <<configVars, obligations, credit, ledgerVars>>
    BY <1>1, <2>1 DEF ReassessCommit, End
  <2>4. Earned(standing)'
    BY <2>2, <2>3 DEF Earned, Lapsed, configVars
  <2>5. \A g \in Handlers : handler'[g] = Idle
    BY <2>3 DEF SerialCalls, SerialInv, Inv, TypeOK
  <2>6. Idle \notin PayCall /\ Idle \notin ReassessCall
    BY IdleIsNoCall DEF Idle, ReassessCall
  <2>7. LedgerShowsPaid'
    BY <2>3, ShownKept DEF SerialInv
  <2>. QED  BY <2>4, <2>5, <2>6, <2>7 DEF SerialInv
<1>2. ASSUME NEW p \in Plans, ReassessRead(h, p) PROVE SerialInv'
  <2>1. PICK s : s = Reassessed(standing, obligations, p)
    OBVIOUS
  <2>2. PICK r : r = [op |-> "reassess", to |-> s]
    OBVIOUS
  <2>3. /\ handler' = [handler EXCEPT ![h] = r] /\ s # standing
        /\ UNCHANGED <<configVars, memberVars, ledgerVars>>
    BY <1>2, <2>1, <2>2 DEF ReassessRead, Begin
  <2>4. Earned(s)
    <3>1. SUFFICES ASSUME s \notin GoodStanding PROVE policy # {} /\ Lapsed(obligations) # {}
      BY DEF Earned
    <3>2. PICK rows : rows = obligations
      OBVIOUS
    <3>3. PICK t : t = standing
      OBVIOUS
    <3>4. /\ TypeOK /\ t \in Standings /\ rows \in Seq(Row)
          /\ Reassessed(t, rows, p) \notin GoodStanding
      BY <2>1, <3>1, <3>2, <3>3 DEF SerialInv, Inv, TypeOK
    <3>5. \/ policy # {} /\ Lapsed(rows) # {}
          \/ policy = {} /\ t \notin GoodStanding
      BY <3>4, ReassessedBad
    <3>. QED  BY <3>2, <3>3, <3>5 DEF SerialInv, Earned
  <2>5. r \notin PayCall /\ r.to = s
    BY <2>2 DEF PayCall
  <2>. QED  BY <2>3, <2>4, <2>5, SerialCallStep
<1>. QED  BY <1>1, <1>2

LEMMA AllocatesMirrors ==
  ASSUME TypeOK, NEW c \in PayCall, CallOK(Len(obligations), c), Mirrors(c),
         NEW i \in DOMAIN c.rows, c.applied[i] = 0, NEW kind, NEW r, Allocates(c, r, i, kind)
  PROVE  Mirrors(r)
<1>1. /\ r \in PayCall /\ r.known = c.known /\ r.before = c.before
      /\ \A j \in DOMAIN c.rows : j # i => r.rows[j] = c.rows[j] /\ r.applied[j] = c.applied[j]
      /\ r.rows[i].plan = c.rows[i].plan /\ r.rows[i].due = c.rows[i].due
      /\ r.rows[i].paid = c.rows[i].paid + r.applied[i]
      /\ r.applied[i] > 0 => r.touched # <<>>
      /\ c.touched # <<>> => r.touched # <<>>
      /\ r.applied[i] = 0 => r.rows[i] = c.rows[i]
      /\ Len(r.rows) = Len(c.rows) /\ Len(r.applied) = Len(c.applied)
  BY DEF Allocates
<1>2. PICK m, k \in Nat : /\ m = Len(c.rows) /\ k = c.known /\ k <= m
                          /\ DOMAIN c.rows = 1..m /\ DOMAIN r.rows = 1..m
                          /\ DOMAIN c.applied = 1..m /\ DOMAIN r.applied = 1..m
  BY <1>1, CallFields DEF CallOK
<1>3. \A j \in 1..m : r.applied[j] \in Nat
  BY <1>1, <1>2, CallFields
<1>4. \A j \in 1..k : j \in 1..m /\ j \in Ids
  <2>1. Ids = 1..Len(obligations) /\ Len(obligations) \in Nat /\ k <= Len(obligations)
    BY <1>2, ObligationsType DEF CallOK
  <2>. QED  BY <1>2, <2>1
<1>5. \A j \in Ids : obligations[j].paid \in Nat
  BY ObligationsType DEF Row
<1>6. ASSUME NEW j \in 1..k
      PROVE  /\ r.rows[j].plan = obligations[j].plan /\ r.rows[j].due = obligations[j].due
             /\ r.rows[j].paid = obligations[j].paid + r.applied[j]
             /\ r.applied[j] = 0 => r.rows[j] = obligations[j]
  <2>1. /\ c.rows[j].plan = obligations[j].plan /\ c.rows[j].due = obligations[j].due
        /\ c.rows[j].paid = obligations[j].paid + c.applied[j]
        /\ c.applied[j] = 0 => c.rows[j] = obligations[j]
    BY <1>2 DEF Mirrors
  <2>2. CASE j = i
    <3>1. c.rows[j].paid = obligations[j].paid
      <4>1. obligations[j].paid \in Nat
        BY <1>4, <1>5
      <4>. QED  BY <2>1, <2>2, <4>1
    <3>. QED  BY <1>1, <2>1, <2>2, <3>1
  <2>3. CASE j # i
    BY <1>1, <1>2, <1>4, <2>1, <2>3
  <2>. QED  BY <2>2, <2>3
<1>7. ASSUME NEW j \in 1..m, j > k PROVE r.rows[j].paid = r.applied[j]
  <2>1. c.rows[j].paid = c.applied[j]
    BY <1>2, <1>7 DEF Mirrors
  <2>2. CASE j = i
    <3>1. r.rows[j].paid = 0 + r.applied[j] /\ r.applied[j] \in Nat
      BY <1>1, <1>3, <2>1, <2>2
    <3>2. PICK x \in Nat : x = r.applied[j]
      BY <3>1
    <3>. QED  BY <3>1, <3>2
  <2>3. CASE j # i
    BY <1>1, <1>2, <2>1, <2>3
  <2>. QED  BY <2>2, <2>3
<1>8. r.touched = <<>> => \A j \in 1..m : r.applied[j] = 0
  <2>. SUFFICES ASSUME r.touched = <<>>, NEW j \in 1..m PROVE r.applied[j] = 0
    OBVIOUS
  <2>1. c.touched = <<>> /\ ~ (r.applied[i] > 0)
    BY <1>1
  <2>2. c.applied[j] = 0
    BY <1>2, <2>1 DEF Mirrors
  <2>3. CASE j = i
    BY <1>3, <2>1, <2>3
  <2>4. CASE j # i
    BY <1>1, <1>2, <2>2, <2>4
  <2>. QED  BY <2>3, <2>4
<1>9. r.before = credit
  BY <1>1 DEF Mirrors
<1>. QED  BY <1>1, <1>2, <1>6, <1>7, <1>8, <1>9 DEF Mirrors

LEMMA NotReassess == ASSUME NEW r \in PayCall PROVE r \notin ReassessCall
  BY IdleIsNoCall

LEMMA SerialPay ==
  ASSUME SerialInv, Inv', NEW h \in Handlers,
         \/ \E a \in Payments, f \in Funds, chosen \in SUBSET Ids : PayRead(h, a, f, chosen)
         \/ PaySelect(h) \/ PayUnselected(h) \/ PayDue(h) \/ PayAnchor(h)
         \/ PayExtend(h) \/ PayItem(h) \/ PayRefused(h)
  PROVE  SerialInv'
<1>. USE DEF SerialInv
<1>1. ASSUME NEW a \in Payments, NEW f \in Funds, NEW chosen \in SUBSET Ids,
             PayRead(h, a, f, chosen)
      PROVE  SerialInv'
  <2>1. PICK r : r = [op |-> "read", amount |-> a, fund |-> f, selected |-> chosen,
                 before |-> credit, remaining |-> a + credit,
                 rows |-> <<>>, known |-> 0, applied |-> <<>>, touched |-> <<>>,
                 dues |-> {}, items |-> {}, mixed |-> FALSE,
                 month |-> 0, tail |-> 0, extended |-> 0]
    OBVIOUS
  <2>2. /\ handler' = [handler EXCEPT ![h] = r]
        /\ UNCHANGED <<configVars, memberVars, ledgerVars>>
    BY <1>1, <2>1 DEF PayRead, Begin
  <2>3. r.before = credit /\ r.known = 0 /\ r.rows = <<>> /\ r.applied = <<>> /\ r.op = "read"
    BY <2>1
  <2>4. 1..0 = {} /\ DOMAIN <<>> = {}
    OBVIOUS
  <2>5. Mirrors(r)
    BY <2>3, <2>4 DEF Mirrors
  <2>6. r \notin ReassessCall
    BY <2>3 DEF ReassessCall
  <2>. QED  BY <2>2, <2>5, <2>6, SerialCallStep
<1>2. CASE PaySelect(h)
  <2>1. PICK c : c = handler[h]
    OBVIOUS
  <2>2. PICK r : /\ Selected(c, r) /\ handler' = [handler EXCEPT ![h] = r]
                 /\ c.op = "read" /\ c.selected \subseteq OpenIds(Events)
                 /\ UNCHANGED <<configVars, memberVars, ledgerVars>>
    BY <1>2, <2>1, PaySelectIs
  <2>3. c \in PayCall /\ Mirrors(c)
    BY <2>1, <2>2, CallByOp DEF Inv
  <2>4. /\ r \in PayCall /\ r.rows = obligations /\ r.known = Len(obligations)
        /\ r.applied = [i \in Ids |-> 0] /\ r.before = c.before
    BY <2>2, <2>3, SelectedResult DEF Inv
  <2>5. PICK n \in Nat : /\ n = Len(obligations) /\ Ids = 1..n /\ DOMAIN obligations = 1..n
                         /\ \A i \in Ids : obligations[i].paid \in Nat
    BY ObligationsType DEF Inv, Row
  <2>6. \A i \in 1..n : r.applied[i] = 0 /\ obligations[i].paid = obligations[i].paid + r.applied[i]
    BY <2>4, <2>5
  <2>7. \A i \in 1..n : ~(i > n)
    OBVIOUS
  <2>8. Mirrors(r)
    BY <2>3, <2>4, <2>5, <2>6, <2>7 DEF Mirrors
  <2>. QED  BY <2>2, <2>4, <2>8, NotReassess, SerialCallStep
<1>3. CASE PayUnselected(h) \/ PayRefused(h)
  <2>1. /\ handler' = [handler EXCEPT ![h] = Idle]
        /\ UNCHANGED <<configVars, memberVars, ledgerVars>>
    BY <1>3 DEF PayUnselected, PayRefused, End
  <2>2. Idle \notin PayCall /\ Idle \notin ReassessCall
    BY IdleIsNoCall DEF Idle, ReassessCall
  <2>. QED  BY <2>1, <2>2, SerialCallStep
<1>4. CASE PayDue(h) \/ PayItem(h)
  <2>1. PICK c, v, r, i :
         /\ c = handler[h] /\ c \in PayCall /\ CallOK(Len(obligations), c)
         /\ PaysDue(c, v, r, i) \/ PaysItem(c, v, r, i)
         /\ i \in DOMAIN c.rows
         /\ v \in PayCall /\ CallOK(Len(obligations), v) /\ v.applied[i] = 0
         /\ v.rows = c.rows
         /\ handler' = [handler EXCEPT ![h] = r]
         /\ UNCHANGED <<configVars, memberVars, ledgerVars>>
    BY <1>4, VisitResult
  <2>2. PICK n \in Nat : n = Len(obligations)
    BY ObligationsType DEF Inv
  <2>3. /\ v.before = c.before /\ v.known = c.known /\ v.applied = c.applied
        /\ v.touched = c.touched
    <3>1. CASE PaysDue(c, v, r, i)
      <4>1. i \in c.dues /\ v = [c EXCEPT !.dues = @ \ {i}]
        BY <3>1 DEF PaysDue, Oldest
      <4>. QED  BY <2>1, <2>2, <4>1, VisitDue
    <3>2. CASE PaysItem(c, v, r, i)
      <4>1. i \in c.items /\ v = [c EXCEPT !.items = @ \ {i}]
        BY <3>2 DEF PaysItem, Oldest
      <4>. QED  BY <2>1, <2>2, <4>1, VisitItem
    <3>. QED  BY <2>1, <3>1, <3>2
  <2>4. Mirrors(c)
    BY <2>1
  <2>5. Mirrors(v)
    BY <2>1, <2>3, <2>4 DEF Mirrors
  <2>6. PICK kind : Allocates(v, r, i, kind)
    BY <2>1 DEF PaysDue, PaysItem
  <2>7. Mirrors(r) /\ r \in PayCall
    <3>1. r \in PayCall /\ i \in DOMAIN v.rows /\ TypeOK
      BY <2>1, <2>6 DEF Allocates, Inv
    <3>2. Mirrors(r)
      BY <2>1, <2>5, <2>6, <3>1, AllocatesMirrors
    <3>. QED  BY <3>1, <3>2
  <2>. QED  BY <2>1, <2>7, NotReassess, SerialCallStep
<1>5. CASE PayAnchor(h)
  <2>1. PICK c : c = handler[h]
    OBVIOUS
  <2>2. PICK r : /\ Anchored(c, r) /\ handler' = [handler EXCEPT ![h] = r]
                 /\ c.op = "dues" /\ UNCHANGED <<configVars, memberVars, ledgerVars>>
    BY <1>5, <2>1, PayAnchorIs
  <2>3. c \in PayCall /\ Mirrors(c) /\ c.tail <= Versions
    BY <2>1, <2>2, CallByOp DEF Inv, CallOK
  <2>4. /\ r \in PayCall /\ r.rows = c.rows /\ r.known = c.known
        /\ r.applied = c.applied /\ r.touched = c.touched /\ r.before = c.before
    BY <2>2, <2>3, AnchoredResult DEF Inv
  <2>5. Mirrors(r)
    BY <2>3, <2>4 DEF Mirrors
  <2>. QED  BY <2>2, <2>4, <2>5, NotReassess, SerialCallStep
<1>6. CASE PayExtend(h)
  <2>1. PICK c, g, r :
         /\ c = handler[h] /\ c \in PayCall /\ CallOK(Len(obligations), c) /\ c.op = "extend"
         /\ Grows(c, g) /\ Allocates(g, r, Len(c.rows) + 1, "fixed")
         /\ handler' = [handler EXCEPT ![h] = r]
         /\ UNCHANGED <<configVars, memberVars, ledgerVars>>
    BY <1>6, ExtendResult
  <2>2. PICK n, k, i : /\ n \in Nat /\ k \in Nat /\ i \in Nat
                       /\ n = Len(obligations) /\ k = Len(c.rows) /\ i = k + 1
    <3>1. Len(obligations) \in Nat /\ Len(c.rows) \in Nat
      BY <2>1, ObligationsType, CallFields DEF Inv
    <3>2. PICK x \in Nat : x = Len(c.rows)
      BY <3>1
    <3>3. PICK y \in Nat : y = Len(obligations)
      BY <3>1
    <3>4. x + 1 \in Nat
      OBVIOUS
    <3>. QED  BY <3>2, <3>3, <3>4, Zenon
  <2>3. /\ g \in PayCall /\ CallOK(n, g) /\ DOMAIN g.rows = 1..i
        /\ \A j \in DOMAIN c.rows : g.rows[j] = c.rows[j] /\ g.applied[j] = c.applied[j]
        /\ g.rows[i].paid = 0 /\ g.applied[i] = 0
        /\ g.known = c.known /\ g.before = c.before /\ g.touched = c.touched
    <3>1. CallOK(n, c) /\ Grows(c, g) /\ c.op = "extend" /\ c \in PayCall
      BY <2>1, <2>2
    <3>2. TypeOK
      BY DEF Inv
    <3>. QED  BY <2>2, <3>1, <3>2, GrowsResult
  <2>4. DOMAIN c.rows = 1..k /\ DOMAIN c.applied = 1..k /\ c.known \in Nat /\ c.known <= k
    BY <2>1, <2>2, CallFields DEF CallOK
  <2>5. DOMAIN g.applied = 1..i
    BY <2>2, <2>3, CallFields DEF CallOK
  <2>6. Mirrors(c)
    BY <2>1
  <2>7. \A j \in 1..i : j \in 1..k \/ j = i
    BY <2>2
  <2>8. Mirrors(g)
    <3>1. \A j \in 1..c.known : j \in DOMAIN c.rows
      BY <2>2, <2>4
    <3>2. \A j \in 1..i : j > c.known => g.rows[j].paid = g.applied[j]
      BY <2>3, <2>4, <2>6, <2>7 DEF Mirrors
    <3>3. c.touched = <<>> => \A j \in 1..i : g.applied[j] = 0
      BY <2>3, <2>4, <2>6, <2>7 DEF Mirrors
    <3>4. \A j \in 1..c.known : g.rows[j] = c.rows[j] /\ g.applied[j] = c.applied[j]
      BY <2>3, <3>1
    <3>. QED  BY <2>3, <2>5, <2>6, <3>2, <3>3, <3>4 DEF Mirrors
  <2>9. i \in DOMAIN g.rows
    BY <2>2, <2>3
  <2>10. r \in PayCall /\ TypeOK
    BY <2>1 DEF Allocates, Inv
  <2>11. PICK kind : Allocates(g, r, i, kind)
    BY <2>1, <2>2
  <2>12. Mirrors(r)
    BY <2>2, <2>3, <2>8, <2>9, <2>10, <2>11, AllocatesMirrors
  <2>. QED  BY <2>1, <2>10, <2>12, NotReassess, SerialCallStep
<1>. QED  BY <1>1, <1>2, <1>3, <1>4, <1>5, <1>6

\* The standing a payment leaves is earned by the rows it leaves.
LEMMA CommitEarned ==
  ASSUME SerialInv, NEW h \in Handlers, PayCommit(h)
  PROVE  Earned(standing)'
<1>1. PICK c : /\ c = handler[h] /\ c \in PayCall /\ CallOK(Len(obligations), c)
               /\ obligations' = Written(c) /\ UNCHANGED configVars
  BY PayCommitIs DEF SerialInv
<1>2. TypeOK /\ standing \in Standings
  BY DEF SerialInv, Inv, TypeOK
<1>3. PICK W : W = Written(c)
  OBVIOUS
<1>4. PICK base : base = standing
  OBVIOUS
<1>5. PICK r, q :
            /\ q = handler[h].touched
            /\ standing' = r[DOMAIN q]
            /\ \A s \in SUBSET DOMAIN q :
                  /\ r[s] \in Standings /\ (s # {} => Max(s) \in s)
                  /\ r[s] = IF s = {} THEN standing
                            ELSE Reassessed(r[s \ {Max(s)}], Written(handler[h]), q[Max(s)])
  BY <1>1, <1>2, CommitStanding
<1>6. q \in Seq(Plans) /\ q = c.touched
  BY <1>1, <1>5 DEF PayCall
<1>7. PICK n \in Nat : DOMAIN q = 1..n /\ n = Len(q)
  BY <1>6, LenProperties
<1>8. PICK D : D = DOMAIN q /\ D = 1..n
  BY <1>7
<1>9. \A s \in SUBSET D :
         /\ r[s] \in Standings /\ (s # {} => Max(s) \in s)
         /\ r[s] = IF s = {} THEN base ELSE Reassessed(r[s \ {Max(s)}], W, q[Max(s)])
  BY <1>1, <1>3, <1>4, <1>5, <1>8
<1>10. W \in Seq(Row)
  BY <1>1, <1>2, <1>3, WrittenRows
<1>. DEFINE T == {s \in SUBSET D :
          r[s] \notin GoodStanding => policy # {} /\ (s = {} \/ Lapsed(W) # {})}
<1>11. ASSUME NEW s \in SUBSET D, \A x \in s : s \ {x} \in T PROVE s \in T
  <2>1. CASE s = {}
    <3>1. r[s] = standing
      BY <1>4, <1>9, <2>1
    <3>2. r[s] \notin GoodStanding => policy # {}
      BY <3>1 DEF SerialInv, Earned
    <3>. QED  BY <2>1, <3>2
  <2>2. CASE s # {}
    <3>1. PICK x \in s : x = Max(s)
      BY <1>9, <2>2
    <3>2. PICK t \in Standings : t = r[s \ {x}]
      <4>1. s \ {x} \in SUBSET D
        OBVIOUS
      <4>. QED  BY <1>9, <4>1
    <3>3. PICK p : p = q[x]
      OBVIOUS
    <3>4. r[s] = Reassessed(t, W, p)
      BY <1>9, <2>2, <3>1, <3>2, <3>3
    <3>5. t \notin GoodStanding => policy # {}
      BY <1>11, <3>1, <3>2
    <3>6. Reassessed(t, W, p) \notin GoodStanding =>
             \/ policy # {} /\ Lapsed(W) # {}
             \/ policy = {} /\ t \notin GoodStanding
      BY <1>2, <1>10, ReassessedBad
    <3>7. r[s] \notin GoodStanding => policy # {} /\ Lapsed(W) # {}
      BY <3>4, <3>5, <3>6
    <3>. QED  BY <3>7
  <2>. QED  BY <2>1, <2>2
<1>12. D \in T
  <2>1. IsFiniteSet(D) /\ D \in SUBSET D
    BY <1>8, Places
  <2>. HIDE DEF T
  <2>. QED  BY <1>11, <2>1, SetsByRemoval
<1>13. SUFFICES ASSUME standing' \notin GoodStanding
       PROVE  policy # {} /\ Lapsed(W) # {}
  <2>1. Lapsed(obligations)' = Lapsed(W)
    BY <1>1, <1>3 DEF Lapsed, configVars
  <2>2. policy' = policy
    BY <1>1 DEF configVars
  <2>. QED  BY <2>1, <2>2 DEF Earned
<1>14. policy # {} /\ (D = {} \/ Lapsed(W) # {})
  BY <1>5, <1>8, <1>12, <1>13
<1>15. ASSUME D = {} PROVE Lapsed(W) # {}
  <2>1. c.touched = <<>>
    <3>1. ~ (1 <= n)
      <4>1. 1 <= n => 1 \in 1..n
        OBVIOUS
      <4>. QED  BY <1>8, <1>15, <4>1
    <3>2. Len(q) = 0
      BY <1>7, <3>1
    <3>3. q # <<>> => Len(q) \in Nat \ {0}
      BY <1>6, EmptySeq
    <3>. QED  BY <1>6, <3>2, <3>3
  <2>2. standing \notin GoodStanding
    <3>1. D \in SUBSET D /\ standing' = r[D]
      BY <1>5, <1>8
    <3>. QED  BY <1>4, <1>9, <1>13, <1>15, <3>1
  <2>3. PICK i : i \in Lapsed(obligations)
    BY <2>2 DEF SerialInv, Earned
  <2>4. i \in Ids /\ i \in DOMAIN obligations
    BY <1>2, <2>3, ObligationsType DEF Lapsed
  <2>5. i <= c.known => c.applied[i] = 0
    <3>1. Mirrors(c)
      BY <1>1 DEF SerialInv
    <3>2. i <= c.known => i \in DOMAIN c.applied
      <4>1. i \in 1..Len(obligations) /\ Len(obligations) \in Nat
        BY <1>2, <2>4, ObligationsType
      <4>2. /\ c.known \in Nat /\ c.known <= Len(c.applied) /\ Len(c.applied) \in Nat
            /\ DOMAIN c.applied = 1..Len(c.applied)
        BY <1>1, CallFields DEF CallOK
      <4>. QED  BY <4>1, <4>2
    <3>. QED  BY <2>1, <3>1, <3>2 DEF Mirrors
  <2>6. W[i] = obligations[i]
    <3>1. W[i] = IF i <= c.known /\ c.applied[i] > 0 THEN c.rows[i] ELSE obligations[i]
      BY <1>1, <1>2, <1>3, <2>4, WrittenRows
    <3>2. ~ (i <= c.known /\ c.applied[i] > 0)
      BY <2>5
    <3>. QED  BY <3>1, <3>2
  <2>7. i \in DOMAIN W
    <3>1. i \in 1..Len(obligations) /\ Len(obligations) \in Nat
      BY <1>2, <2>4, ObligationsType
    <3>2. Len(W) = Len(obligations) + (Len(c.rows) - c.known)
      BY <1>1, <1>2, <1>3, WrittenRows
    <3>3. c.known <= Len(c.rows) /\ c.known \in Nat /\ Len(c.rows) \in Nat
      BY <1>1, CallFields DEF CallOK
    <3>4. DOMAIN W = 1..Len(W)
      BY <1>10, LenProperties
    <3>. QED  BY <3>1, <3>2, <3>3, <3>4
  <2>8. i \in Lapsed(W)
    BY <2>3, <2>6, <2>7 DEF Lapsed
  <2>. QED  BY <2>8
<1>. QED  BY <1>14, <1>15

LEMMA SerialCommit ==
  ASSUME SerialCalls, SerialInv, Inv', NEW h \in Handlers, PayCommit(h)
  PROVE  SerialInv'
<1>1. PICK c : /\ c = handler[h] /\ c \in PayCall /\ CallOK(Len(obligations), c)
               /\ obligations' = Written(c) /\ credit' = c.remaining
               /\ handler' = [handler EXCEPT ![h] = Idle]
  BY PayCommitIs DEF SerialInv
<1>2. TypeOK /\ Inv /\ Mirrors(c)
  BY <1>1 DEF SerialInv, Inv
<1>3. PICK n, k, m, d : /\ n \in Nat /\ k \in Nat /\ m \in Nat /\ d \in Nat
                        /\ n = Len(obligations) /\ k = c.known /\ m = Len(c.rows)
                        /\ d = m - k /\ k <= n
  <2>1. /\ Len(obligations) \in Nat /\ c.known \in Nat /\ Len(c.rows) \in Nat
        /\ c.known <= Len(c.rows) /\ c.known <= Len(obligations)
    BY <1>1, <1>2, ObligationsType, CallFields DEF CallOK
  <2>2. Len(c.rows) - c.known \in Nat
    BY <2>1
  <2>. QED  BY <2>1, <2>2
<1>4. PICK W : W = Written(c)
  OBVIOUS
<1>5. /\ W \in Seq(Row) /\ Len(W) = n + d
      /\ \A i \in Ids : W[i] = IF i <= k /\ c.applied[i] > 0 THEN c.rows[i] ELSE obligations[i]
      /\ \A j \in 1..d : W[n + j] = c.rows[k + j]
  BY <1>1, <1>2, <1>3, <1>4, WrittenRows
<1>6. /\ \A i \in 1..n : PostedFor(i)' = PostedFor(i) + (IF i <= k THEN c.applied[i] ELSE 0)
      /\ \A j \in 1..d : PostedFor(n + j)' = c.applied[k + j]
      /\ PostedCredit' = PostedCredit + (c.remaining - c.before)
  <2>1. Sizes(handler[h], c, n, k, d)
    BY <1>1, <1>3 DEF Sizes
  <2>. QED  BY <1>2, <2>1, PostedPayment
<1>7. Ids = 1..n /\ \A i \in Ids : PostedFor(i) \in Nat /\ obligations[i].paid = PostedFor(i)
  <2>1. \A i \in Ids : obligations[i].paid \in Nat
    BY <1>2, ObligationsType DEF Row
  <2>. QED  BY <1>2, <1>3, <2>1, ObligationsType DEF SerialInv, LedgerShowsPaid
<1>8. ASSUME NEW i \in 1..n PROVE PostedFor(i)' = W[i].paid
  <2>1. CASE i <= k
    <3>1. /\ i \in 1..k /\ i \in 1..m
      BY <1>3, <2>1
    <3>2. /\ c.rows[i].paid = obligations[i].paid + c.applied[i]
          /\ c.applied[i] = 0 => c.rows[i] = obligations[i]
      BY <1>2, <1>3, <3>1 DEF Mirrors
    <3>3. c.applied[i] \in Nat
      BY <1>1, <1>3, <3>1, CallFields DEF CallOK
    <3>4. PostedFor(i)' = PostedFor(i) + c.applied[i]
      BY <1>6, <1>7, <2>1
    <3>5. CASE c.applied[i] > 0
      BY <1>5, <1>7, <2>1, <3>2, <3>4, <3>5
    <3>6. CASE ~(c.applied[i] > 0)
      <4>1. c.applied[i] = 0
        BY <3>3, <3>6
      <4>2. W[i] = obligations[i]
        BY <1>5, <1>7, <3>6
      <4>3. PostedFor(i)' = PostedFor(i) + 0 /\ PostedFor(i) \in Nat
        BY <1>7, <3>4, <4>1
      <4>. QED  BY <1>7, <4>2, <4>3
    <3>. QED  BY <3>5, <3>6
  <2>2. CASE ~(i <= k)
    <3>1. W[i] = obligations[i] /\ PostedFor(i)' = PostedFor(i) + 0 /\ PostedFor(i) \in Nat
      BY <1>5, <1>6, <1>7, <2>2
    <3>. QED  BY <1>7, <3>1
  <2>. QED  BY <2>1, <2>2
<1>9. ASSUME NEW j \in 1..d PROVE PostedFor(n + j)' = W[n + j].paid
  <2>1. k + j \in 1..m /\ k + j > k
    BY <1>3
  <2>2. c.rows[k + j].paid = c.applied[k + j]
    BY <1>1, <1>2, <1>3, <2>1, CallFields DEF Mirrors
  <2>. QED  BY <1>5, <1>6, <2>2
<1>10. \A i \in Ids' : obligations'[i].paid = PostedFor(i)'
  <2>1. Ids' = 1..(n + d)
    BY <1>1, <1>4, <1>5 DEF Ids
  <2>2. ASSUME NEW i \in 1..(n + d) PROVE PostedFor(i)' = W[i].paid
    <3>1. CASE i <= n
      BY <1>3, <1>8, <3>1
    <3>2. CASE i > n
      <4>1. i - n \in 1..d /\ n + (i - n) = i
        BY <1>3, <3>2
      <4>. QED  BY <1>9, <4>1
    <3>. QED  BY <1>3, <3>1, <3>2
  <2>. QED  BY <1>1, <1>4, <2>1, <2>2
<1>11. credit' = PostedCredit'
  <2>1. PostedCredit = c.before
    BY <1>2 DEF SerialInv, LedgerShowsPaid, Mirrors
  <2>2. PICK x, y \in Int : x = c.remaining /\ y = c.before
    BY <1>1, CallFields
  <2>3. PostedCredit' = y + (x - y) /\ credit' = x
    BY <1>1, <1>6, <2>1, <2>2
  <2>4. y + (x - y) = x
    BY <2>2
  <2>. QED  BY <2>3, <2>4
<1>12. LedgerShowsPaid'
  BY <1>10, <1>11 DEF LedgerShowsPaid
<1>13. Earned(standing)'
  BY CommitEarned
<1>14. \A g \in Handlers : handler'[g] = Idle
  BY <1>1, <1>2 DEF SerialCalls, TypeOK
<1>15. Idle \notin PayCall /\ Idle \notin ReassessCall
  BY IdleIsNoCall DEF Idle, ReassessCall
<1>. QED  BY <1>12, <1>13, <1>14, <1>15 DEF SerialInv

\* A reversal: its contra lines are what the totals do not follow.
LEMMA SerialReverse ==
  ASSUME SerialInv, Inv', NEW k \in 1..Len(journal), ReverseEntry(k)
  PROVE  SerialInv'
<1>1. UNCHANGED <<configVars, memberVars, handler>>
  BY DEF ReverseEntry
<1>2. PostedCredit' = PostedCredit /\ \A i \in Ids : PostedFor(i)' = PostedFor(i)
  BY PostedReverse DEF SerialInv
<1>3. \A i \in Ids' : obligations'[i].paid = PostedFor(i)'
  BY <1>1, <1>2 DEF SerialInv, LedgerShowsPaid, Ids, memberVars
<1>4. month \in Nat /\ Len(obligations) \in Nat /\ MaxMonth \in Nat
  BY ObligationsType, ContributionsAssumption DEF SerialInv, Inv, TypeOK
<1>5. month' >= month /\ (policy # {} => policy' # {})
  BY <1>1, <1>4 DEF configVars
<1>6. /\ UNCHANGED <<handler, credit, standing>>
      /\ Len(obligations') >= Len(obligations) /\ \A i \in Ids : obligations'[i] = obligations[i]
  BY <1>1, <1>4 DEF memberVars
<1>. QED  BY <1>2, <1>3, <1>5, <1>6, SerialGrow

LEMMA InitSerial == Init => SerialInv
<1>. SUFFICES ASSUME Init PROVE SerialInv
  OBVIOUS
<1>1. Inv
  BY InitInv
<1>2. Ids = {} /\ credit = 0 /\ standing \in GoodStanding
  BY DEF Init, Ids, GoodStanding
<1>3. PostedCredit = 0
  <2>1. PICK g : g = liability
    OBVIOUS
  <2>2. \A f \in Funds : g[f] = 0
    BY <2>1 DEF Init
  <2>3. Total(g, Funds) = 0
    BY <2>2, TotalZero, ContributionsAssumption
  <2>4. PICK S, q : S = Reversals /\ q = [k \in S |-> journal[k].parked]
    OBVIOUS
  <2>5. S = {} /\ DOMAIN q = {}
    BY <2>4 DEF Init, Reversals
  <2>6. ContraCredit = 0
    BY <2>4, <2>5, SumTotal, TotalEmpty DEF ContraCredit
  <2>. QED  BY <2>1, <2>3, <2>6, CreditTotal
<1>4. \A h \in Handlers : handler[h] \notin PayCall /\ handler[h] \notin ReassessCall
  BY IdleIsNoCall DEF Init, Idle, ReassessCall
<1>. QED  BY <1>1, <1>2, <1>3, <1>4 DEF SerialInv, Earned, LedgerShowsPaid

LEMMA NextSerial ==
  ASSUME SerialCalls, SerialInv, [Next]_vars
  PROVE  SerialInv'
<1>0. Inv'
  BY NextInv DEF SerialInv
<1>1. CASE \/ UNCHANGED vars \/ NextMonth \/ ActivateVersion \/ SetAllocationPolicy
           \/ \E t \in Thresholds : SetPolicy(t)
  BY <1>0, <1>1, SerialCalm
<1>2. CASE \E p \in Plans, due \in 1..MaxDue : CreateObligation(p, due) \/ ActivateEvent(p, due)
  BY <1>0, <1>2, SerialRows
<1>3. ASSUME NEW h \in Handlers, ReassessCommit(h) \/ \E p \in Plans : ReassessRead(h, p)
      PROVE  SerialInv'
  BY <1>0, <1>3, SerialReassess
<1>4. ASSUME NEW h \in Handlers,
             \/ \E a \in Payments, f \in Funds, chosen \in SUBSET Ids : PayRead(h, a, f, chosen)
             \/ PaySelect(h) \/ PayUnselected(h) \/ PayDue(h) \/ PayAnchor(h)
             \/ PayExtend(h) \/ PayItem(h) \/ PayRefused(h)
      PROVE  SerialInv'
  BY <1>0, <1>4, SerialPay
<1>5. ASSUME NEW h \in Handlers, PayCommit(h) PROVE SerialInv'
  BY <1>0, <1>5, SerialCommit
<1>6. CASE \E k \in 1..Len(journal) : ReverseEntry(k)
  BY <1>0, <1>6, SerialReverse
<1>. QED  BY <1>1, <1>2, <1>3, <1>4, <1>5, <1>6 DEF Next

\* "The source of truth is always the sum of JournalLines": while payments are
\* served one at a time, an obligation's running total is the sum of its income
\* lines without the contra lines of reversals, and a member's credit is what
\* the funds owe him without those.  A reversal itself moves neither.
THEOREM TotalsFollowLedger ==
  ASSUME SerialCalls
  PROVE  Spec => []LedgerShowsPaid
<1>1. Init => SerialInv
  BY InitSerial
<1>2. SerialInv /\ [Next]_vars => SerialInv'
  BY NextSerial
<1>3. SerialInv => LedgerShowsPaid
  BY DEF SerialInv
<1>. QED  BY <1>1, <1>2, <1>3, PTL DEF Spec

\* "Clearing arrears restores good standing without a separate manual step",
\* while calls about the member are served one at a time.
THEOREM ArrearsClear ==
  ASSUME SerialCalls
  PROVE  Spec => []ClearingRestores
<1>1. Init => SerialInv
  BY InitSerial
<1>2. SerialInv /\ [Next]_vars => SerialInv'
  BY NextSerial
<1>3. SerialInv => ClearingRestores
  BY DEF SerialInv, Earned, ClearingRestores, GoodStanding
<1>. QED  BY <1>1, <1>2, <1>3, PTL DEF Spec
-----------------------------------------------------------------------------
(* The order in which dues are paid, one call at a time.  A plan's amount   *)
(* may be zero in the code, and a due of nothing is never paid: the monthly *)
(* plan is taken to ask for something.                                      *)

PositiveRates == \A v \in Monthly : Rate[v] > 0

\* There is something to pay on a monthly due, unless it is voluntary.
Priced(o) == o.plan \in Monthly /\ Kind[o.plan] # "voluntary" => o.amount > 0

\* Money remains only while every monthly row is paid or still to be visited;
\* a row was paid only after the older ones; and it extends, with no item
\* open, from a month that no paid row is after.
Orderly(c) ==
    /\ c.remaining > 0 => \A i \in DOMAIN c.rows \ c.dues :
                             c.rows[i].plan \in Monthly => c.rows[i].status = "PAID"
    /\ \A i \in c.dues : c.rows[i].plan \in Monthly /\ c.rows[i].status \in Open
    /\ \A i, j \in DOMAIN c.rows :
          /\ c.rows[i].plan \in Monthly /\ c.rows[j].plan \in Monthly
          /\ c.rows[i].due < c.rows[j].due /\ c.applied[j] > 0
          => c.rows[i].status = "PAID"
    /\ c.op = "extend" =>
          /\ c.dues = {} /\ ~c.mixed
          /\ \A j \in DOMAIN c.rows :
                c.rows[j].plan \in Monthly /\ c.applied[j] > 0 => c.rows[j].due <= c.month
    /\ c.op = "dues" =>
          /\ Len(c.rows) = c.known
          /\ c.month # 0 => \A j \in DOMAIN c.rows :
                /\ c.rows[j].plan \in Monthly /\ (j \in c.dues \/ c.applied[j] > 0)
                => c.rows[j].due <= c.month
    /\ ~c.mixed => \A i \in 1..c.known : c.rows[i].plan \in Events => c.rows[i].status = "PAID"
    /\ \A i \in c.items : c.rows[i].plan \in Events /\ c.mixed
    /\ \A i \in DOMAIN c.rows : i > c.known => c.rows[i].plan \in Monthly
    /\ \A i \in DOMAIN c.rows : Priced(c.rows[i])

OrderInv ==
    /\ SerialInv
    /\ \A i \in Ids : Priced(obligations[i])
    /\ \A h \in Handlers : handler[h] \in PayCall /\ handler[h].op # "read" => Orderly(handler[h])

LEMMA MonthlyOrEvent == Monthly \cap Events = {} /\ Plans = Monthly \cup Events
  BY ContributionsAssumption DEF Plans

\* What is still open is owed, so that an allocation that leaves money pays it.
LEMMA PaidOff ==
  ASSUME NEW c \in PayCall, NEW i \in DOMAIN c.rows, NEW kind, NEW r, Allocates(c, r, i, kind),
         r.applied[i] \in Nat, Truthful(c.rows[i]), c.rows[i] \in Row,
         c.rows[i].status # "PAID", kind # "voluntary" => c.rows[i].amount > 0
  PROVE  /\ r.remaining > 0 => r.rows[i].status = "PAID"
         /\ r.applied[i] > 0
<1>1. CASE r.applied[i] > 0
  BY <1>1 DEF Allocates
<1>2. CASE r.applied[i] = 0
  <2>1. PICK o : o = c.rows[i]
    OBVIOUS
  <2>2. kind # "voluntary" /\ o.amount <= o.paid
    BY <1>2, <2>1 DEF Allocates
  <2>3. o.amount \in Nat /\ o.paid \in Nat /\ o.amount > 0 /\ o.status \in Open
    BY <2>1, <2>2 DEF Row
  <2>4. Truthful(o)
    BY <2>1
  <2>5. FALSE
    BY <2>2, <2>3, <2>4 DEF Truthful, Open
  <2>. QED  BY <2>5
<1>. QED  BY <1>1, <1>2

LEMMA PricedPaid ==
  ASSUME NEW c \in PayCall, NEW i \in DOMAIN c.rows, NEW kind, NEW r, Allocates(c, r, i, kind),
         r.applied[i] \in Nat, c.rows[i].paid \in Nat, Priced(c.rows[i])
  PROVE  Priced(r.rows[i])
<1>1. CASE r.applied[i] = 0
  BY <1>1 DEF Allocates
<1>2. CASE r.applied[i] > 0
  <2>1. r.rows[i].paid > 0 /\ r.rows[i].paid <= r.rows[i].amount
    BY <1>2 DEF Allocates, Truthful
  <2>2. i \in DOMAIN r.rows
    BY CallFields DEF Allocates
  <2>3. r.rows[i].amount \in Nat /\ r.rows[i].paid \in Nat
    <3>1. r \in PayCall
      BY DEF Allocates
    <3>2. r.rows[i] \in Row
      BY <2>2, <3>1, CallFields
    <3>. QED  BY <3>2 DEF Row
  <2>4. r.rows[i].amount > 0
    BY <2>1, <2>3
  <2>. QED  BY <2>4 DEF Priced
<1>. QED  BY <1>1, <1>2

\* The visit of a due.
LEMMA OrderDue ==
  ASSUME NEW n \in Nat, NEW c \in PayCall, CallOK(n, c), Orderly(c),
         NEW v, NEW r, NEW i, PaysDue(c, v, r, i)
  PROVE  Orderly(r)
<1>1. /\ c.op = "dues" /\ c.remaining > 0 /\ i \in c.dues
      /\ \A j \in c.dues : c.rows[i].due <= c.rows[j].due
  BY DEF PaysDue, Oldest
<1>2. PICK kind : kind = Kind[c.rows[i].plan] /\ Allocates(v, r, i, kind)
  BY DEF PaysDue
<1>3. /\ v \in PayCall /\ CallOK(n, v)
      /\ v.dues = c.dues \ {i} /\ v.rows = c.rows /\ v.applied = c.applied
      /\ v.remaining = c.remaining /\ v.op = c.op /\ v.known = c.known
      /\ v.items = c.items /\ v.mixed = c.mixed /\ v.month = c.month
  BY <1>1, VisitDue DEF PaysDue
<1>4. PICK m \in Nat : /\ m = Len(c.rows) /\ DOMAIN c.rows = 1..m /\ DOMAIN c.applied = 1..m
                       /\ m = c.known
  BY <1>1, CallFields DEF CallOK, Orderly
<1>5. /\ r \in PayCall /\ r.op = "dues" /\ r.known = c.known /\ r.dues = c.dues \ {i}
      /\ r.items = c.items /\ r.mixed = c.mixed /\ r.month = c.month
      /\ DOMAIN r.rows = 1..m /\ DOMAIN r.applied = 1..m /\ Len(r.rows) = m
      /\ \A j \in 1..m : j # i => r.rows[j] = c.rows[j] /\ r.applied[j] = c.applied[j]
      /\ r.rows[i].plan = c.rows[i].plan /\ r.rows[i].due = c.rows[i].due
  <2>1. r \in PayCall /\ Len(r.rows) = Len(v.rows) /\ Len(r.applied) = Len(v.applied)
    BY <1>2 DEF Allocates
  <2>2. DOMAIN r.rows = 1..m /\ DOMAIN r.applied = 1..m /\ Len(r.rows) = m
    BY <1>3, <1>4, <2>1, CallFields
  <2>. QED  BY <1>1, <1>2, <1>3, <1>4, <2>2 DEF Allocates
<1>6. i \in 1..m /\ c.dues \subseteq 1..m /\ c.rows[i].plan \in Monthly /\ c.rows[i].status \in Open
  BY <1>1, <1>4 DEF CallOK, Orderly
<1>7. /\ \A j \in 1..m : c.rows[j] \in Row /\ c.rows[j].due \in Nat /\ Truthful(c.rows[j])
                         /\ c.rows[j].paid \in Nat
      /\ \A j \in 1..m : r.applied[j] \in Nat
  <2>1. \A j \in 1..m : c.rows[j] \in Row /\ Truthful(c.rows[j])
    BY <1>4, CallFields DEF CallOK
  <2>2. \A j \in 1..m : r.applied[j] \in Nat
    BY <1>5, CallFields
  <2>. QED  BY <2>1, <2>2 DEF Row
<1>8. (r.remaining > 0 => r.rows[i].status = "PAID") /\ Priced(r.rows[i])
  <2>1. c.rows[i].status # "PAID"
    BY <1>6 DEF Open
  <2>2. kind # "voluntary" => c.rows[i].amount > 0
    BY <1>2, <1>4, <1>6 DEF Orderly, Priced
  <2>3. Priced(c.rows[i])
    BY <1>4, <1>6 DEF Orderly
  <2>. QED  BY <1>2, <1>3, <1>4, <1>6, <1>7, <2>1, <2>2, <2>3, PaidOff, PricedPaid
<1>9. \A j \in 1..m : j \notin c.dues /\ c.rows[j].plan \in Monthly => c.rows[j].status = "PAID"
  BY <1>1, <1>4 DEF Orderly
<1>10. r.remaining > 0 => \A j \in DOMAIN r.rows \ r.dues :
                             r.rows[j].plan \in Monthly => r.rows[j].status = "PAID"
  BY <1>5, <1>8, <1>9
<1>11. \A j \in r.dues : r.rows[j].plan \in Monthly /\ r.rows[j].status \in Open
  BY <1>5, <1>6 DEF Orderly
<1>12. ASSUME NEW a \in 1..m, NEW b \in 1..m,
              r.rows[a].plan \in Monthly, r.rows[b].plan \in Monthly,
              r.rows[a].due < r.rows[b].due, r.applied[b] > 0
       PROVE  r.rows[a].status = "PAID"
  <2>1. \A j \in 1..m : r.rows[j].plan = c.rows[j].plan /\ r.rows[j].due = c.rows[j].due
    BY <1>5
  <2>2. a # b
    <3>1. c.rows[a].due \in Nat /\ c.rows[b].due \in Nat /\ c.rows[a].due < c.rows[b].due
      BY <1>7, <1>12, <2>1
    <3>. QED  BY <3>1
  <2>3. CASE b = i
    <3>1. ~(c.rows[i].due <= c.rows[a].due)
      BY <1>6, <1>7, <1>12, <2>1, <2>3
    <3>2. a \notin c.dues
      BY <1>1, <3>1
    <3>. QED  BY <1>5, <1>9, <1>12, <2>1, <2>2, <2>3, <3>2
  <2>4. CASE b # i
    <3>1. c.applied[b] > 0 /\ c.rows[a].due < c.rows[b].due
      BY <1>5, <1>12, <2>1, <2>4
    <3>2. c.rows[a].status = "PAID"
      BY <1>4, <1>12, <2>1, <3>1 DEF Orderly
    <3>3. a # i
      BY <1>6, <3>2 DEF Open
    <3>. QED  BY <1>5, <3>2, <3>3
  <2>. QED  BY <2>3, <2>4
<1>13. r.month # 0 => \A j \in 1..m :
                /\ r.rows[j].plan \in Monthly /\ (j \in r.dues \/ r.applied[j] > 0)
                => r.rows[j].due <= r.month
  <2>. SUFFICES ASSUME r.month # 0, NEW j \in 1..m, r.rows[j].plan \in Monthly,
                       j \in r.dues \/ r.applied[j] > 0
       PROVE  r.rows[j].due <= r.month
    OBVIOUS
  <2>1. c.rows[j].plan \in Monthly /\ r.rows[j].due = c.rows[j].due
    BY <1>5
  <2>2. j \in c.dues \/ c.applied[j] > 0
    BY <1>1, <1>5
  <2>3. c.rows[j].due <= c.month
    BY <1>1, <1>4, <1>5, <2>1, <2>2 DEF Orderly
  <2>. QED  BY <1>5, <2>1, <2>3
<1>14. ~r.mixed => \A j \in 1..r.known : r.rows[j].plan \in Events => r.rows[j].status = "PAID"
  <2>1. c.rows[i].plan \notin Events
    BY <1>6, MonthlyOrEvent
  <2>. QED  BY <1>4, <1>5, <2>1 DEF Orderly
<1>15. \A j \in r.items : r.rows[j].plan \in Events /\ r.mixed
  <2>1. i \notin c.items /\ c.items \subseteq 1..m
    BY <1>1, <1>4 DEF CallOK
  <2>. QED  BY <1>5, <2>1 DEF Orderly
<1>16. \A j \in 1..m : ~(j > r.known)
  BY <1>4, <1>5
<1>17. \A j \in 1..m : Priced(r.rows[j])
  BY <1>4, <1>5, <1>8 DEF Orderly
<1>. QED  BY <1>4, <1>5, <1>10, <1>11, <1>12, <1>13, <1>14, <1>15, <1>16, <1>17 DEF Orderly

\* The visit of an item.
LEMMA OrderItem ==
  ASSUME NEW n \in Nat, NEW c \in PayCall, CallOK(n, c), Orderly(c),
         NEW v, NEW r, NEW i, PaysItem(c, v, r, i)
  PROVE  Orderly(r)
<1>1. c.op = "items" /\ c.remaining > 0 /\ i \in c.items
  BY DEF PaysItem, Oldest
<1>2. PICK kind : Allocates(v, r, i, kind)
  BY DEF PaysItem
<1>3. /\ v.dues = c.dues /\ v.items = c.items \ {i} /\ v.rows = c.rows /\ v.applied = c.applied
      /\ v.op = c.op /\ v.known = c.known /\ v.mixed = c.mixed
  BY <1>1, VisitItem DEF PaysItem
<1>4. PICK m \in Nat : m = Len(c.rows) /\ DOMAIN c.rows = 1..m /\ DOMAIN c.applied = 1..m
  BY CallFields DEF CallOK
<1>5. /\ r.op = "items" /\ r.known = c.known /\ r.dues = c.dues /\ r.items = c.items \ {i}
      /\ r.mixed = c.mixed
      /\ DOMAIN r.rows = 1..m
      /\ \A j \in 1..m : j # i => r.rows[j] = c.rows[j] /\ r.applied[j] = c.applied[j]
      /\ r.rows[i].plan = c.rows[i].plan
  <2>1. r \in PayCall /\ Len(r.rows) = Len(v.rows)
    BY <1>2 DEF Allocates
  <2>2. DOMAIN r.rows = 1..m
    BY <1>3, <1>4, <2>1, CallFields
  <2>. QED  BY <1>1, <1>2, <1>3, <1>4, <2>2 DEF Allocates
<1>6. i \in 1..m /\ i \in 1..c.known /\ i \notin c.dues
  BY <1>1, <1>4, CallFields DEF CallOK
<1>7. c.rows[i].plan \notin Monthly /\ r.rows[i].plan \notin Monthly /\ c.mixed
  BY <1>1, <1>5, MonthlyOrEvent DEF Orderly
<1>8. \A j \in 1..m : r.rows[j].plan \in Monthly =>
         j # i /\ r.rows[j] = c.rows[j] /\ r.applied[j] = c.applied[j]
  BY <1>5, <1>7
<1>9. \A j \in 1..m \ c.dues : c.rows[j].plan \in Monthly => c.rows[j].status = "PAID"
  BY <1>1, <1>4 DEF Orderly
<1>10. \A j \in 1..m \ r.dues : r.rows[j].plan \in Monthly => r.rows[j].status = "PAID"
  BY <1>5, <1>8, <1>9
<1>11. \A j \in r.dues : r.rows[j].plan \in Monthly /\ r.rows[j].status \in Open
  <2>1. r.dues \subseteq 1..m
    BY <1>4, <1>5, CallFields DEF CallOK
  <2>. QED  BY <1>5, <1>6, <2>1 DEF Orderly
<1>12. \A a, b \in 1..m :
          /\ r.rows[a].plan \in Monthly /\ r.rows[b].plan \in Monthly
          /\ r.rows[a].due < r.rows[b].due /\ r.applied[b] > 0
          => r.rows[a].status = "PAID"
  BY <1>4, <1>8 DEF Orderly
<1>13. \A j \in r.items : r.rows[j].plan \in Events /\ r.mixed
  <2>1. r.items \subseteq 1..m
    BY <1>4, <1>5, CallFields DEF CallOK
  <2>. QED  BY <1>5, <1>7, <2>1 DEF Orderly
<1>14. \A j \in 1..m : j > r.known => r.rows[j].plan \in Monthly
  <2>1. \A j \in 1..m : j > c.known => j # i
    BY <1>6, CallFields
  <2>. QED  BY <1>4, <1>5, <2>1 DEF Orderly
<1>15. \A j \in 1..m : Priced(r.rows[j])
  <2>1. \A j \in 1..m : j # i => Priced(r.rows[j])
    BY <1>4, <1>5 DEF Orderly
  <2>. QED  BY <1>7, <2>1 DEF Priced
<1>. QED  BY <1>5, <1>7, <1>10, <1>11, <1>12, <1>13, <1>14, <1>15 DEF Orderly

\* One more month.
LEMMA OrderExtend ==
  ASSUME PositiveRates, NEW n \in Nat, NEW c \in PayCall, CallOK(n, c), Orderly(c),
         c.op = "extend", c.remaining > 0,
         NEW g, Grows(c, g), NEW r, Allocates(g, r, Len(c.rows) + 1, "fixed")
  PROVE  Orderly(r)
<1>1. PICK m \in Nat : m = Len(c.rows) /\ DOMAIN c.rows = 1..m /\ DOMAIN c.applied = 1..m
  BY CallFields DEF CallOK
<1>. DEFINE i == m + 1
<1>2. /\ g \in PayCall /\ CallOK(n, g) /\ Len(g.rows) = i /\ Len(g.applied) = i
      /\ DOMAIN g.rows = 1..i
      /\ \A j \in 1..m : g.rows[j] = c.rows[j] /\ g.applied[j] = c.applied[j]
      /\ g.rows[i] \in Row /\ g.rows[i].plan \in Monthly /\ g.rows[i].due = c.month + 1
      /\ g.rows[i].paid = 0 /\ g.rows[i].amount = Rate[g.rows[i].plan]
      /\ g.applied[i] = 0
      /\ g.month = c.month + 1 /\ g.op = c.op /\ g.known = c.known /\ g.mixed = c.mixed
      /\ g.remaining = c.remaining /\ g.dues = c.dues /\ g.items = c.items
  <2>. HIDE DEF i
  <2>1. i = Len(c.rows) + 1
    BY <1>1 DEF i
  <2>2. /\ g \in PayCall /\ CallOK(n, g) /\ Len(g.rows) = i /\ Len(g.applied) = i
        /\ DOMAIN g.rows = 1..i
        /\ \A j \in DOMAIN c.rows : g.rows[j] = c.rows[j] /\ g.applied[j] = c.applied[j]
    BY <2>1, GrowsResult
  <2>3. /\ g.rows[i] \in Row /\ g.rows[i].plan \in Monthly /\ g.rows[i].due = c.month + 1
        /\ g.rows[i].paid = 0 /\ g.rows[i].amount = Rate[g.rows[i].plan]
        /\ g.applied[i] = 0
    BY <2>1, GrowsResult
  <2>4. /\ g.month = c.month + 1 /\ g.op = c.op /\ g.known = c.known /\ g.mixed = c.mixed
        /\ g.remaining = c.remaining /\ g.dues = c.dues /\ g.items = c.items
    BY GrowsResult
  <2>. QED  BY <1>1, <2>2, <2>3, <2>4
<1>3. i \in 1..i /\ i \notin 1..m /\ 1..i = 1..m \cup {i} /\ i \in Nat
  BY <1>1
<1>4. Allocates(g, r, i, "fixed")
  BY <1>1
<1>. HIDE DEF i
<1>5. /\ r \in PayCall /\ r.op = "extend" /\ r.known = c.known /\ r.dues = c.dues
      /\ r.items = c.items /\ r.mixed = c.mixed /\ r.month = c.month + 1
      /\ DOMAIN r.rows = 1..i /\ DOMAIN r.applied = 1..i
      /\ \A j \in 1..m : r.rows[j] = c.rows[j] /\ r.applied[j] = c.applied[j]
      /\ r.rows[i].plan \in Monthly /\ r.rows[i].due = c.month + 1
  <2>1. r \in PayCall /\ Len(r.rows) = i /\ Len(r.applied) = i
    BY <1>2, <1>4 DEF Allocates
  <2>2. DOMAIN r.rows = 1..i /\ DOMAIN r.applied = 1..i
    BY <2>1, CallFields
  <2>3. \A j \in 1..m : j \in DOMAIN g.rows /\ j # i
    BY <1>2, <1>3
  <2>. QED  BY <1>2, <1>4, <2>1, <2>2, <2>3, SMTT(30) DEF Allocates
<1>6. c.month \in Nat /\ \A j \in 1..m : c.rows[j].due \in Nat
  <2>1. \A j \in 1..m : c.rows[j] \in Row
    BY <1>1, CallFields
  <2>. QED  BY <2>1, CallFields DEF Row
<1>7. (r.remaining > 0 => r.rows[i].status = "PAID") /\ Priced(r.rows[i])
  <2>1. g.rows[i].amount > 0 /\ Truthful(g.rows[i]) /\ r.applied[i] \in Nat
    BY <1>2, <1>3, <1>5, CallFields DEF PositiveRates, CallOK
  <2>2. g.rows[i].paid \in Nat /\ g.rows[i].amount \in Nat
    BY <1>2 DEF Row
  <2>3. g.rows[i].status # "PAID"
    <3>. PICK o : o = g.rows[i]
      OBVIOUS
    <3>1. o.paid = 0 /\ o.amount \in Nat /\ o.amount > 0 /\ Truthful(o)
      BY <1>2, <2>1, <2>2
    <3>2. o.status # "PAID"
      BY <3>1 DEF Truthful
    <3>. QED  BY <3>2
  <2>4. i \in DOMAIN g.rows
    BY <1>2, <1>3
  <2>5. Priced(g.rows[i])
    BY <2>1 DEF Priced
  <2>. QED  BY <1>2, <1>4, <2>1, <2>2, <2>3, <2>4, <2>5, PaidOff, PricedPaid
<1>8. c.dues = {} /\ ~c.mixed
      /\ \A j \in 1..m : c.rows[j].plan \in Monthly /\ c.applied[j] > 0 => c.rows[j].due <= c.month
  BY <1>1 DEF Orderly
<1>9. \A j \in 1..m : c.rows[j].plan \in Monthly => c.rows[j].status = "PAID"
  BY <1>1, <1>8 DEF Orderly
<1>10. r.remaining > 0 => \A j \in 1..i : r.rows[j].plan \in Monthly => r.rows[j].status = "PAID"
  BY <1>3, <1>5, <1>7, <1>9
<1>11. ASSUME NEW a \in 1..i, NEW b \in 1..i,
              r.rows[a].plan \in Monthly, r.rows[b].plan \in Monthly,
              r.rows[a].due < r.rows[b].due, r.applied[b] > 0
       PROVE  r.rows[a].status = "PAID"
  <2>1. CASE a = i
    <3>1. b \in 1..m
      <4>1. CASE b = i
        <5>1. r.rows[i].due \in Nat /\ r.rows[i].due < r.rows[i].due
          BY <1>5, <1>6, <1>11, <2>1, <4>1
        <5>. QED  BY <5>1
      <4>. QED  BY <1>3, <4>1
    <3>2. c.rows[b].due <= c.month /\ c.month + 1 < c.rows[b].due
      BY <1>5, <1>8, <1>11, <2>1, <3>1
    <3>. QED  BY <1>6, <3>1, <3>2
  <2>2. CASE a # i
    BY <1>3, <1>5, <1>9, <1>11, <2>2
  <2>. QED  BY <2>1, <2>2
<1>12. \A j \in 1..i : r.rows[j].plan \in Monthly /\ r.applied[j] > 0 => r.rows[j].due <= r.month
  <2>. SUFFICES ASSUME NEW j \in 1..i, r.rows[j].plan \in Monthly, r.applied[j] > 0
       PROVE  r.rows[j].due <= c.month + 1
    BY <1>5
  <2>1. CASE j = i
    BY <1>5, <1>6, <2>1
  <2>2. CASE j # i
    <3>1. j \in 1..m /\ c.rows[j].due <= c.month
      BY <1>3, <1>5, <1>8, <2>2
    <3>. QED  BY <1>5, <1>6, <3>1
  <2>. QED  BY <2>1, <2>2
<1>13. ~r.mixed => \A j \in 1..r.known : r.rows[j].plan \in Events => r.rows[j].status = "PAID"
  <2>1. 1..c.known \subseteq 1..m
    BY <1>1, CallFields DEF CallOK
  <2>. QED  BY <1>5, <2>1 DEF Orderly
<1>14. r.items = {}
  BY <1>5, <1>8 DEF Orderly
<1>15. \A j \in 1..i : j > r.known => r.rows[j].plan \in Monthly
  BY <1>1, <1>3, <1>5 DEF Orderly
<1>16. \A j \in 1..i : Priced(r.rows[j])
  BY <1>1, <1>3, <1>5, <1>7 DEF Orderly
<1>. QED  BY <1>5, <1>8, <1>10, <1>11, <1>12, <1>13, <1>14, <1>15, <1>16 DEF Orderly

\* The open obligations as they were read.
LEMMA OrderSelect ==
  ASSUME TypeOK, \A i \in Ids : Priced(obligations[i]),
         NEW c \in PayCall, c.selected \subseteq OpenIds(Events), NEW r, Selected(c, r)
  PROVE  Orderly(r)
<1>1. /\ r.op = "dues" /\ r.rows = obligations /\ r.known = Len(obligations)
      /\ r.applied = [i \in Ids |-> 0] /\ r.dues = OpenIds(Monthly)
      /\ r.items \subseteq OpenIds(Events) /\ r.mixed = (OpenIds(Events) # {})
  BY SelectedResult
<1>2. /\ DOMAIN r.rows = Ids /\ Ids = 1..r.known
      /\ \A i \in Ids : r.rows[i] \in Row /\ r.applied[i] = 0 /\ Priced(r.rows[i])
      /\ \A i \in Ids : ~(i > r.known)
      /\ Len(r.rows) = r.known
  BY <1>1, ObligationsType
<1>3. \A i \in Ids : r.rows[i].status \in Open \/ r.rows[i].status = "PAID"
  BY <1>2 DEF Row
<1>4. \A i \in Ids : r.rows[i].plan \in Monthly => i \in r.dues \/ r.rows[i].status = "PAID"
  BY <1>1, <1>3 DEF OpenIds
<1>5. \A i \in r.dues : /\ i \in Ids /\ r.rows[i].plan \in Monthly
                        /\ r.rows[i].status \in Open
  BY <1>1 DEF OpenIds
<1>6. r.month # 0 => \A i \in r.dues : r.rows[i].due <= r.month
  <2>. SUFFICES ASSUME r.month # 0 PROVE \A i \in r.dues : r.rows[i].due <= r.month
    OBVIOUS
  <2>1. \A i \in OpenIds(Monthly) : obligations[i].due <= r.month
    BY SelectedResult
  <2>. QED  BY <1>1, <2>1
<1>7. ~r.mixed => \A i \in Ids : r.rows[i].plan \in Events => r.rows[i].status = "PAID"
  BY <1>1, <1>3 DEF OpenIds
<1>8. \A i \in r.items : r.rows[i].plan \in Events /\ r.mixed
  BY <1>1 DEF OpenIds
<1>9. \A i \in Ids : ~(r.applied[i] > 0)
  BY <1>2
<1>. QED  BY <1>1, <1>2, <1>4, <1>5, <1>6, <1>7, <1>8, <1>9 DEF Orderly

\* It goes on from a month that no due it paid is after: the last of the open
\* dues, or of all monthly rows where none was open.
LEMMA OrderAnchor ==
  ASSUME TypeOK, NEW c \in PayCall, CallOK(Len(obligations), c), Orderly(c), Mirrors(c),
         DuesVisited(c), NEW r, Anchored(c, r)
  PROVE  Orderly(r)
<1>1. /\ r.op \in {"extend", "items"} /\ r.rows = c.rows /\ r.known = c.known
      /\ r.applied = c.applied /\ r.dues = c.dues /\ r.items = c.items
      /\ r.mixed = c.mixed /\ r.remaining = c.remaining
      /\ r.month = IF c.month # 0 THEN c.month
                   ELSE IF PaidUp # {} THEN Max(PaidUp) ELSE month
      /\ r.op = "extend" => r.remaining > 0 /\ ~r.mixed
  BY AnchoredResult DEF CallOK
<1>2. c.op = "dues" /\ (c.remaining > 0 => c.dues = {})
  BY CallFields DEF DuesVisited
<1>3. DOMAIN c.rows = 1..c.known
  BY <1>2, CallFields DEF Orderly
<1>4. ASSUME NEW j \in DOMAIN c.rows, c.rows[j].plan \in Monthly, c.applied[j] > 0
      PROVE  c.rows[j].due <= r.month
  <2>1. CASE c.month # 0
    BY <1>1, <1>2, <1>4, <2>1 DEF Orderly
  <2>2. CASE c.month = 0
    <3>1. j \in 1..c.known /\ j \in Ids
      <4>1. c.known <= Len(obligations) /\ c.known \in Nat /\ Len(obligations) \in Nat
        BY CallFields, ObligationsType DEF CallOK
      <4>. QED  BY <1>3, <4>1 DEF Ids
    <3>2. c.rows[j].plan = obligations[j].plan /\ c.rows[j].due = obligations[j].due
      BY <3>1 DEF Mirrors
    <3>3. c.rows[j].due \in PaidUp
      BY <1>4, <3>1, <3>2 DEF PaidUp
    <3>4. r.month = Max(PaidUp) /\ \A x \in PaidUp : x <= Max(PaidUp)
      BY <1>1, <2>2, <3>3, LastDue DEF TypeOK
    <3>. QED  BY <3>3, <3>4
  <2>. QED  BY <2>1, <2>2
<1>5. r.op = "extend" => r.dues = {} /\ ~r.mixed
  BY <1>1, <1>2
<1>6. r.op # "dues"
  BY <1>1
<1>. QED  BY <1>1, <1>4, <1>5, <1>6 DEF Orderly

LEMMA OrderCallStep ==
  ASSUME OrderInv, SerialInv', NEW h \in Handlers, NEW r,
         r \in PayCall /\ r.op # "read" => Orderly(r),
         handler' = [handler EXCEPT ![h] = r], obligations' = obligations
  PROVE  OrderInv'
<1>1. handler \in [Handlers -> {Idle} \cup PayCall \cup ReassessCall]
  BY DEF OrderInv, SerialInv, Inv, TypeOK
<1>2. \A g \in Handlers : handler'[g] = IF g = h THEN r ELSE handler[g]
  BY <1>1
<1>3. \A g \in Handlers : handler'[g] \in PayCall /\ handler'[g].op # "read" => Orderly(handler'[g])
  BY <1>2 DEF OrderInv
<1>4. \A i \in Ids' : Priced(obligations'[i])
  BY DEF OrderInv, Ids
<1>. QED  BY <1>3, <1>4 DEF OrderInv

LEMMA OrderGrow ==
  ASSUME OrderInv, SerialInv', handler' = handler, NEW row, Priced(row), AddRow(row)
  PROVE  OrderInv'
<1>1. PICK n \in Nat : n = Len(obligations) /\ Ids = 1..n
  BY ObligationsType DEF OrderInv, SerialInv, Inv
<1>2. obligations \in Seq(Row) /\ obligations' = Append(obligations, row)
  BY DEF AddRow, OrderInv, SerialInv, Inv, TypeOK
<1>3. /\ Len(obligations') = n + 1 /\ Ids' = 1..(n + 1)
      /\ \A i \in 1..n : obligations'[i] = obligations[i]
      /\ obligations'[n + 1] = row
  BY <1>1, <1>2 DEF Ids
<1>4. \A i \in 1..(n + 1) : i \in 1..n \/ i = n + 1
  OBVIOUS
<1>5. \A i \in Ids' : Priced(obligations'[i])
  BY <1>1, <1>3, <1>4 DEF OrderInv
<1>. QED  BY <1>5 DEF OrderInv

\* What a payment writes, it read or wrote in its rows; the others it did not
\* see, and left alone.
LEMMA CommitReads ==
  ASSUME SerialInv, NEW h \in Handlers, PayCommit(h)
  PROVE  \E c : /\ c = handler[h] /\ c \in PayCall /\ CallOK(Len(obligations), c)
                /\ Allocated(c) /\ c.op \in {"extend", "items"} /\ credit' = c.remaining
                /\ DOMAIN obligations' = Ids'
                /\ \A i \in Ids' :
                      \/ /\ i \in Ids /\ Unseen(i) /\ ~PaidTo(i)
                         /\ obligations'[i] = obligations[i]
                      \/ \E s \in DOMAIN c.rows :
                            /\ obligations'[i] = c.rows[s]
                            /\ PaidTo(i) => c.applied[s] > 0
<1>1. PICK c : /\ c = handler[h] /\ c \in PayCall /\ CallOK(Len(obligations), c)
               /\ Allocated(c) /\ c.op \in {"extend", "items"} /\ credit' = c.remaining
               /\ obligations' = Written(c)
               /\ handler' = [handler EXCEPT ![h] = Idle]
  BY PayCommitIs DEF SerialInv
<1>2. TypeOK /\ Mirrors(c)
  BY <1>1 DEF SerialInv, Inv
<1>3. PICK n, k, m, d : /\ n \in Nat /\ k \in Nat /\ m \in Nat /\ d \in Nat
                        /\ n = Len(obligations) /\ k = c.known /\ m = Len(c.rows)
                        /\ d = m - k /\ k <= n
  <2>1. /\ Len(obligations) \in Nat /\ c.known \in Nat /\ Len(c.rows) \in Nat
        /\ c.known <= Len(c.rows) /\ c.known <= Len(obligations)
    BY <1>1, <1>2, ObligationsType, CallFields DEF CallOK
  <2>2. Len(c.rows) - c.known \in Nat
    BY <2>1
  <2>. QED  BY <2>1, <2>2
<1>4. /\ obligations' \in Seq(Row) /\ Len(obligations') = n + d
      /\ \A i \in 1..n : obligations'[i] = IF i <= k /\ c.applied[i] > 0
                                           THEN c.rows[i] ELSE obligations[i]
      /\ \A j \in 1..d : obligations'[n + j] = c.rows[k + j]
  BY <1>1, <1>2, <1>3, WrittenRows DEF Ids
<1>5. Ids = 1..n /\ Ids' = 1..(n + d) /\ DOMAIN obligations' = Ids' /\ DOMAIN c.rows = 1..m
  BY <1>1, <1>3, <1>4, CallFields DEF Ids
<1>6. handler'[h] # handler[h] /\ handler[h].known = k
  BY <1>1, <1>2, <1>3, IdleIsNoCall DEF TypeOK
<1>7. \A i \in 1..n : obligations[i].paid \in Nat
  BY <1>2, <1>5, ObligationsType DEF Row
<1>8. ASSUME NEW i \in 1..n, i <= k
      PROVE  \E s \in DOMAIN c.rows : /\ obligations'[i] = c.rows[s]
                                      /\ PaidTo(i) => c.applied[s] > 0
  <2>1. i \in DOMAIN c.rows /\ i \in 1..c.known
    BY <1>3, <1>5, <1>8
  <2>2. CASE c.applied[i] > 0
    BY <1>4, <1>8, <2>1, <2>2
  <2>3. CASE ~(c.applied[i] > 0)
    <3>1. c.applied[i] = 0
      BY <1>1, <2>1, <2>3, CallFields DEF CallOK
    <3>2. obligations'[i] = obligations[i] /\ c.rows[i] = obligations[i]
      BY <1>2, <1>4, <2>1, <2>3, <3>1 DEF Mirrors
    <3>3. ~PaidTo(i)
      BY <1>5, <1>7, <3>2 DEF PaidTo
    <3>. QED  BY <2>1, <3>2, <3>3
  <2>. QED  BY <2>2, <2>3
<1>9. ASSUME NEW i \in 1..n, ~(i <= k)
      PROVE  i \in Ids /\ Unseen(i) /\ ~PaidTo(i) /\ obligations'[i] = obligations[i]
  <2>1. obligations'[i] = obligations[i]
    BY <1>4, <1>9
  <2>2. ~PaidTo(i)
    BY <1>5, <1>7, <2>1 DEF PaidTo
  <2>3. k < i
    BY <1>3, <1>9
  <2>. QED  BY <1>5, <1>6, <2>1, <2>2, <2>3 DEF Unseen
<1>10. ASSUME NEW j \in 1..d
       PROVE  \E s \in DOMAIN c.rows : /\ obligations'[n + j] = c.rows[s]
                                       /\ PaidTo(n + j) => c.applied[s] > 0
  <2>1. k + j \in DOMAIN c.rows /\ k + j > c.known /\ n + j \notin Ids
    <3>1. n \in Nat /\ k \in Nat /\ d \in Nat /\ k + d = m
      BY <1>3
    <3>2. k + j \in 1..(k + d) /\ k + j > k /\ n + j \notin 1..n
      BY <3>1
    <3>. QED  BY <1>3, <1>5, <3>1, <3>2
  <2>2. obligations'[n + j] = c.rows[k + j] /\ c.rows[k + j].paid = c.applied[k + j]
    BY <1>2, <1>4, <2>1 DEF Mirrors
  <2>3. PaidTo(n + j) => c.applied[k + j] > 0
    BY <2>1, <2>2 DEF PaidTo
  <2>. QED  BY <2>1, <2>2, <2>3
<1>11. \A i \in 1..(n + d) : \/ i \in 1..n /\ i <= k
                             \/ i \in 1..n /\ ~(i <= k)
                             \/ \E j \in 1..d : i = n + j
  <2>. SUFFICES ASSUME NEW i \in 1..(n + d), i \notin 1..n PROVE \E j \in 1..d : i = n + j
    OBVIOUS
  <2>1. i - n \in 1..d /\ i = n + (i - n)
    BY <1>3
  <2>. QED  BY <2>1
<1>12. ASSUME NEW i \in 1..(n + d)
       PROVE  \/ i \in Ids /\ Unseen(i) /\ ~PaidTo(i) /\ obligations'[i] = obligations[i]
              \/ \E s \in DOMAIN c.rows : /\ obligations'[i] = c.rows[s]
                                          /\ PaidTo(i) => c.applied[s] > 0
  BY <1>8, <1>9, <1>10, <1>11
<1>. QED  BY <1>1, <1>5, <1>12

LEMMA OrderCommit ==
  ASSUME OrderInv, SerialInv', NEW h \in Handlers, PayCommit(h)
  PROVE  OrderInv'
<1>1. PICK c : /\ c = handler[h] /\ c \in PayCall /\ c.op \in {"extend", "items"}
               /\ \A i \in Ids' : \/ i \in Ids /\ obligations'[i] = obligations[i]
                                  \/ \E s \in DOMAIN c.rows : obligations'[i] = c.rows[s]
  BY CommitReads DEF OrderInv
<1>2. \A s \in DOMAIN c.rows : Priced(c.rows[s])
  BY <1>1 DEF OrderInv, Orderly
<1>3. \A i \in Ids' : Priced(obligations'[i])
  BY <1>1, <1>2 DEF OrderInv
<1>4. handler' = [handler EXCEPT ![h] = Idle]
  BY DEF PayCommit, End
<1>5. handler \in [Handlers -> {Idle} \cup PayCall \cup ReassessCall]
  BY DEF OrderInv, SerialInv, Inv, TypeOK
<1>6. \A g \in Handlers : handler'[g] \in PayCall => handler'[g] = handler[g]
  BY <1>4, <1>5, IdleIsNoCall
<1>7. \A g \in Handlers : handler'[g] \in PayCall /\ handler'[g].op # "read" => Orderly(handler'[g])
  BY <1>6 DEF OrderInv
<1>. QED  BY <1>3, <1>7 DEF OrderInv

LEMMA NextOrder ==
  ASSUME SerialCalls, PositiveRates, OrderInv, [Next]_vars
  PROVE  OrderInv'
<1>0. SerialInv' /\ SerialInv /\ Inv /\ TypeOK
  BY NextSerial DEF OrderInv, SerialInv, Inv
<1>1. ASSUME handler' = handler, obligations' = obligations PROVE OrderInv'
  BY <1>0, <1>1 DEF OrderInv, Ids
<1>2. CASE \/ UNCHANGED vars \/ NextMonth \/ ActivateVersion \/ SetAllocationPolicy
           \/ \E t \in Thresholds : SetPolicy(t)
  BY <1>1, <1>2 DEF vars, memberVars, NextMonth, ActivateVersion, SetAllocationPolicy, SetPolicy
<1>3. ASSUME NEW p \in Plans, NEW due \in 1..MaxDue, CreateObligation(p, due)
      PROVE  OrderInv'
  <2>. DEFINE amount == IF Kind[p] = "voluntary" THEN 0 ELSE Rate[p]
  <2>1. AddRow(NewRow(p, due, amount))
    BY <1>3 DEF CreateObligation
  <2>2. Priced(NewRow(p, due, amount))
    BY DEF Priced, NewRow, PositiveRates
  <2>3. handler' = handler
    BY <2>1 DEF AddRow
  <2>. HIDE DEF amount
  <2>. QED  BY <1>0, <2>1, <2>2, <2>3, OrderGrow
<1>4. ASSUME NEW p \in Plans, NEW due \in 1..MaxDue, ActivateEvent(p, due)
      PROVE  OrderInv'
  <2>1. CASE AddRow(NewRow(p, due, Rate[p]))
    <3>1. Priced(NewRow(p, due, Rate[p]))
      BY <1>4, MonthlyOrEvent DEF ActivateEvent, Priced, NewRow
    <3>2. handler' = handler
      BY <2>1 DEF AddRow
    <3>. QED  BY <1>0, <2>1, <3>1, <3>2, OrderGrow
  <2>2. CASE UNCHANGED <<memberVars, ledgerVars, handler>>
    BY <1>1, <2>2 DEF memberVars
  <2>. QED  BY <1>4, <2>1, <2>2 DEF ActivateEvent
<1>5. ASSUME NEW h \in Handlers, ReassessCommit(h) PROVE OrderInv'
  <2>1. handler' = [handler EXCEPT ![h] = Idle] /\ obligations' = obligations
    BY <1>5 DEF ReassessCommit, End
  <2>. QED  BY <1>0, <2>1, IdleIsNoCall, OrderCallStep
<1>6. ASSUME NEW h \in Handlers, NEW p \in Plans, ReassessRead(h, p) PROVE OrderInv'
  <2>1. PICK r : /\ r = [op |-> "reassess", to |-> Reassessed(standing, obligations, p)]
                 /\ handler' = [handler EXCEPT ![h] = r]
    BY <1>6 DEF ReassessRead, Begin
  <2>2. r \notin PayCall
    BY <2>1 DEF PayCall
  <2>3. obligations' = obligations
    BY <1>6 DEF ReassessRead, memberVars
  <2>. QED  BY <1>0, <2>1, <2>2, <2>3, OrderCallStep
<1>7. ASSUME NEW h \in Handlers, NEW a \in Payments, NEW f \in Funds, NEW chosen \in SUBSET Ids,
             PayRead(h, a, f, chosen)
      PROVE  OrderInv'
  <2>1. PICK r : r.op = "read" /\ handler' = [handler EXCEPT ![h] = r]
    BY <1>7 DEF PayRead, Begin
  <2>2. obligations' = obligations
    BY <1>7 DEF PayRead, memberVars
  <2>. QED  BY <1>0, <2>1, <2>2, OrderCallStep
<1>8. ASSUME NEW h \in Handlers, PaySelect(h) PROVE OrderInv'
  <2>1. PICK r : /\ Selected(handler[h], r) /\ handler' = [handler EXCEPT ![h] = r]
                 /\ handler[h].op = "read" /\ handler[h].selected \subseteq OpenIds(Events)
                 /\ UNCHANGED <<configVars, memberVars, ledgerVars>>
    BY <1>8, PaySelectIs
  <2>2. PICK c : c = handler[h]
    OBVIOUS
  <2>3. c \in PayCall
    BY <1>0, <2>1, <2>2, CallByOp
  <2>4. \A i \in Ids : Priced(obligations[i])
    BY DEF OrderInv
  <2>5. Orderly(r)
    BY <1>0, <2>1, <2>2, <2>3, <2>4, OrderSelect
  <2>6. obligations' = obligations
    BY <2>1 DEF memberVars
  <2>. QED  BY <1>0, <2>1, <2>5, <2>6, OrderCallStep
<1>9. ASSUME NEW h \in Handlers, PayUnselected(h) \/ PayRefused(h) PROVE OrderInv'
  <2>1. handler' = [handler EXCEPT ![h] = Idle] /\ obligations' = obligations
    BY <1>9 DEF PayUnselected, PayRefused, End, memberVars
  <2>. QED  BY <1>0, <2>1, IdleIsNoCall, OrderCallStep
<1>10. ASSUME NEW h \in Handlers, PayDue(h) \/ PayItem(h) PROVE OrderInv'
  <2>1. PICK c, v, r, i :
           /\ c = handler[h] /\ c \in PayCall /\ CallOK(Len(obligations), c)
           /\ PaysDue(c, v, r, i) \/ PaysItem(c, v, r, i)
           /\ handler' = [handler EXCEPT ![h] = r]
           /\ UNCHANGED <<configVars, memberVars, ledgerVars>>
    BY <1>0, <1>10, VisitResult
  <2>2. PICK n \in Nat : n = Len(obligations)
    BY <1>0, ObligationsType
  <2>3. c.op # "read"
    BY <2>1 DEF PaysDue, PaysItem
  <2>4. Orderly(c)
    BY <2>1, <2>3 DEF OrderInv
  <2>5. Orderly(r)
    BY <2>1, <2>2, <2>4, OrderDue, OrderItem
  <2>6. obligations' = obligations
    BY <2>1 DEF memberVars
  <2>. QED  BY <1>0, <2>1, <2>5, <2>6, OrderCallStep
<1>11. ASSUME NEW h \in Handlers, PayAnchor(h) PROVE OrderInv'
  <2>1. PICK r : /\ Anchored(handler[h], r) /\ handler' = [handler EXCEPT ![h] = r]
                 /\ DuesVisited(handler[h]) /\ handler[h].op = "dues"
                 /\ UNCHANGED <<configVars, memberVars, ledgerVars>>
    BY <1>11, PayAnchorIs
  <2>2. PICK c : c = handler[h]
    OBVIOUS
  <2>3. c \in PayCall /\ CallOK(Len(obligations), c) /\ Orderly(c) /\ Mirrors(c)
    BY <1>0, <2>1, <2>2, CallByOp DEF OrderInv, SerialInv, Inv
  <2>4. Orderly(r)
    BY <1>0, <2>1, <2>2, <2>3, OrderAnchor
  <2>5. obligations' = obligations
    BY <2>1 DEF memberVars
  <2>. QED  BY <1>0, <2>1, <2>4, <2>5, OrderCallStep
<1>12. ASSUME NEW h \in Handlers, PayExtend(h) PROVE OrderInv'
  <2>1. PICK c, g, r :
           /\ c = handler[h] /\ c \in PayCall /\ CallOK(Len(obligations), c)
           /\ c.op = "extend" /\ c.remaining > 0
           /\ Grows(c, g) /\ Allocates(g, r, Len(c.rows) + 1, "fixed")
           /\ handler' = [handler EXCEPT ![h] = r]
           /\ UNCHANGED <<configVars, memberVars, ledgerVars>>
    BY <1>0, <1>12, ExtendResult
  <2>2. PICK n \in Nat : n = Len(obligations)
    BY <1>0, ObligationsType
  <2>3. Orderly(c)
    BY <2>1 DEF OrderInv
  <2>4. Orderly(r)
    BY <2>1, <2>2, <2>3, OrderExtend
  <2>5. obligations' = obligations
    BY <2>1 DEF memberVars
  <2>. QED  BY <1>0, <2>1, <2>4, <2>5, OrderCallStep
<1>13. ASSUME NEW h \in Handlers, PayCommit(h) PROVE OrderInv'
  BY <1>0, <1>13, OrderCommit
<1>14. CASE \E k \in 1..Len(journal) : ReverseEntry(k)
  BY <1>1, <1>14 DEF ReverseEntry, memberVars
<1>. QED  BY <1>2, <1>3, <1>4, <1>5, <1>6, <1>7, <1>8, <1>9, <1>10, <1>11, <1>12, <1>13, <1>14
          DEF Next

LEMMA InitOrder == Init => OrderInv
<1>. SUFFICES ASSUME Init PROVE OrderInv
  OBVIOUS
<1>1. Ids = {}
  BY DEF Init, Ids
<1>2. \A h \in Handlers : handler[h] \notin PayCall
  BY IdleIsNoCall DEF Init
<1>. QED  BY <1>1, <1>2, InitSerial DEF OrderInv

\* Only a commit pays, and what it paid is in the order of its rows.
LEMMA PaysInOrder ==
  ASSUME OrderInv, [Next]_vars, Pays
  PROVE  \E c : /\ c \in PayCall /\ CallOK(Len(obligations), c) /\ Orderly(c)
                /\ Allocated(c) /\ c.op \in {"extend", "items"} /\ credit' = c.remaining
                /\ DOMAIN obligations' = Ids'
                /\ \A i \in Ids' :
                      \/ Unseen(i) /\ ~PaidTo(i)
                      \/ \E s \in DOMAIN c.rows :
                            /\ obligations'[i] = c.rows[s]
                            /\ PaidTo(i) => c.applied[s] > 0
<1>1. PICK h \in Handlers : PayCommit(h)
  BY LedgerSteps DEF Pays, ledgerVars, AddRow, ReverseEntry
<1>2. PICK c : /\ c = handler[h] /\ c \in PayCall /\ CallOK(Len(obligations), c)
               /\ Allocated(c) /\ c.op \in {"extend", "items"} /\ credit' = c.remaining
               /\ DOMAIN obligations' = Ids'
               /\ \A i \in Ids' :
                     \/ Unseen(i) /\ ~PaidTo(i)
                     \/ \E s \in DOMAIN c.rows :
                           /\ obligations'[i] = c.rows[s]
                           /\ PaidTo(i) => c.applied[s] > 0
  BY <1>1, CommitReads DEF OrderInv
<1>3. Orderly(c)
  BY <1>2 DEF OrderInv
<1>. QED  BY <1>2, <1>3

\* "You don't skip April and pay May instead": while calls about the member are
\* served one at a time and monthly plans ask for something, a payment that
\* pays a monthly due leaves no older one open that it knew of.
THEOREM DuesPaidInOrder ==
  ASSUME SerialCalls, PositiveRates
  PROVE  Spec => OldestFirst
<1>. DEFINE InOrder == Pays => \A i, j \in DOMAIN obligations' :
                          /\ IsMonthly(i) /\ IsMonthly(j)
                          /\ obligations'[i].due < obligations'[j].due
                          /\ PaidTo(j)
                          => obligations'[i].status = "PAID" \/ Unseen(i)
<1>1. Init => OrderInv
  BY InitOrder
<1>2. OrderInv /\ [Next]_vars => OrderInv'
  BY NextOrder
<1>3. OrderInv /\ [Next]_vars => InOrder
  <2>. SUFFICES ASSUME OrderInv, [Next]_vars, Pays,
                       NEW i \in DOMAIN obligations', NEW j \in DOMAIN obligations',
                       IsMonthly(i), IsMonthly(j),
                       obligations'[i].due < obligations'[j].due, PaidTo(j), ~Unseen(i)
                PROVE  obligations'[i].status = "PAID"
    OBVIOUS
  <2>1. PICK c : /\ Orderly(c)
                 /\ DOMAIN obligations' = Ids'
                 /\ \A k \in Ids' :
                       \/ Unseen(k) /\ ~PaidTo(k)
                       \/ \E s \in DOMAIN c.rows :
                             /\ obligations'[k] = c.rows[s]
                             /\ PaidTo(k) => c.applied[s] > 0
    BY PaysInOrder
  <2>2. PICK s \in DOMAIN c.rows : obligations'[i] = c.rows[s]
    BY <2>1
  <2>3. PICK t \in DOMAIN c.rows : obligations'[j] = c.rows[t] /\ c.applied[t] > 0
    BY <2>1
  <2>. QED  BY <2>1, <2>2, <2>3 DEF Orderly, IsMonthly
<1>. HIDE DEF InOrder
<1>4. OldestFirst <=> [][InOrder]_vars
  BY PTL DEF OldestFirst, InOrder
<1>. QED  BY <1>1, <1>2, <1>3, <1>4, PTL DEF Spec

\* Under the same assumptions money is parked as credit only when the member
\* owes nothing at all that the payment knew of, monthly or not.
THEOREM CreditOnlyWhenClear ==
  ASSUME SerialCalls, PositiveRates
  PROVE  Spec => NoCreditWhileOwing
<1>. DEFINE Clear == Pays /\ credit' > 0 =>
                        \A i \in DOMAIN obligations' :
                            obligations'[i].status = "PAID" \/ Unseen(i)
<1>1. Init => OrderInv
  BY InitOrder
<1>2. OrderInv /\ [Next]_vars => OrderInv'
  BY NextOrder
<1>3. OrderInv /\ [Next]_vars => Clear
  <2>. SUFFICES ASSUME OrderInv, [Next]_vars, Pays, credit' > 0,
                       NEW i \in DOMAIN obligations', ~Unseen(i)
                PROVE  obligations'[i].status = "PAID"
    OBVIOUS
  <2>1. PICK c : /\ c \in PayCall /\ Orderly(c) /\ Allocated(c) /\ credit' = c.remaining
                 /\ DOMAIN obligations' = Ids'
                 /\ \A k \in Ids' :
                       \/ Unseen(k) /\ ~PaidTo(k)
                       \/ \E s \in DOMAIN c.rows : obligations'[k] = c.rows[s]
    BY PaysInOrder
  <2>2. c.op = "extend" /\ c.remaining > 0
    BY <2>1, CallFields DEF Allocated
  <2>3. /\ c.dues = {} /\ ~c.mixed
        /\ \A s \in DOMAIN c.rows \ c.dues :
              c.rows[s].plan \in Monthly => c.rows[s].status = "PAID"
        /\ \A s \in 1..c.known : c.rows[s].plan \in Events => c.rows[s].status = "PAID"
        /\ \A s \in DOMAIN c.rows : s > c.known => c.rows[s].plan \in Monthly
    BY <2>1, <2>2 DEF Orderly
  <2>4. PICK s \in DOMAIN c.rows : obligations'[i] = c.rows[s]
    BY <2>1
  <2>5. c.rows[s].plan \in Monthly \/ c.rows[s].plan \in Events
    <3>1. c.rows[s] \in Row
      BY <2>1, CallFields
    <3>. QED  BY <3>1, MonthlyOrEvent DEF Row
  <2>6. s \in 1..c.known \/ s > c.known
    BY <2>1, CallFields
  <2>. QED  BY <2>3, <2>4, <2>5, <2>6
<1>. HIDE DEF Clear
<1>4. NoCreditWhileOwing <=> [][Clear]_vars
  BY PTL DEF NoCreditWhileOwing, Clear
<1>. QED  BY <1>1, <1>2, <1>3, <1>4, PTL DEF Spec

-----------------------------------------------------------------------------
(* What members owe, by every report.  A due of a fixed plan with a rate    *)
(* asks for something, however payments interleave.                                 *)

Asks(o) == Kind[o.plan] = "fixed" /\ Rate[o.plan] > 0 => o.amount > 0

AsksInv ==
    /\ Inv
    /\ \A i \in Ids : Asks(obligations[i])
    /\ \A h \in Handlers : handler[h] \in PayCall /\ handler[h].op # "read" =>
          \A i \in DOMAIN handler[h].rows : Asks(handler[h].rows[i])

AllAsk(c) == \A i \in DOMAIN c.rows : Asks(c.rows[i])

LEMMA AsksPaid ==
  ASSUME NEW c \in PayCall, NEW i \in DOMAIN c.rows, NEW kind, NEW r, Allocates(c, r, i, kind),
         AllAsk(c), i \in DOMAIN c.applied
  PROVE  AllAsk(r)
<1>1. r \in PayCall /\ DOMAIN r.rows = DOMAIN c.rows /\ DOMAIN r.applied = DOMAIN c.applied
  BY CallFields DEF Allocates
<1>2. /\ r.rows[i] \in Row /\ r.applied[i] \in Nat /\ c.rows[i] \in Row
      /\ r.rows[i].paid = c.rows[i].paid + r.applied[i]
  BY <1>1, CallFields DEF Allocates
<1>3. r.applied[i] > 0 => Asks(r.rows[i])
  BY <1>2 DEF Allocates, Truthful, Row, Asks
<1>4. r.applied[i] = 0 => Asks(r.rows[i])
  BY DEF Allocates, AllAsk
<1>5. \A j \in DOMAIN c.rows : j # i => Asks(r.rows[j])
  BY DEF Allocates, AllAsk
<1>. QED  BY <1>1, <1>2, <1>3, <1>4, <1>5 DEF AllAsk

LEMMA AsksCallStep ==
  ASSUME AsksInv, Inv', NEW h \in Handlers, NEW r,
         r \in PayCall /\ r.op # "read" => AllAsk(r),
         handler' = [handler EXCEPT ![h] = r], obligations' = obligations
  PROVE  AsksInv'
<1>1. \A i \in Ids' : Asks(obligations'[i])
  BY DEF AsksInv, Ids
<1>2. handler \in [Handlers -> {Idle} \cup PayCall \cup ReassessCall]
  BY DEF AsksInv, Inv, TypeOK
<1>3. ASSUME NEW g \in Handlers, handler'[g] \in PayCall, handler'[g].op # "read"
      PROVE  AllAsk(handler'[g])
  BY <1>2, <1>3 DEF AsksInv, AllAsk
<1>. QED  BY <1>1, <1>3 DEF AsksInv, AllAsk

LEMMA AsksGrow ==
  ASSUME AsksInv, Inv', handler' = handler, NEW row, Asks(row), AddRow(row)
  PROVE  AsksInv'
<1>1. PICK n \in Nat : n = Len(obligations) /\ Ids = 1..n
  BY ObligationsType DEF AsksInv, Inv
<1>2. obligations \in Seq(Row) /\ obligations' = Append(obligations, row)
  BY DEF AddRow, AsksInv, Inv, TypeOK
<1>3. /\ Len(obligations') = n + 1 /\ Ids' = 1..(n + 1)
      /\ \A i \in 1..n : obligations'[i] = obligations[i]
      /\ obligations'[n + 1] = row
  BY <1>1, <1>2 DEF Ids
<1>4. \A i \in 1..(n + 1) : i \in 1..n \/ i = n + 1
  OBVIOUS
<1>5. \A i \in Ids' : Asks(obligations'[i])
  BY <1>1, <1>3, <1>4 DEF AsksInv
<1>. QED  BY <1>5 DEF AsksInv

\* A payment writes its rows over the obligations, and adds those it created.
LEMMA AsksCommit ==
  ASSUME AsksInv, Inv', NEW h \in Handlers, PayCommit(h)
  PROVE  AsksInv'
<1>1. PICK c : /\ c = handler[h] /\ c \in PayCall /\ CallOK(Len(obligations), c)
               /\ c.op \in {"extend", "items"} /\ obligations' = Written(c)
               /\ handler' = [handler EXCEPT ![h] = Idle]
  BY PayCommitIs DEF AsksInv
<1>2. AllAsk(c) /\ TypeOK
  BY <1>1 DEF AsksInv, AllAsk, Inv
<1>3. PICK n, k, m, d : /\ n \in Nat /\ k \in Nat /\ m \in Nat /\ d \in Nat
                        /\ n = Len(obligations) /\ k = c.known /\ m = Len(c.rows)
                        /\ d = m - k /\ k <= n
  <2>1. /\ Len(obligations) \in Nat /\ c.known \in Nat /\ Len(c.rows) \in Nat
        /\ c.known <= Len(c.rows) /\ c.known <= Len(obligations)
    BY <1>1, <1>2, ObligationsType, CallFields DEF CallOK
  <2>2. Len(c.rows) - c.known \in Nat
    BY <2>1
  <2>. QED  BY <2>1, <2>2
<1>4. /\ Len(obligations') = n + d
      /\ \A i \in 1..n : obligations'[i] = IF i <= k /\ c.applied[i] > 0
                                           THEN c.rows[i] ELSE obligations[i]
      /\ \A j \in 1..d : obligations'[n + j] = c.rows[k + j]
  BY <1>1, <1>2, <1>3, WrittenRows DEF Ids
<1>5. Ids = 1..n /\ Ids' = 1..(n + d) /\ DOMAIN c.rows = 1..m
  BY <1>1, <1>3, <1>4, CallFields DEF Ids
<1>6. ASSUME NEW i \in 1..n PROVE Asks(obligations'[i])
  <2>1. i <= k => i \in DOMAIN c.rows
    BY <1>3, <1>5
  <2>. QED  BY <1>2, <1>4, <1>5, <2>1 DEF AsksInv, AllAsk
<1>7. ASSUME NEW j \in 1..d PROVE Asks(obligations'[n + j])
  <2>1. k + j \in DOMAIN c.rows
    BY <1>3, <1>5, SMTT(30)
  <2>. QED  BY <1>2, <1>4, <2>1 DEF AllAsk
<1>8. \A i \in 1..(n + d) : i \in 1..n \/ \E j \in 1..d : i = n + j
  <2>. SUFFICES ASSUME NEW i \in 1..(n + d), i \notin 1..n PROVE \E j \in 1..d : i = n + j
    OBVIOUS
  <2>1. i - n \in 1..d /\ i = n + (i - n)
    BY <1>3
  <2>. QED  BY <2>1
<1>9. \A i \in Ids' : Asks(obligations'[i])
  BY <1>5, <1>6, <1>7, <1>8
<1>10. handler \in [Handlers -> {Idle} \cup PayCall \cup ReassessCall]
  BY <1>2 DEF TypeOK
<1>11. \A g \in Handlers : handler'[g] \in PayCall => handler'[g] = handler[g]
  BY <1>1, <1>10, IdleIsNoCall
<1>12. \A g \in Handlers : handler'[g] \in PayCall /\ handler'[g].op # "read" => AllAsk(handler'[g])
  BY <1>11 DEF AsksInv, AllAsk
<1>. QED  BY <1>9, <1>12 DEF AsksInv, AllAsk

LEMMA NextAsks ==
  ASSUME AsksInv, [Next]_vars
  PROVE  AsksInv'
<1>0. Inv' /\ Inv /\ TypeOK
  BY NextInv DEF AsksInv, Inv
<1>1. ASSUME handler' = handler, obligations' = obligations PROVE AsksInv'
  BY <1>0, <1>1 DEF AsksInv, Ids
<1>2. CASE \/ UNCHANGED vars \/ NextMonth \/ ActivateVersion \/ SetAllocationPolicy
           \/ \E t \in Thresholds : SetPolicy(t)
  BY <1>1, <1>2 DEF vars, memberVars, NextMonth, ActivateVersion, SetAllocationPolicy, SetPolicy
<1>3. ASSUME NEW p \in Plans, NEW due \in 1..MaxDue, CreateObligation(p, due)
      PROVE  AsksInv'
  <2>. DEFINE amount == IF Kind[p] = "voluntary" THEN 0 ELSE Rate[p]
  <2>1. AddRow(NewRow(p, due, amount)) /\ handler' = handler
    BY <1>3 DEF CreateObligation, AddRow
  <2>2. Asks(NewRow(p, due, amount))
    BY DEF Asks, NewRow
  <2>. HIDE DEF amount
  <2>. QED  BY <1>0, <2>1, <2>2, AsksGrow
<1>4. ASSUME NEW p \in Plans, NEW due \in 1..MaxDue, ActivateEvent(p, due)
      PROVE  AsksInv'
  <2>1. CASE AddRow(NewRow(p, due, Rate[p]))
    <3>1. Asks(NewRow(p, due, Rate[p])) /\ handler' = handler
      BY <2>1 DEF AddRow, Asks, NewRow
    <3>. QED  BY <1>0, <2>1, <3>1, AsksGrow
  <2>2. CASE UNCHANGED <<memberVars, ledgerVars, handler>>
    BY <1>1, <2>2 DEF memberVars
  <2>. QED  BY <1>4, <2>1, <2>2 DEF ActivateEvent
<1>5. ASSUME NEW h \in Handlers, ReassessCommit(h) \/ PayUnselected(h) \/ PayRefused(h)
      PROVE  AsksInv'
  <2>1. handler' = [handler EXCEPT ![h] = Idle] /\ obligations' = obligations
    BY <1>5 DEF ReassessCommit, PayUnselected, PayRefused, End, memberVars
  <2>. QED  BY <1>0, <2>1, IdleIsNoCall, AsksCallStep
<1>6. ASSUME NEW h \in Handlers, NEW p \in Plans, ReassessRead(h, p) PROVE AsksInv'
  <2>1. PICK r : /\ r = [op |-> "reassess", to |-> Reassessed(standing, obligations, p)]
                 /\ handler' = [handler EXCEPT ![h] = r]
    BY <1>6 DEF ReassessRead, Begin
  <2>2. r \notin PayCall
    BY <2>1 DEF PayCall
  <2>3. obligations' = obligations
    BY <1>6 DEF ReassessRead, memberVars
  <2>. QED  BY <1>0, <2>1, <2>2, <2>3, AsksCallStep
<1>7. ASSUME NEW h \in Handlers, NEW a \in Payments, NEW f \in Funds, NEW chosen \in SUBSET Ids,
             PayRead(h, a, f, chosen)
      PROVE  AsksInv'
  <2>1. PICK r : r.op = "read" /\ handler' = [handler EXCEPT ![h] = r]
    BY <1>7 DEF PayRead, Begin
  <2>2. obligations' = obligations
    BY <1>7 DEF PayRead, memberVars
  <2>. QED  BY <1>0, <2>1, <2>2, AsksCallStep
<1>8. ASSUME NEW h \in Handlers, PaySelect(h) PROVE AsksInv'
  <2>1. PICK r : /\ Selected(handler[h], r) /\ handler' = [handler EXCEPT ![h] = r]
                 /\ handler[h].op = "read" /\ handler[h].selected \subseteq OpenIds(Events)
                 /\ UNCHANGED <<configVars, memberVars, ledgerVars>>
    BY <1>8, PaySelectIs
  <2>2. PICK c : c = handler[h] /\ c \in PayCall
    BY <1>0, <2>1, CallByOp
  <2>3. r.rows = obligations /\ DOMAIN obligations = Ids
    BY <1>0, <2>1, <2>2, SelectedResult, ObligationsType
  <2>4. AllAsk(r)
    BY <2>3 DEF AsksInv, AllAsk
  <2>5. obligations' = obligations
    BY <2>1 DEF memberVars
  <2>. QED  BY <1>0, <2>1, <2>4, <2>5, AsksCallStep
<1>9. ASSUME NEW h \in Handlers, PayDue(h) \/ PayItem(h) PROVE AsksInv'
  <2>1. PICK c, v, r, i :
           /\ c = handler[h] /\ c \in PayCall /\ CallOK(Len(obligations), c)
           /\ PaysDue(c, v, r, i) \/ PaysItem(c, v, r, i)
           /\ i \in DOMAIN c.rows /\ v \in PayCall /\ CallOK(Len(obligations), v)
           /\ v.rows = c.rows
           /\ handler' = [handler EXCEPT ![h] = r]
           /\ UNCHANGED <<configVars, memberVars, ledgerVars>>
    BY <1>0, <1>9, VisitResult
  <2>2. c.op # "read" /\ Allocates(v, r, i, Kind[c.rows[i].plan])
    BY <2>1 DEF PaysDue, PaysItem
  <2>3. AllAsk(v) /\ DOMAIN v.applied = DOMAIN v.rows
    BY <2>1, <2>2, CallFields DEF AsksInv, AllAsk, CallOK
  <2>4. AllAsk(r)
    BY <2>1, <2>2, <2>3, AsksPaid
  <2>5. obligations' = obligations
    BY <2>1 DEF memberVars
  <2>. QED  BY <1>0, <2>1, <2>4, <2>5, AsksCallStep
<1>10. ASSUME NEW h \in Handlers, PayAnchor(h) PROVE AsksInv'
  <2>1. PICK r : /\ Anchored(handler[h], r) /\ handler' = [handler EXCEPT ![h] = r]
                 /\ DuesVisited(handler[h]) /\ handler[h].op = "dues"
                 /\ UNCHANGED <<configVars, memberVars, ledgerVars>>
    BY <1>10, PayAnchorIs
  <2>2. PICK c : c = handler[h] /\ c \in PayCall /\ CallOK(Len(obligations), c)
    BY <1>0, <2>1, CallByOp DEF Inv
  <2>3. r.rows = c.rows /\ AllAsk(c)
    BY <1>0, <2>1, <2>2, AnchoredResult DEF AsksInv, AllAsk, CallOK
  <2>4. AllAsk(r) /\ obligations' = obligations
    BY <2>1, <2>3 DEF AllAsk, memberVars
  <2>. QED  BY <1>0, <2>1, <2>4, AsksCallStep
<1>11. ASSUME NEW h \in Handlers, PayExtend(h) PROVE AsksInv'
  <2>1. PICK c, g, r :
           /\ c = handler[h] /\ c \in PayCall /\ CallOK(Len(obligations), c)
           /\ c.op = "extend" /\ c.remaining > 0
           /\ Grows(c, g) /\ Allocates(g, r, Len(c.rows) + 1, "fixed")
           /\ handler' = [handler EXCEPT ![h] = r]
           /\ UNCHANGED <<configVars, memberVars, ledgerVars>>
    BY <1>0, <1>11, ExtendResult
  <2>2. PICK n \in Nat : n = Len(obligations)
    BY <1>0, ObligationsType
  <2>3. PICK i, m : i = Len(c.rows) + 1 /\ m = Len(c.rows) /\ m \in Nat
    BY <2>1, CallFields
  <2>4. /\ g \in PayCall /\ Len(g.applied) = i /\ DOMAIN g.rows = 1..i
        /\ \A j \in DOMAIN c.rows : g.rows[j] = c.rows[j]
        /\ g.rows[i] \in Row /\ g.rows[i].amount = Rate[g.rows[i].plan]
    BY <2>1, <2>2, <2>3, GrowsResult, SMTT(30)
  <2>5. DOMAIN c.rows = 1..m /\ DOMAIN g.applied = 1..i /\ i \in 1..i
        /\ \A j \in 1..i : j \in 1..m \/ j = i
    BY <2>1, <2>3, <2>4, CallFields
  <2>6. Asks(g.rows[i])
    <3>1. g.rows[i].plan \in Plans
      BY <2>4 DEF Row
    <3>. QED  BY <2>4, <3>1 DEF Asks
  <2>7. AllAsk(c)
    BY <2>1 DEF AsksInv, AllAsk
  <2>8. AllAsk(g)
    BY <2>4, <2>5, <2>6, <2>7 DEF AllAsk
  <2>9. PICK kind : kind = "fixed" /\ Allocates(g, r, i, kind)
    BY <2>1, <2>3
  <2>10. AllAsk(r)
    BY <2>4, <2>5, <2>8, <2>9, AsksPaid
  <2>11. obligations' = obligations
    BY <2>1 DEF memberVars
  <2>. QED  BY <1>0, <2>1, <2>10, <2>11, AsksCallStep
<1>12. ASSUME NEW h \in Handlers, PayCommit(h) PROVE AsksInv'
  BY <1>0, <1>12, AsksCommit
<1>13. CASE \E k \in 1..Len(journal) : ReverseEntry(k)
  BY <1>1, <1>13 DEF ReverseEntry, memberVars
<1>. QED  BY <1>2, <1>3, <1>4, <1>5, <1>6, <1>7, <1>8, <1>9, <1>10, <1>11, <1>12, <1>13
          DEF Next

LEMMA InitAsks == Init => AsksInv
<1>. SUFFICES ASSUME Init PROVE AsksInv
  OBVIOUS
<1>1. Ids = {}
  BY DEF Init, Ids
<1>2. \A h \in Handlers : handler[h] \notin PayCall
  BY IdleIsNoCall DEF Init
<1>. QED  BY <1>1, <1>2, InitInv DEF AsksInv
-----------------------------------------------------------------------------
(* What is outstanding, as a sum over rows. *)

Owed == [i \in Ids |-> obligations[i].amount - obligations[i].paid]

LEMMA OwedIs ==
  ASSUME TypeOK, StatusTruthful
  PROVE  /\ IsFiniteSet(Ids)
         /\ \A i \in Ids : /\ Owed[i] \in Nat
                           /\ obligations[i].amount \in Nat /\ obligations[i].paid \in Nat
                           /\ Owed[i] = obligations[i].amount - obligations[i].paid
                           /\ obligations[i].status \notin Open => Owed[i] = 0
<1>1. IsFiniteSet(Ids)
  BY ObligationsType, Places
<1>2. \A i \in Ids : obligations[i] \in Row /\ Truthful(obligations[i])
  BY ObligationsType, TruthfulRows
<1>3. ASSUME NEW o \in Row, Truthful(o)
      PROVE  /\ o.amount \in Nat /\ o.paid \in Nat /\ o.amount - o.paid \in Nat
             /\ o.status \notin Open => o.amount - o.paid = 0
  BY <1>3 DEF Row, Truthful
<1>. QED  BY <1>1, <1>2, <1>3 DEF Owed

\* Expected less collected is the sum of what each row still asks for.
LEMMA Outstands ==
  ASSUME TypeOK, StatusTruthful, NEW S \in SUBSET Ids
  PROVE  /\ Expected(S) - Collected(S) = Total(Owed, S)
         /\ Total(Owed, S) \in Int /\ Expected(S) \in Int /\ Collected(S) \in Int
<1>1. IsFiniteSet(S) /\ \A i \in S : Owed[i] \in Int
  BY OwedIs, FS_Subset
<1>2. PICK am, pd : /\ am = [i \in S |-> obligations[i].amount]
                    /\ pd = [i \in S |-> obligations[i].paid]
  OBVIOUS
<1>3. \A i \in S : pd[i] \in Int /\ am[i] \in Int /\ am[i] = Owed[i] + pd[i]
  BY <1>2, OwedIs
<1>4. Expected(S) = Total(am, S) /\ Collected(S) = Total(pd, S)
  <2>1. DOMAIN am = S /\ DOMAIN pd = S
    BY <1>2
  <2>. QED  BY <1>2, <2>1, SumTotal DEF Expected, Collected
<1>5. PICK ow : ow = Owed
  OBVIOUS
<1>6. Total(am, S) = Total(ow, S) + Total(pd, S)
  BY <1>1, <1>3, <1>5, TotalAdd
<1>7. Total(am, S) \in Int /\ Total(ow, S) \in Int /\ Total(pd, S) \in Int
  BY <1>1, <1>3, <1>5, TotalType
<1>. QED  BY <1>4, <1>5, <1>6, <1>7

\* Elements of which nothing is added can be left out.
LEMMA TotalPart ==
  ASSUME NEW R, IsFiniteSet(R), NEW S \in SUBSET R, NEW f, NEW h,
         \A x \in R : f[x] \in Int,
         \A x \in R : f[x] = IF x \in S THEN h[x] ELSE 0
  PROVE  Total(f, R) = Total(h, S)
<1>. DEFINE T == {s \in SUBSET R : Total(f, s) = Total(h, s \cap S)}
<1>1. ASSUME NEW s \in SUBSET R, \A x \in s : s \ {x} \in T PROVE s \in T
  <2>1. CASE s = {}
    <3>1. s \cap S = {}
      BY <2>1
    <3>. QED  BY <2>1, <3>1, TotalEmpty
  <2>2. CASE s # {}
    <3>1. PICK x \in s : TRUE
      BY <2>2
    <3>2. /\ IsFiniteSet(s) /\ \A z \in s : f[z] \in Int
          /\ IsFiniteSet(s \cap S) /\ \A z \in s \cap S : h[z] \in Int
      BY FS_Subset
    <3>3. /\ Total(f, s) = f[x] + Total(f, s \ {x})
          /\ Total(f, s \ {x}) \in Int /\ f[x] \in Int
      BY <3>2, TotalRemove
    <3>4. Total(f, s \ {x}) = Total(h, (s \ {x}) \cap S)
      BY <1>1
    <3>5. CASE x \in S
      <4>1. (s \ {x}) \cap S = (s \cap S) \ {x} /\ x \in s \cap S
        BY <3>5
      <4>2. Total(h, s \cap S) = h[x] + Total(h, (s \cap S) \ {x})
        BY <3>2, <4>1, TotalRemove
      <4>3. Total(f, s \ {x}) = Total(h, (s \cap S) \ {x}) /\ h[x] = f[x]
        BY <3>4, <3>5, <4>1
      <4>. QED  BY <3>3, <4>2, <4>3
    <3>6. CASE x \notin S
      <4>1. (s \ {x}) \cap S = s \cap S
        BY <3>6
      <4>2. Total(f, s \ {x}) = Total(h, s \cap S) /\ f[x] = 0
        BY <3>4, <3>6, <4>1
      <4>. QED  BY <3>3, <4>2
    <3>. QED  BY <3>5, <3>6
  <2>. QED  BY <2>1, <2>2
<1>2. R \in T
  <2>1. R \in SUBSET R
    OBVIOUS
  <2>. HIDE DEF T
  <2>. QED  BY <1>1, <2>1, SetsByRemoval
<1>3. R \cap S = S
  OBVIOUS
<1>. QED  BY <1>2, <1>3

\* A sum of amounts is positive as soon as one is.
LEMMA TotalPositive ==
  ASSUME NEW S, IsFiniteSet(S), NEW f, \A x \in S : f[x] \in Nat
  PROVE  Total(f, S) \in Nat /\ \A x \in S : f[x] > 0 => Total(f, S) > 0
<1>. DEFINE T == {s \in SUBSET S : Total(f, s) \in Nat}
<1>1. ASSUME NEW s \in SUBSET S, \A x \in s : s \ {x} \in T PROVE s \in T
  <2>1. CASE s = {}
    BY <2>1, TotalEmpty
  <2>2. CASE s # {}
    <3>1. PICK x \in s : TRUE
      BY <2>2
    <3>2. IsFiniteSet(s) /\ \A z \in s : f[z] \in Int
      BY FS_Subset
    <3>3. Total(f, s) = f[x] + Total(f, s \ {x}) /\ f[x] \in Nat
      BY <3>2, TotalRemove
    <3>4. Total(f, s \ {x}) \in Nat
      BY <1>1
    <3>. QED  BY <3>3, <3>4
  <2>. QED  BY <2>1, <2>2
<1>2. \A s \in SUBSET S : s \in T
  <2>. HIDE DEF T
  <2>. QED  BY <1>1, SetsByRemoval
<1>3. ASSUME NEW x \in S, f[x] > 0 PROVE Total(f, S) > 0
  <2>1. Total(f, S) = f[x] + Total(f, S \ {x})
    BY TotalRemove
  <2>2. S \ {x} \in SUBSET S
    OBVIOUS
  <2>3. Total(f, S \ {x}) \in Nat /\ f[x] \in Nat
    BY <1>2, <2>2
  <2>. QED  BY <1>3, <2>1, <2>3
<1>4. Total(f, S) \in Nat
  <2>1. S \in SUBSET S
    OBVIOUS
  <2>. QED  BY <1>2, <2>1
<1>. QED  BY <1>3, <1>4

-----------------------------------------------------------------------------
(* The reports. *)

\* Nothing is outstanding of a due that is not open.
LEMMA RegisterIsSummary ==
  ASSUME TypeOK, StatusTruthful, NEW p
  PROVE  DefaulterRegister(p).arrears = Outstanding(p, Nat)
<1>1. PICK open, all : open = OpenIds({p}) /\ all = DueIn({p}, Nat)
  OBVIOUS
<1>2. open \in SUBSET all /\ all \in SUBSET Ids
  <2>1. \A i \in Ids : obligations[i].due \in Nat
    BY ObligationsType DEF Row
  <2>. QED  BY <1>1, <2>1 DEF OpenIds, DueIn
<1>3. \A i \in all : i \notin open => obligations[i].status \notin Open
  BY <1>1 DEF OpenIds, DueIn
<1>4. PICK ow : ow = Owed
  OBVIOUS
<1>5. IsFiniteSet(all) /\ \A i \in all : ow[i] \in Int /\ ow[i] = IF i \in open THEN ow[i] ELSE 0
  BY <1>2, <1>3, <1>4, OwedIs, FS_Subset
<1>6. Total(ow, all) = Total(ow, open)
  BY <1>2, <1>5, TotalPart
<1>7. open \in SUBSET Ids
  BY <1>2
<1>8. /\ Expected(open) - Collected(open) = Total(Owed, open)
      /\ Expected(all) - Collected(all) = Total(Owed, all)
  BY <1>2, <1>7, Outstands
<1>9. DefaulterRegister(p).arrears = Expected(open) - Collected(open)
  BY <1>1 DEF DefaulterRegister
<1>10. Outstanding(p, Nat) = Expected(all) - Collected(all)
  BY <1>1 DEF Outstanding
<1>. QED  BY <1>4, <1>6, <1>8, <1>9, <1>10

\* Every open due has one age.
LEMMA AgedWithoutLoss ==
  ASSUME TypeOK, StatusTruthful, NEW p
  PROVE  DefaulterRegister(p).arrears = FoldFunction(+, 0, DefaulterRegister(p).aging)
<1>1. PICK open : open = OpenIds({p})
  OBVIOUS
<1>. DEFINE owing == {i \in open : obligations[i].amount > obligations[i].paid}
            aged(k) == {i \in owing : Age(i) = k}
            part(k) == [i \in open |-> IF i \in aged(k) THEN Owed[i] ELSE 0]
            aging == [k \in 1..4 |-> Expected(aged(k)) - Collected(aged(k))]
<1>2. open \in SUBSET Ids /\ IsFiniteSet(open)
  <2>1. open \in SUBSET Ids
    BY <1>1 DEF OpenIds
  <2>. QED  BY <2>1, OwedIs, FS_Subset
<1>3. \A i \in open : /\ Owed[i] \in Nat /\ Age(i) \in 1..4
                      /\ i \notin owing => Owed[i] = 0
  <2>. SUFFICES ASSUME NEW i \in open
                PROVE  Owed[i] \in Nat /\ Age(i) \in 1..4 /\ (i \notin owing => Owed[i] = 0)
    OBVIOUS
  <2>1. /\ Owed[i] \in Nat /\ obligations[i].amount \in Nat /\ obligations[i].paid \in Nat
        /\ Owed[i] = obligations[i].amount - obligations[i].paid
    BY <1>2, OwedIs
  <2>2. PICK d, m : d = obligations[i].due /\ m = month /\ d \in Int /\ m \in Int
    <3>1. obligations[i] \in Row /\ month \in 1..MaxMonth + 1
      BY <1>2, ObligationsType DEF TypeOK
    <3>2. MaxMonth \in Nat
      BY ContributionsAssumption
    <3>3. obligations[i].due \in Int /\ month \in Int
      BY <3>1, <3>2 DEF Row
    <3>. QED  BY <3>3
  <2>3. Age(i) = IF m <= d + 1 THEN 1 ELSE IF m > d + 3 THEN 4 ELSE m - d
    BY <2>2 DEF Age
  <2>4. Age(i) \in 1..4
    BY <2>2, <2>3
  <2>. QED  BY <2>1, <2>4
<1>4. ASSUME NEW k
      PROVE  /\ Total(part(k), open) = Expected(aged(k)) - Collected(aged(k))
             /\ Total(part(k), open) \in Int
  <2>1. PICK S, f, ow : S = aged(k) /\ f = part(k) /\ ow = Owed
    OBVIOUS
  <2>2. S \in SUBSET open /\ S \in SUBSET Ids
    BY <1>2, <2>1
  <2>3. \A x \in open : f[x] \in Int /\ f[x] = IF x \in S THEN ow[x] ELSE 0
    BY <1>3, <2>1
  <2>4. Total(f, open) = Total(ow, S) /\ Total(f, open) \in Int
    BY <1>2, <2>2, <2>3, TotalPart, TotalType
  <2>5. Expected(S) - Collected(S) = Total(Owed, S)
    BY <2>2, Outstands
  <2>. QED  BY <2>1, <2>4, <2>5
<1>5. PICK f1, f2, f3, f4, f12, f34, ow :
         /\ f1 = part(1) /\ f2 = part(2) /\ f3 = part(3) /\ f4 = part(4) /\ ow = Owed
         /\ f12 = [i \in open |-> f1[i] + f2[i]] /\ f34 = [i \in open |-> f3[i] + f4[i]]
  OBVIOUS
<1>6. ASSUME NEW i \in open
      PROVE  /\ f1[i] \in Int /\ f2[i] \in Int /\ f3[i] \in Int /\ f4[i] \in Int
             /\ f12[i] \in Int /\ f34[i] \in Int /\ ow[i] \in Int
             /\ f12[i] = f1[i] + f2[i] /\ f34[i] = f3[i] + f4[i] /\ ow[i] = f12[i] + f34[i]
  <2>1. PICK a : a = Age(i) /\ a \in {1, 2, 3, 4}
    <3>1. Age(i) \in 1..4
      BY <1>3
    <3>. QED  BY <3>1
  <2>2. \A k \in 1..4 : part(k)[i] = IF a = k THEN Owed[i] ELSE 0
    BY <1>3, <2>1
  <2>. HIDE DEF part
  <2>3. /\ f1[i] = IF a = 1 THEN ow[i] ELSE 0
        /\ f2[i] = IF a = 2 THEN ow[i] ELSE 0
        /\ f3[i] = IF a = 3 THEN ow[i] ELSE 0
        /\ f4[i] = IF a = 4 THEN ow[i] ELSE 0
    BY <1>5, <2>2
  <2>4. ow[i] \in Nat /\ f12[i] = f1[i] + f2[i] /\ f34[i] = f3[i] + f4[i]
    BY <1>3, <1>5
  <2>. QED  BY <2>1, <2>3, <2>4
<1>7. Total(ow, open) = Total(f12, open) + Total(f34, open)
  BY <1>2, <1>6, TotalAdd
<1>8. /\ Total(f12, open) = Total(f1, open) + Total(f2, open)
      /\ Total(f34, open) = Total(f3, open) + Total(f4, open)
  BY <1>2, <1>6, TotalAdd
<1>9. PICK g : g = aging
  OBVIOUS
<1>10. /\ g[1] = Total(f1, open) /\ g[2] = Total(f2, open)
       /\ g[3] = Total(f3, open) /\ g[4] = Total(f4, open)
       /\ \A k \in 1..4 : g[k] \in Int
       /\ DOMAIN g = 1..4
  <2>. HIDE DEF aged, part
  <2>1. \A k \in 1..4 : g[k] = Total(part(k), open) /\ g[k] \in Int
    BY <1>4, <1>9
  <2>. QED  BY <1>5, <1>9, <2>1
<1>11. Total(g, 1..4) = g[1] + g[2] + g[3] + g[4]
  <2>. HIDE DEF aging, aged, part, owing
  <2>1. \A n \in 0..3 : Total(g, 1..(n + 1)) = Total(g, 1..n) + g[n + 1] /\ Total(g, 1..n) \in Int
    <3>. SUFFICES ASSUME NEW n \in 0..3
                  PROVE  /\ Total(g, 1..(n + 1)) = Total(g, 1..n) + g[n + 1]
                         /\ Total(g, 1..n) \in Int
      OBVIOUS
    <3>1. n \in Nat /\ \A k \in 1..(n + 1) : g[k] \in Int
      BY <1>10
    <3>. QED  BY <3>1, TotalFirst
  <2>5. Total(g, 1..0) = 0
    <3>1. 1..0 = {}
      OBVIOUS
    <3>. QED  BY <3>1, TotalEmpty
  <2>6. 3 + 1 = 4 /\ 2 + 1 = 3 /\ 1 + 1 = 2 /\ 0 + 1 = 1
    OBVIOUS
  <2>7. Total(g, 1..4) = Total(g, 1..3) + g[4]
    BY <2>1, <2>6
  <2>8. Total(g, 1..3) = Total(g, 1..2) + g[3]
    BY <2>1, <2>6
  <2>9. Total(g, 1..2) = Total(g, 1..1) + g[2]
    BY <2>1, <2>6
  <2>10. Total(g, 1..1) = g[1]
    <3>1. g[1] \in Int
      BY <1>10
    <3>. QED  BY <2>1, <2>5, <2>6, <3>1
  <2>11. g[1] \in Int /\ g[2] \in Int /\ g[3] \in Int /\ g[4] \in Int
    BY <1>10
  <2>12. Total(g, 1..3) \in Int /\ Total(g, 1..2) \in Int
    BY <2>1
  <2>. QED  BY <2>7, <2>8, <2>9, <2>10, <2>11, <2>12
<1>12. FoldFunction(+, 0, g) = Total(g, 1..4)
  <2>1. FoldFunction(+, 0, g) = Total(g, DOMAIN g)
    BY DEF FoldFunction, FoldFunctionOnSet, Total, MapThenSumSet
  <2>. QED  BY <1>10, <2>1
<1>13. DefaulterRegister(p).aging = g /\ DefaulterRegister(p).arrears = Expected(open) - Collected(open)
  BY <1>1, <1>9 DEF DefaulterRegister
<1>14. Expected(open) - Collected(open) = Total(Owed, open)
  BY <1>2, Outstands
<1>15. Total(f1, open) \in Int /\ Total(f2, open) \in Int /\ Total(f3, open) \in Int
       /\ Total(f4, open) \in Int
  <2>. HIDE DEF part
  <2>. QED  BY <1>4, <1>5
<1>. QED
  <2>1. PICK a1, a2, a3, a4 \in Int : a1 = Total(f1, open) /\ a2 = Total(f2, open)
                                      /\ a3 = Total(f3, open) /\ a4 = Total(f4, open)
    BY <1>15
  <2>2. Total(Owed, open) = (a1 + a2) + (a3 + a4)
    BY <1>5, <1>7, <1>8, <2>1
  <2>3. FoldFunction(+, 0, DefaulterRegister(p).aging) = Total(g, 1..4)
    BY <1>12, <1>13
  <2>4. Total(g, 1..4) = a1 + a2 + a3 + a4
    BY <1>10, <1>11, <2>1
  <2>5. Total(g, 1..4) = (a1 + a2) + (a3 + a4)
    BY <2>1, <2>4
  <2>. QED  BY <1>13, <1>14, <2>2, <2>3, <2>5

\* A missed due of a fixed plan is one on which something is owed.
LEMMA MissedOwes ==
  ASSUME AsksInv, NEW p, DefaulterRegister(p).missed > 0, Kind[p] = "fixed", Rate[p] > 0
  PROVE  DefaulterRegister(p).arrears > 0
<1>1. TypeOK /\ StatusTruthful
  BY DEF AsksInv, Inv
<1>. DEFINE lapsed == {i \in DOMAIN obligations :
                          obligations[i].plan = p /\ obligations[i].due + Grace <= month}
            settled == {i \in lapsed : obligations[i].status = "PAID"}
            missed == {i \in lapsed : \A j \in settled : obligations[j].due < obligations[i].due}
<1>2. Cardinality(missed) > 0
  BY DEF DefaulterRegister, Missed
<1>3. missed # {}
  <2>1. ~(0 > 0) /\ Cardinality({}) = 0
    BY FS_EmptySet
  <2>2. missed = {} => Cardinality(missed) = 0
    BY <2>1
  <2>. QED  BY <1>2, <2>1, <2>2
<1>4. PICK i \in missed : TRUE
  BY <1>3
<1>5. i \in Ids /\ obligations[i] \in Row /\ Asks(obligations[i])
  BY <1>1, ObligationsType DEF AsksInv
<1>6. obligations[i].status # "PAID" /\ obligations[i].plan = p
  <2>1. obligations[i].due \in Nat
    BY <1>5 DEF Row
  <2>2. ~(obligations[i].due < obligations[i].due)
    BY <2>1
  <2>. QED  BY <2>2
<1>7. i \in OpenIds({p})
  BY <1>5, <1>6 DEF OpenIds, Row
<1>8. Owed[i] > 0
  <2>1. Truthful(obligations[i])
    BY <1>1, <1>5, TruthfulRows
  <2>2. obligations[i].amount > 0
    BY <1>5, <1>6 DEF Asks
  <2>3. obligations[i].amount - obligations[i].paid > 0
    BY <1>5, <1>6, <2>1, <2>2 DEF Truthful, Row, Open
  <2>. QED  BY <1>5, <2>3 DEF Owed
<1>9. PICK open : open = OpenIds({p})
  OBVIOUS
<1>10. open \in SUBSET Ids /\ IsFiniteSet(open) /\ \A j \in open : Owed[j] \in Nat
  <2>1. open \in SUBSET Ids
    BY <1>9 DEF OpenIds
  <2>. QED  BY <1>1, <2>1, OwedIs, FS_Subset
<1>11. PICK ow : ow = Owed
  OBVIOUS
<1>12. Total(ow, open) > 0
  BY <1>7, <1>8, <1>9, <1>10, <1>11, TotalPositive
<1>13. Expected(open) - Collected(open) = Total(Owed, open)
  BY <1>1, <1>10, Outstands
<1>. QED  BY <1>9, <1>11, <1>12, <1>13 DEF DefaulterRegister

\* Credit waits for no due before the date the member is paid through.
LEMMA NextIsNotPaid ==
  ASSUME TypeOK, NEW i \in NextObligation
  PROVE  obligations[i].due >= PaidThrough
<1>. DEFINE run == {k \in Ids : /\ obligations[k].status = "PAID"
                                /\ \A j \in Ids : obligations[j].due < obligations[k].due =>
                                                     obligations[j].status = "PAID"}
            dates == {0} \cup {obligations[k].due : k \in run}
<1>1. i \in Ids /\ obligations[i].status # "PAID"
  BY DEF NextObligation, Oldest, OpenIds, Open
<1>2. \A k \in Ids : obligations[k].due \in Nat
  BY ObligationsType DEF Row
<1>3. \A x \in dates : x \in Nat /\ x <= obligations[i].due
  BY <1>1, <1>2
<1>4. dates \in SUBSET Nat /\ dates # {} /\ obligations[i].due \in Nat
  BY <1>1, <1>2, <1>3
<1>5. PaidThrough = Max(dates)
  BY DEF PaidThrough
<1>. HIDE DEF dates
<1>6. Max(dates) \in dates
  BY <1>3, <1>4, MaxOfBounded
<1>. QED  BY <1>3, <1>4, <1>5, <1>6

\* All of it collected is a hundred percent, and nothing is none.
LEMMA AllCollected ==
  ASSUME NEW n \in Nat, n > 0
  PROVE  Percent(n, n) = 10000 /\ Percent(0, n) = 0
<1>1. PICK d, a : d = 2 * n /\ a = n * 20000 + n /\ d \in Nat /\ d > 0 /\ a = 10000 * d + n
  OBVIOUS
<1>2. 0 <= n /\ n < d /\ a \in Nat
  BY <1>1
<1>3. (10000 * d + n) \div d = 10000
  BY <1>1, <1>2, Z3
<1>4. n \div d = 0
  BY <1>1, <1>2, Z3
<1>5. 0 * 20000 + n = n
  OBVIOUS
<1>. QED  BY <1>1, <1>3, <1>4, <1>5 DEF Percent

\* The rating of what was asked for and what was paid of it.
Rating(asked, paid) ==
    LET collection == Percent(paid, asked)
        arrears == Percent(asked - paid, asked)
    IN  IF asked = 0 THEN "Watch"
        ELSE IF collection >= 9000 /\ arrears <= 1000 THEN "Healthy"
        ELSE IF collection >= 7500 /\ arrears <= 2500 THEN "Watch"
        ELSE IF collection >= 5000 /\ arrears <= 5000 THEN "At Risk"
        ELSE "Critical"

LEMMA RatingOfAll ==
  ASSUME NEW n \in Nat
  PROVE  Rating(n, n) \in {"Watch", "Healthy"}
<1>1. CASE n = 0
  BY <1>1 DEF Rating
<1>2. CASE n > 0
  <2>1. PICK z : z = n - n /\ z = 0
    OBVIOUS
  <2>2. PICK c, a : c = Percent(n, n) /\ a = Percent(z, n) /\ c = 10000 /\ a = 0
    BY <1>2, <2>1, AllCollected
  <2>3. n # 0 /\ c >= 9000 /\ a <= 1000
    BY <1>2, <2>2
  <2>. QED  BY <2>1, <2>2, <2>3 DEF Rating
<1>. QED  BY <1>1, <1>2

\* A month of which each plan has all it asked for is not at risk.
LEMMA NothingOwedNoRisk ==
  ASSUME TypeOK, StatusTruthful, NEW m \in Nat, \A p \in Plans : ~(Outstanding(p, {m}) > 0)
  PROVE  FinancialHealth({m}) \notin {"At Risk", "Critical"}
<1>1. PICK ids : ids = DueIn(Plans, {m})
  OBVIOUS
<1>2. ids \in SUBSET Ids
  BY <1>1 DEF DueIn
<1>3. \A i \in ids : Owed[i] = 0
  <2>. SUFFICES ASSUME NEW i \in ids, Owed[i] # 0 PROVE FALSE
    OBVIOUS
  <2>1. PICK p, S : p = obligations[i].plan /\ S = DueIn({p}, {m})
    OBVIOUS
  <2>2. S \in SUBSET Ids /\ i \in S /\ p \in Plans
    BY <1>1, <2>1 DEF DueIn
  <2>3. IsFiniteSet(S) /\ (\A j \in S : Owed[j] \in Nat) /\ Owed[i] > 0
    BY <2>2, OwedIs, FS_Subset
  <2>4. PICK ow : ow = Owed
    OBVIOUS
  <2>5. Total(ow, S) > 0
    BY <2>2, <2>3, <2>4, TotalPositive
  <2>6. Expected(S) - Collected(S) = Total(Owed, S)
    BY <2>2, Outstands
  <2>7. Outstanding(p, {m}) > 0
    BY <2>1, <2>4, <2>5, <2>6 DEF Outstanding
  <2>. QED  BY <2>2, <2>7
<1>4. Expected(ids) = Collected(ids) /\ Expected(ids) \in Nat
  <2>1. PICK am, pd : /\ am = [i \in ids |-> obligations[i].amount]
                      /\ pd = [i \in ids |-> obligations[i].paid]
    OBVIOUS
  <2>2. \A i \in ids : obligations[i].amount = obligations[i].paid
                       /\ obligations[i].amount \in Nat
    BY <1>2, <1>3, OwedIs
  <2>3. am = pd /\ (\A i \in ids : am[i] \in Nat) /\ DOMAIN am = ids /\ DOMAIN pd = ids
    BY <2>1, <2>2
  <2>4. IsFiniteSet(ids)
    BY <1>2, OwedIs, FS_Subset
  <2>5. Expected(ids) = Total(am, ids) /\ Collected(ids) = Total(pd, ids)
    BY <2>1, <2>3, SumTotal DEF Expected, Collected
  <2>6. Total(am, ids) \in Nat
    BY <2>3, <2>4, TotalPositive
  <2>. QED  BY <2>3, <2>5, <2>6
<1>5. PICK n \in Nat : n = Expected(ids) /\ n = Collected(ids)
  BY <1>4
<1>6. FinancialHealth({m}) = Rating(Expected(ids), Collected(ids))
  BY <1>1 DEF FinancialHealth, Rating
<1>. QED
  <2>1. Rating(Expected(ids), Collected(ids)) = Rating(n, n)
    BY <1>5
  <2>. QED  BY <1>6, <2>1, RatingOfAll

LEMMA ReportsAgree == AsksInv => ArrearsAgree
<1>. SUFFICES ASSUME AsksInv PROVE ArrearsAgree
  OBVIOUS
<1>1. TypeOK /\ StatusTruthful
  BY DEF AsksInv, Inv
<1>2. ASSUME NEW p \in Plans
      PROVE  LET row == DefaulterRegister(p) IN
             /\ row.arrears = Outstanding(p, Nat)
             /\ row.arrears = FoldFunction(+, 0, row.aging)
             /\ row.missed > 0 /\ Kind[p] = "fixed" /\ Rate[p] > 0 => row.arrears > 0
  BY <1>1, RegisterIsSummary, AgedWithoutLoss, MissedOwes
<1>3. \A i \in NextObligation : obligations[i].due >= PaidThrough
  BY <1>1, NextIsNotPaid
<1>4. ASSUME NEW m \in 1..MaxMonth, FinancialHealth({m}) \in {"At Risk", "Critical"}
      PROVE  \E p \in Plans : Outstanding(p, {m}) > 0
  <2>1. m \in Nat
    OBVIOUS
  <2>. QED  BY <1>1, <1>4, <2>1, NothingOwedNoRisk
<1>. QED  BY <1>2, <1>3, <1>4 DEF ArrearsAgree

\* Whatever payments, activations and months have done to a member's rows, in
\* whatever order, the register, the summary, the ageing, the statement and the
\* health rating tell one story of what he owes.
THEOREM ReportsOnArrearsAgree == Spec => []ArrearsAgree
<1>1. AsksInv /\ [Next]_vars => AsksInv'
  BY NextAsks
<1>. QED  BY <1>1, InitAsks, ReportsAgree, PTL DEF Spec
=============================================================================
