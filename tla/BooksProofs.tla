---------------------------- MODULE BooksProofs -----------------------------
(***************************************************************************)
(* Proofs about Books, for any funds, receipts, amounts and handlers, and  *)
(* journals of any length.                                                 *)
(*                                                                         *)
(* BooksInv is inductive: every entry balances, is of one fund, and has    *)
(* only lines that its source accounts for (Sound), and what the transfers *)
(* of some days move comes to nothing (TransfersMatch).  From it follow    *)
(* the two statements about the reports.  A report is a sum over a set of  *)
(* lines: the first two parts are about such sums, the third shows that    *)
(* the queries of the reports are sums over parts of one set, AllLines.    *)
(***************************************************************************)
EXTENDS Books, FiniteSetTheorems, SequenceTheorems, WellFoundedInduction, TLAPS

-----------------------------------------------------------------------------
(* Induction, over numbers and over finite sets.  The set of the numbers or *)
(* of the sets that have the property takes the place of the property.      *)

LEMMA Least == ASSUME NEW S \in SUBSET Nat, S # {} PROVE \E n \in S : \A m \in S : n <= m
<1>1. PICK n \in S : \A m \in S : ~ (<<m, n>> \in OpToRel(<, Nat))
  BY WFMin, NatLessThanWellFounded
<1>2. \A m \in S : ~ (m < n)
  BY <1>1 DEF OpToRel
<1>. QED  BY <1>2

LEMMA NatSets ==
  ASSUME NEW T \in SUBSET Nat, 0 \in T, \A n \in T : n + 1 \in T
  PROVE  \A n \in Nat : n \in T
<1>. SUFFICES ASSUME Nat \ T # {} PROVE FALSE
  OBVIOUS
<1>1. PICK n \in Nat \ T : \A m \in Nat \ T : n <= m
  BY Least
<1>2. n - 1 \in Nat /\ ~(n <= n - 1)
  BY <1>1
<1>3. n - 1 \in T
  BY <1>1, <1>2
<1>4. (n - 1) + 1 = n
  BY <1>1
<1>. QED  BY <1>1, <1>3, <1>4

LEMMA SetsByRemoval ==
  ASSUME NEW S, IsFiniteSet(S), NEW T,
         \A s \in SUBSET S : (\A x \in s : s \ {x} \in T) => s \in T
  PROVE  \A s \in SUBSET S : s \in T
<1>. DEFINE N == {n \in Nat : \E s \in SUBSET S : s \notin T /\ Cardinality(s) = n}
<1>. SUFFICES ASSUME NEW s0 \in SUBSET S, s0 \notin T PROVE FALSE
  OBVIOUS
<1>1. \A s \in SUBSET S : IsFiniteSet(s) /\ Cardinality(s) \in Nat
  BY FS_Subset, FS_CardinalityType
<1>2. N \in SUBSET Nat /\ N # {}
  BY <1>1
<1>3. PICK n \in N : \A m \in N : n <= m
  BY <1>2, Least
<1>4. PICK s \in SUBSET S : s \notin T /\ Cardinality(s) = n
  BY <1>3
<1>5. ASSUME NEW x \in s PROVE s \ {x} \in T
  <2>1. Cardinality(s \ {x}) = n - 1 /\ n \in Nat
    BY <1>1, <1>4, FS_RemoveElement
  <2>2. s \ {x} \in SUBSET S /\ Cardinality(s \ {x}) \in Nat
    BY <1>1
  <2>3. Cardinality(s \ {x}) \notin N
    <3>1. ~(n <= n - 1)
      BY <2>1
    <3>. HIDE DEF N
    <3>. QED  BY <1>3, <2>1, <3>1
  <2>. QED  BY <2>2, <2>3
<1>. QED  BY <1>4, <1>5

\* A function of the subsets of a finite set can be defined by removing, from
\* each, the element c picks.
Foldable(S, V, base, c, F) ==
    /\ IsFiniteSet(S) /\ base \in V
    /\ \A s \in SUBSET S : s # {} => c[s] \in s
    /\ \A s \in SUBSET S : \A v \in V : s # {} => F[s][v] \in V

IsFold(g, S, V, base, c, F) ==
    /\ g \in [SUBSET S -> V]
    /\ \A s \in SUBSET S : g[s] = IF s = {} THEN base ELSE F[s][g[s \ {c[s]}]]

LEMMA FoldExists ==
  ASSUME NEW S, NEW V, NEW base, NEW c, NEW F, Foldable(S, V, base, c, F)
  PROVE  \E g : IsFold(g, S, V, base, c, F)
<1>. USE DEF Foldable
<1>. DEFINE Next1(g) == [s \in SUBSET S |-> IF s = {} THEN base ELSE F[s][g[s \ {c[s]}]]]
            Good(g, n) == \A s \in SUBSET S : Cardinality(s) <= n => g[s] = Next1(g)[s]
            T == {n \in Nat : \E g \in [SUBSET S -> V] : Good(g, n)}
<1>1. \A s \in SUBSET S : IsFiniteSet(s) /\ Cardinality(s) \in Nat
  BY FS_Subset, FS_CardinalityType
<1>2. 0 \in T
  <2>. DEFINE g == [s \in SUBSET S |-> base]
  <2>1. \A s \in SUBSET S : Cardinality(s) <= 0 => s = {}
    BY <1>1, FS_EmptySet
  <2>2. g \in [SUBSET S -> V] /\ Good(g, 0)
    BY <2>1
  <2>. QED  BY <2>2
<1>3. ASSUME NEW n \in T PROVE n + 1 \in T
  <2>1. PICK g \in [SUBSET S -> V] : Good(g, n)
    OBVIOUS
  <2>2. PICK h : h = Next1(g)
    OBVIOUS
  <2>3. \A s \in SUBSET S : s # {} => c[s] \in s /\ s \ {c[s]} \in SUBSET S
    OBVIOUS
  <2>4. h \in [SUBSET S -> V]
    BY <2>2, <2>3
  <2>5. ASSUME NEW s \in SUBSET S, Cardinality(s) <= n + 1 PROVE h[s] = Next1(h)[s]
    <3>1. CASE s = {}
      BY <2>2, <3>1
    <3>2. CASE s # {}
      <4>1. s \ {c[s]} \in SUBSET S /\ Cardinality(s \ {c[s]}) <= n
        <5>1. s \ {c[s]} \in SUBSET S /\ Cardinality(s \ {c[s]}) = Cardinality(s) - 1
          BY <1>1, <2>3, <3>2, FS_RemoveElement
        <5>. QED  BY <1>1, <1>3, <2>5, <5>1
      <4>2. g[s \ {c[s]}] = h[s \ {c[s]}]
        BY <2>1, <2>2, <4>1
      <4>3. h[s] = F[s][g[s \ {c[s]}]]
        BY <2>2, <3>2
      <4>. QED  BY <3>2, <4>2, <4>3
    <3>. QED  BY <3>1, <3>2
  <2>6. Good(h, n + 1)
    BY <2>5
  <2>7. n + 1 \in Nat
    OBVIOUS
  <2>. HIDE DEF Good
  <2>. QED  BY <2>4, <2>6, <2>7
<1>4. Cardinality(S) \in Nat /\ \A s \in SUBSET S : Cardinality(s) <= Cardinality(S)
  BY FS_CardinalityType, FS_Subset
<1>5. Cardinality(S) \in T
  <2>1. T \in SUBSET Nat
    OBVIOUS
  <2>. HIDE DEF T
  <2>. QED  BY <1>2, <1>3, <1>4, <2>1, NatSets
<1>6. PICK g \in [SUBSET S -> V] : Good(g, Cardinality(S))
  BY <1>5
<1>7. \A s \in SUBSET S : g[s] = IF s = {} THEN base ELSE F[s][g[s \ {c[s]}]]
  BY <1>4, <1>6
<1>. QED  BY <1>7 DEF IsFold

-----------------------------------------------------------------------------
(* Sums of a function over a finite set. *)

Total(f, S) == MapThenSumSet(LAMBDA x : f[x], S)

\* The sums over the subsets of S, as the fold computes them.
IsTotals(g, f, S) ==
    \A s \in SUBSET S :
        /\ g[s] \in Int
        /\ g[s] = IF s = {} THEN 0
                  ELSE f[CHOOSE x \in s : TRUE] + g[s \ {CHOOSE x \in s : TRUE}]

LEMMA TotalsUnique ==
  ASSUME NEW S, IsFiniteSet(S), NEW f, NEW g, NEW R \in SUBSET S, NEW h,
         IsTotals(g, f, S), IsTotals(h, f, R)
  PROVE  g[R] = h[R]
<1>. DEFINE T == {s \in SUBSET R : g[s] = h[s]}
<1>1. IsFiniteSet(R)
  BY FS_Subset
<1>2. ASSUME NEW s \in SUBSET R, \A x \in s : s \ {x} \in T PROVE s \in T
  <2>1. CASE s = {}
    BY <2>1 DEF IsTotals
  <2>2. CASE s # {}
    <3>1. PICK c \in s : c = CHOOSE x \in s : TRUE
      BY <2>2
    <3>2. g[s \ {c}] = h[s \ {c}]
      BY <1>2
    <3>3. g[s] = f[c] + g[s \ {c}] /\ h[s] = f[c] + h[s \ {c}]
      BY <2>2, <3>1 DEF IsTotals
    <3>. QED  BY <3>2, <3>3
  <2>. QED  BY <2>1, <2>2
<1>. HIDE DEF T
<1>3. R \in T
  BY <1>1, <1>2, SetsByRemoval
<1>. QED  BY <1>3 DEF T

LEMMA TotalsExist ==
  ASSUME NEW S, IsFiniteSet(S), NEW f, \A x \in S : f[x] \in Int
  PROVE  \E g : IsTotals(g, f, S) /\ Total(f, S) = g[S]
<1>. DEFINE c == [s \in SUBSET S |-> CHOOSE x \in s : TRUE]
            F == [s \in SUBSET S |-> [v \in Int |-> f[CHOOSE x \in s : TRUE] + v]]
            Rec(g) == [s \in SUBSET S |->
                          IF s = {} THEN 0
                          ELSE f[CHOOSE x \in s : TRUE] + g[s \ {CHOOSE x \in s : TRUE}]]
<1>1. \A s \in SUBSET S : s # {} => (CHOOSE x \in s : TRUE) \in s
  OBVIOUS
<1>2. \A s \in SUBSET S : s # {} => c[s] \in s
  BY <1>1
<1>3. \A s \in SUBSET S : \A v \in Int : s # {} => F[s][v] \in Int
  BY <1>1
<1>4. PICK g \in [SUBSET S -> Int] : \A s \in SUBSET S :
         g[s] = IF s = {} THEN 0 ELSE F[s][g[s \ {c[s]}]]
  <2>. HIDE DEF F, c, Rec
  <2>1. Foldable(S, Int, 0, c, F)
    BY <1>2, <1>3 DEF Foldable
  <2>2. PICK g : IsFold(g, S, Int, 0, c, F)
    BY <2>1, FoldExists
  <2>. QED  BY <2>2 DEF IsFold
<1>5. g = Rec(g)
  <2>1. \A s \in SUBSET S : g[s] = Rec(g)[s]
    <3>. SUFFICES ASSUME NEW s \in SUBSET S PROVE g[s] = Rec(g)[s]
      OBVIOUS
    <3>1. g[s \ {c[s]}] \in Int
      OBVIOUS
    <3>. QED  BY <1>4, <3>1
  <2>. QED  BY <2>1
<1>6. PICK r : r = Rec(r) /\ r = CHOOSE h : h = Rec(h)
  BY <1>5
<1>7. \A s \in SUBSET S : r[s] = IF s = {} THEN 0 ELSE
             f[CHOOSE x \in s : TRUE] + r[s \ {CHOOSE x \in s : TRUE}]
  BY <1>6
<1>8. \A s \in SUBSET S : r[s] \in Int
  <2>. DEFINE T == {s \in SUBSET S : r[s] \in Int}
  <2>1. ASSUME NEW s \in SUBSET S, \A x \in s : s \ {x} \in T PROVE s \in T
    <3>1. CASE s = {}
      <4>1. r[s] = 0
        BY <1>7, <3>1
      <4>2. r[s] \in Int
        BY <4>1
      <4>. QED  BY <4>2
    <3>2. CASE s # {}
      <4>1. PICK x \in s : x = CHOOSE y \in s : TRUE
        BY <3>2
      <4>2. r[s] = f[x] + r[s \ {x}]
        BY <1>7, <3>2, <4>1
      <4>3. r[s \ {x}] \in Int /\ f[x] \in Int
        BY <2>1
      <4>4. r[s] \in Int
        <5>1. \A a, b \in Int : a + b \in Int
          OBVIOUS
        <5>. QED  BY <4>2, <4>3, <5>1
      <4>. QED  BY <4>4
    <3>. QED  BY <3>1, <3>2
  <2>2. \A s \in SUBSET S : s \in T
    <3>. HIDE DEF T
    <3>. QED  BY <2>1, SetsByRemoval
  <2>. QED  BY <2>2
<1>9. Total(f, S) = r[S]
  BY <1>6, Zenon DEF Total, MapThenSumSet, MapThenFoldSet
<1>. QED  BY <1>7, <1>8, <1>9 DEF IsTotals

\* The sum does not depend on the order in which elements are picked.
LEMMA TotalRemove ==
  ASSUME NEW S, IsFiniteSet(S), NEW f, \A x \in S : f[x] \in Int, NEW y \in S
  PROVE  /\ Total(f, S) = f[y] + Total(f, S \ {y})
         /\ Total(f, S) \in Int /\ Total(f, S \ {y}) \in Int
<1>1. PICK g : IsTotals(g, f, S) /\ Total(f, S) = g[S]
  BY TotalsExist
<1>2. IsFiniteSet(S \ {y}) /\ \A x \in S \ {y} : f[x] \in Int
  BY FS_RemoveElement
<1>3. PICK h : IsTotals(h, f, S \ {y}) /\ Total(f, S \ {y}) = h[S \ {y}]
  BY <1>2, TotalsExist
<1>4. g[S \ {y}] = Total(f, S \ {y})
  BY <1>1, <1>3, TotalsUnique
<1>. DEFINE T == {s \in SUBSET S : \A x \in s : g[s] = f[x] + g[s \ {x}]}
<1>5. ASSUME NEW s \in SUBSET S, \A x \in s : s \ {x} \in T PROVE s \in T
  <2>. SUFFICES ASSUME NEW x \in s PROVE g[s] = f[x] + g[s \ {x}]
    OBVIOUS
  <2>1. PICK c \in s : c = CHOOSE z \in s : TRUE
    OBVIOUS
  <2>2. g[s] = f[c] + g[s \ {c}]
    BY <1>1, <2>1 DEF IsTotals
  <2>3. CASE x = c
    BY <2>2, <2>3
  <2>4. CASE x # c
    <3>1. g[s \ {c}] = f[x] + g[(s \ {c}) \ {x}]
      BY <1>5, <2>4
    <3>2. g[s \ {x}] = f[c] + g[(s \ {x}) \ {c}]
      BY <1>5, <2>4
    <3>3. g[(s \ {c}) \ {x}] = g[(s \ {x}) \ {c}]
      <4>1. (s \ {c}) \ {x} = (s \ {x}) \ {c}
        OBVIOUS
      <4>. QED  BY <4>1
    <3>4. f[x] \in Int /\ f[c] \in Int /\ g[(s \ {x}) \ {c}] \in Int
      BY <1>1 DEF IsTotals
    <3>5. PICK n \in Int : n = g[(s \ {x}) \ {c}]
      BY <3>4
    <3>. QED  BY <2>2, <3>1, <3>2, <3>3, <3>4, <3>5
  <2>. QED  BY <2>3, <2>4
<1>6. S \in T
  <2>1. S \in SUBSET S
    OBVIOUS
  <2>. HIDE DEF T
  <2>. QED  BY <1>5, <2>1, SetsByRemoval
<1>7. g[S] \in Int /\ g[S \ {y}] \in Int
  BY <1>1 DEF IsTotals
<1>. QED  BY <1>1, <1>4, <1>6, <1>7

LEMMA TotalEmpty == ASSUME NEW f PROVE Total(f, {}) = 0
<1>1. PICK g : IsTotals(g, f, {}) /\ Total(f, {}) = g[{}]
  BY TotalsExist, FS_EmptySet
<1>. QED  BY <1>1 DEF IsTotals

LEMMA TotalType ==
  ASSUME NEW S, IsFiniteSet(S), NEW f, \A x \in S : f[x] \in Int
  PROVE  Total(f, S) \in Int
<1>1. PICK g : IsTotals(g, f, S) /\ Total(f, S) = g[S]
  BY TotalsExist
<1>. QED  BY <1>1 DEF IsTotals

LEMMA TotalAdd ==
  ASSUME NEW S, IsFiniteSet(S), NEW f, NEW g, NEW h,
         \A x \in S : f[x] \in Int /\ g[x] \in Int /\ h[x] = f[x] + g[x]
  PROVE  Total(h, S) = Total(f, S) + Total(g, S)
<1>. DEFINE T == {s \in SUBSET S : Total(h, s) = Total(f, s) + Total(g, s)}
<1>1. ASSUME NEW s \in SUBSET S, \A x \in s : s \ {x} \in T PROVE s \in T
  <2>1. CASE s = {}
    BY <2>1, TotalEmpty
  <2>2. CASE s # {}
    <3>1. PICK x \in s : TRUE
      BY <2>2
    <3>2. IsFiniteSet(s) /\ \A z \in s : h[z] \in Int /\ f[z] \in Int /\ g[z] \in Int
      BY FS_Subset
    <3>3. /\ Total(h, s) = h[x] + Total(h, s \ {x})
          /\ Total(f, s) = f[x] + Total(f, s \ {x})
          /\ Total(g, s) = g[x] + Total(g, s \ {x})
          /\ Total(f, s \ {x}) \in Int /\ Total(g, s \ {x}) \in Int
      BY <3>2, TotalRemove
    <3>4. Total(h, s \ {x}) = Total(f, s \ {x}) + Total(g, s \ {x})
      BY <1>1
    <3>. QED  BY <3>2, <3>3, <3>4
  <2>. QED  BY <2>1, <2>2
<1>2. S \in T
  <2>1. S \in SUBSET S
    OBVIOUS
  <2>. HIDE DEF T
  <2>. QED  BY <1>1, <2>1, SetsByRemoval
<1>. QED  BY <1>2

LEMMA TotalEqual ==
  ASSUME NEW S, IsFiniteSet(S), NEW f, NEW h, \A x \in S : f[x] \in Int /\ h[x] = f[x]
  PROVE  Total(h, S) = Total(f, S)
<1>. DEFINE g == [x \in S |-> 0]
            T == {s \in SUBSET S : Total(g, s) = 0}
<1>1. ASSUME NEW s \in SUBSET S, \A x \in s : s \ {x} \in T PROVE s \in T
  <2>1. CASE s = {}
    BY <2>1, TotalEmpty
  <2>2. CASE s # {}
    <3>1. PICK x \in s : TRUE
      BY <2>2
    <3>2. IsFiniteSet(s) /\ g[x] = 0 /\ \A z \in s : g[z] \in Int
      BY FS_Subset
    <3>3. Total(g, s) = g[x] + Total(g, s \ {x})
      <4>. HIDE DEF g
      <4>. QED  BY <3>2, TotalRemove
    <3>4. Total(g, s \ {x}) = 0
      BY <1>1
    <3>. QED  BY <3>2, <3>3, <3>4
  <2>. QED  BY <2>1, <2>2
<1>2. Total(g, S) = 0
  <2>1. S \in T
    <3>1. S \in SUBSET S
      OBVIOUS
    <3>. HIDE DEF T
    <3>. QED  BY <1>1, <3>1, SetsByRemoval
  <2>. QED  BY <2>1
<1>3. \A x \in S : g[x] \in Int /\ h[x] = f[x] + g[x]
  OBVIOUS
<1>4. Total(h, S) = Total(f, S) + Total(g, S)
  <2>. HIDE DEF g
  <2>. QED  BY <1>3, TotalAdd
<1>. QED  BY <1>2, <1>4, TotalType

\* Elements of which nothing is added can be left out.
LEMMA TotalPart ==
  ASSUME NEW R, IsFiniteSet(R), NEW S \in SUBSET R, NEW f, NEW h,
         \A x \in R : f[x] \in Int,
         \A x \in R : f[x] = IF x \in S THEN h[x] ELSE 0
  PROVE  Total(f, R) = Total(h, S)
<1>. DEFINE T == {s \in SUBSET R : Total(f, s) = Total(h, s \cap S)}
<1>1. ASSUME NEW s \in SUBSET R, \A x \in s : s \ {x} \in T PROVE s \in T
  <2>1. CASE s = {}
    <3>1. s \cap S = {}
      BY <2>1
    <3>. QED  BY <2>1, <3>1, TotalEmpty
  <2>2. CASE s # {}
    <3>1. PICK x \in s : TRUE
      BY <2>2
    <3>2. /\ IsFiniteSet(s) /\ \A z \in s : f[z] \in Int
          /\ IsFiniteSet(s \cap S) /\ \A z \in s \cap S : h[z] \in Int
      BY FS_Subset
    <3>3. /\ Total(f, s) = f[x] + Total(f, s \ {x})
          /\ Total(f, s \ {x}) \in Int /\ f[x] \in Int
      BY <3>2, TotalRemove
    <3>4. Total(f, s \ {x}) = Total(h, (s \ {x}) \cap S)
      BY <1>1
    <3>5. CASE x \in S
      <4>1. (s \ {x}) \cap S = (s \cap S) \ {x} /\ x \in s \cap S
        BY <3>5
      <4>2. Total(h, s \cap S) = h[x] + Total(h, (s \cap S) \ {x})
        BY <3>2, <4>1, TotalRemove
      <4>3. Total(f, s \ {x}) = Total(h, (s \cap S) \ {x}) /\ h[x] = f[x]
        BY <3>4, <3>5, <4>1
      <4>. QED  BY <3>3, <4>2, <4>3
    <3>6. CASE x \notin S
      <4>1. (s \ {x}) \cap S = s \cap S
        BY <3>6
      <4>2. Total(f, s \ {x}) = Total(h, s \cap S) /\ f[x] = 0
        BY <3>4, <3>6, <4>1
      <4>. QED  BY <3>3, <4>2
    <3>. QED  BY <3>5, <3>6
  <2>. QED  BY <2>1, <2>2
<1>2. R \in T
  <2>1. R \in SUBSET R
    OBVIOUS
  <2>. HIDE DEF T
  <2>. QED  BY <1>1, <2>1, SetsByRemoval
<1>3. R \cap S = S
  OBVIOUS
<1>. QED  BY <1>2, <1>3

LEMMA SumTotal == ASSUME NEW f PROVE SumFunction(f) = Total(f, DOMAIN f)
  BY DEF SumFunction, SumFunctionOnSet, FoldFunctionOnSet, Total, MapThenSumSet

\* The sum over two sets that have nothing in common.
LEMMA TotalUnion ==
  ASSUME NEW P, NEW Q, IsFiniteSet(P), IsFiniteSet(Q), P \cap Q = {},
         NEW f, \A x \in P \cup Q : f[x] \in Int
  PROVE  Total(f, P \cup Q) = Total(f, P) + Total(f, Q)
<1>. DEFINE p == [x \in P \cup Q |-> IF x \in P THEN f[x] ELSE 0]
            q == [x \in P \cup Q |-> IF x \in Q THEN f[x] ELSE 0]
<1>1. IsFiniteSet(P \cup Q) /\ P \in SUBSET (P \cup Q) /\ Q \in SUBSET (P \cup Q)
  BY FS_Union
<1>2. \A x \in P \cup Q :
         /\ p[x] \in Int /\ p[x] = IF x \in P THEN f[x] ELSE 0
         /\ q[x] \in Int /\ q[x] = IF x \in Q THEN f[x] ELSE 0
  OBVIOUS
<1>3. \A x \in P \cup Q : f[x] = p[x] + q[x]
  <2>. SUFFICES ASSUME NEW x \in P \cup Q PROVE f[x] = p[x] + q[x]
    OBVIOUS
  <2>1. x \in P \/ x \in Q
    OBVIOUS
  <2>. HIDE DEF p, q
  <2>. QED  BY <1>2, <2>1
<1>. HIDE DEF p, q
<1>4. Total(p, P \cup Q) = Total(f, P)
  BY <1>1, <1>2, TotalPart
<1>5. Total(q, P \cup Q) = Total(f, Q)
  BY <1>1, <1>2, TotalPart
<1>6. Total(f, P \cup Q) = Total(p, P \cup Q) + Total(q, P \cup Q)
  BY <1>1, <1>2, <1>3, TotalAdd
<1>. QED  BY <1>4, <1>5, <1>6

LEMMA TotalZero ==
  ASSUME NEW S, IsFiniteSet(S), NEW f, \A x \in S : f[x] = 0
  PROVE  Total(f, S) = 0
<1>1. {} \in SUBSET S /\ \A x \in S : f[x] \in Int
  OBVIOUS
<1>2. \A x \in S : f[x] = IF x \in {} THEN f[x] ELSE 0
  OBVIOUS
<1>3. Total(f, S) = Total(f, {})
  BY <1>1, <1>2, TotalPart
<1>. QED  BY <1>3, TotalEmpty

LEMMA NegatedZero ==
  ASSUME NEW S, IsFiniteSet(S), NEW f, NEW g, \A x \in S : f[x] \in Int /\ g[x] = -f[x],
         Total(f, S) = 0
  PROVE  Total(g, S) = 0
<1>1. PICK h : h = [x \in S |-> 0]
  OBVIOUS
<1>2. \A x \in S : g[x] \in Int /\ h[x] = 0 /\ h[x] = f[x] + g[x]
  BY <1>1
<1>3. Total(h, S) = Total(f, S) + Total(g, S) /\ Total(h, S) = 0
  BY <1>2, TotalAdd, TotalZero
<1>. QED  BY <1>2, <1>3, TotalType

\* The difference of two sums.
LEMMA TotalMinus ==
  ASSUME NEW S, IsFiniteSet(S), NEW f, NEW g, NEW h,
         \A x \in S : f[x] \in Int /\ g[x] \in Int /\ h[x] = f[x] - g[x]
  PROVE  Total(h, S) = Total(f, S) - Total(g, S)
<1>1. \A x \in S : h[x] \in Int /\ f[x] = h[x] + g[x]
  OBVIOUS
<1>2. Total(f, S) = Total(h, S) + Total(g, S)
  BY <1>1, TotalAdd
<1>. QED  BY <1>1, <1>2, TotalType

LEMMA TotalNatural ==
  ASSUME NEW S, IsFiniteSet(S), NEW f, \A x \in S : f[x] \in Nat
  PROVE  Total(f, S) \in Nat
<1>. DEFINE T == {s \in SUBSET S : Total(f, s) \in Nat}
<1>1. ASSUME NEW s \in SUBSET S, \A x \in s : s \ {x} \in T PROVE s \in T
  <2>1. CASE s = {}
    BY <2>1, TotalEmpty
  <2>2. CASE s # {}
    <3>1. PICK x \in s : TRUE
      BY <2>2
    <3>2. IsFiniteSet(s) /\ \A z \in s : f[z] \in Int
      BY FS_Subset
    <3>3. Total(f, s) = f[x] + Total(f, s \ {x}) /\ f[x] \in Nat
      BY <3>2, TotalRemove
    <3>4. Total(f, s \ {x}) \in Nat
      BY <1>1
    <3>. QED  BY <3>3, <3>4
  <2>. QED  BY <2>1, <2>2
<1>2. S \in T
  <2>1. S \in SUBSET S
    OBVIOUS
  <2>. HIDE DEF T
  <2>. QED  BY <1>1, <2>1, SetsByRemoval
<1>. QED  BY <1>2

LEMMA FiniteImage ==
  ASSUME NEW S, IsFiniteSet(S), NEW s
  PROVE  IsFiniteSet({s[x] : x \in S})
<1>. DEFINE im(A) == {s[x] : x \in A}
            T == {A \in SUBSET S : IsFiniteSet(im(A))}
<1>0. \A A \in SUBSET S : A \in T <=> IsFiniteSet(im(A))
  <2>. HIDE DEF im
  <2>. QED  OBVIOUS
<1>1. ASSUME NEW A \in SUBSET S, \A x \in A : A \ {x} \in T PROVE A \in T
  <2>1. CASE A = {}
    <3>1. im(A) = {}
      BY <2>1
    <3>2. IsFiniteSet(im(A))
      <4>. HIDE DEF im
      <4>. QED  BY <3>1, FS_EmptySet
    <3>. HIDE DEF T, im
    <3>. QED  BY <1>0, <3>2
  <2>2. CASE A # {}
    <3>1. PICK x \in A : TRUE
      BY <2>2
    <3>2. im(A) = im(A \ {x}) \cup {s[x]}
      OBVIOUS
    <3>4. IsFiniteSet(im(A \ {x})) /\ A \ {x} \in SUBSET S
      <4>. HIDE DEF T, im
      <4>. QED  BY <1>0, <1>1
    <3>3. IsFiniteSet(im(A))
      <4>1. PICK B, y : B = im(A \ {x}) /\ y = s[x]
        OBVIOUS
      <4>. HIDE DEF T, im
      <4>2. IsFiniteSet(B \cup {y})
        BY <3>4, <4>1, FS_AddElement
      <4>. QED  BY <3>2, <4>1, <4>2
    <3>. HIDE DEF T, im
    <3>. QED  BY <1>0, <3>3
  <2>. QED  BY <2>1, <2>2
<1>2. S \in T
  <2>1. S \in SUBSET S
    OBVIOUS
  <2>. HIDE DEF T
  <2>. QED  BY <1>1, <2>1, SetsByRemoval
<1>. QED
  <2>1. S \in SUBSET S
    OBVIOUS
  <2>2. IsFiniteSet(im(S))
    <3>. HIDE DEF T, im
    <3>. QED  BY <1>0, <1>2, <2>1
  <2>. QED  BY <2>2

\* A sum, and the same sum over other names for the elements.
LEMMA TotalImage ==
  ASSUME NEW S, IsFiniteSet(S), NEW s, \A x, y \in S : s[x] = s[y] => x = y,
         NEW f, NEW h, \A x \in S : f[s[x]] \in Int /\ h[x] = f[s[x]]
  PROVE  /\ IsFiniteSet({s[x] : x \in S})
         /\ Total(h, S) = Total(f, {s[x] : x \in S})
<1>. DEFINE im(A) == {s[x] : x \in A}
            T == {A \in SUBSET S : IsFiniteSet(im(A)) /\ Total(h, A) = Total(f, im(A))}
<1>1. ASSUME NEW A \in SUBSET S, \A x \in A : A \ {x} \in T PROVE A \in T
  <2>1. CASE A = {}
    <3>1. im(A) = {}
      BY <2>1
    <3>2. Total(h, A) = 0 /\ Total(f, im(A)) = 0 /\ IsFiniteSet(im(A))
      <4>. HIDE DEF im
      <4>. QED  BY <2>1, <3>1, TotalEmpty, FS_EmptySet
    <3>. QED  BY <3>2
  <2>2. CASE A # {}
    <3>1. PICK x \in A : TRUE
      BY <2>2
    <3>2. im(A \ {x}) = im(A) \ {s[x]} /\ s[x] \in im(A) /\ im(A) = im(A \ {x}) \cup {s[x]}
      OBVIOUS
    <3>3. IsFiniteSet(im(A \ {x})) /\ Total(h, A \ {x}) = Total(f, im(A \ {x}))
      BY <1>1
    <3>4. PICK R, B : R = im(A) /\ B = im(A \ {x})
      OBVIOUS
    <3>5. IsFiniteSet(R) /\ B = R \ {s[x]} /\ s[x] \in R
      <4>. HIDE DEF im
      <4>1. IsFiniteSet(B) /\ R = B \cup {s[x]} /\ B = R \ {s[x]} /\ s[x] \in R
        BY <3>2, <3>3, <3>4
      <4>2. IsFiniteSet(B \cup {s[x]})
        BY <4>1, FS_AddElement
      <4>. QED  BY <4>1, <4>2
    <3>6. \A z \in R : f[z] \in Int
      <4>1. \A z \in R : \E y \in S : z = s[y]
        BY <3>4
      <4>. QED  BY <4>1
    <3>7. Total(f, R) = f[s[x]] + Total(f, R \ {s[x]})
      BY <3>5, <3>6, TotalRemove
    <3>8. IsFiniteSet(A) /\ \A z \in A : h[z] \in Int
      BY FS_Subset
    <3>9. Total(h, A) = h[x] + Total(h, A \ {x})
      BY <3>8, TotalRemove
    <3>10. Total(h, A) = Total(f, R)
      BY <3>3, <3>4, <3>5, <3>7, <3>9
    <3>. QED  BY <3>4, <3>5, <3>10
  <2>. QED  BY <2>1, <2>2
<1>2. S \in T
  <2>1. S \in SUBSET S
    OBVIOUS
  <2>. HIDE DEF T
  <2>. QED  BY <1>1, <2>1, SetsByRemoval
<1>. QED  BY <1>2

\* A sum, taken group by group: part[d] holds the elements with the key d.
Grouped(U, D, key, f, part, g) ==
    /\ IsFiniteSet(U) /\ IsFiniteSet(D)
    /\ \A u \in U : key[u] \in D
    /\ \A u \in U : f[u] \in Int
    /\ \A d \in D : \A u : u \in part[d] <=> u \in U /\ key[u] = d
    /\ \A d \in D : g[d] = Total(f, part[d])

LEMMA TotalByKey ==
  ASSUME NEW U, NEW D, NEW key, NEW f, NEW part, NEW g, Grouped(U, D, key, f, part, g)
  PROVE  Total(f, U) = Total(g, D)
<1>. USE DEF Grouped
<1>. DEFINE of(A) == {u \in U : key[u] \in A}
            T == {A \in SUBSET D : Total(f, of(A)) = Total(g, A)}
<1>0. ASSUME NEW A
      PROVE  IsFiniteSet(of(A)) /\ \A u \in of(A) : f[u] \in Int
  <2>1. of(A) \in SUBSET U
    OBVIOUS
  <2>. QED  BY <2>1, FS_Subset
<1>1. ASSUME NEW A \in SUBSET D, \A d \in A : A \ {d} \in T PROVE A \in T
  <2>1. CASE A = {}
    <3>1. of(A) = {}
      BY <2>1
    <3>2. Total(f, of(A)) = 0 /\ Total(g, A) = 0
      <4>. HIDE DEF of
      <4>. QED  BY <2>1, <3>1, TotalEmpty
    <3>. QED  BY <3>2
  <2>2. CASE A # {}
    <3>1. PICK d \in A : TRUE
      BY <2>2
    <3>2. PICK P, Q, R : P = of(A) /\ Q = of(A \ {d}) /\ R = part[d]
      OBVIOUS
    <3>3. P = Q \cup R /\ Q \cap R = {} /\ R = of({d})
      BY <3>2
    <3>4. /\ IsFiniteSet(Q) /\ \A u \in Q : f[u] \in Int
          /\ IsFiniteSet(R) /\ \A u \in R : f[u] \in Int
      <4>. HIDE DEF of
      <4>. QED  BY <1>0, <3>2, <3>3
    <3>5. Total(f, P) = Total(f, Q) + Total(f, R)
      BY <3>3, <3>4, TotalUnion
    <3>6. Total(f, Q) = Total(g, A \ {d})
      BY <1>1, <3>2
    <3>7. Total(f, R) = g[d] /\ g[d] \in Int
      BY <3>2, <3>4, TotalType
    <3>8. IsFiniteSet(A) /\ \A e \in A : g[e] \in Int
      <4>1. ASSUME NEW e \in A PROVE g[e] \in Int
        <5>1. part[e] \in SUBSET U
          OBVIOUS
        <5>2. PICK E : E = part[e]
          OBVIOUS
        <5>3. IsFiniteSet(E) /\ \A u \in E : f[u] \in Int
          BY <5>1, <5>2, FS_Subset
        <5>. QED  BY <5>2, <5>3, TotalType
      <4>. QED  BY <4>1, FS_Subset
    <3>9. Total(g, A) = g[d] + Total(g, A \ {d}) /\ Total(g, A \ {d}) \in Int
      BY <3>8, TotalRemove
    <3>. QED  BY <3>2, <3>5, <3>6, <3>7, <3>9
  <2>. QED  BY <2>1, <2>2
<1>2. D \in T
  <2>1. D \in SUBSET D
    OBVIOUS
  <2>. HIDE DEF T
  <2>. QED  BY <1>1, <2>1, SetsByRemoval
<1>3. of(D) = U
  OBVIOUS
<1>. QED  BY <1>2, <1>3

-----------------------------------------------------------------------------
(* What every entry is, and what the entries are together. *)

\* The Cash that an entry moves, and what it moves as a transfer that was not
\* made to reverse another, on some days.
CashMoved(e) == SumFunction([l \in {m \in e.lines : m.account = "Cash"} |-> l.debit - l.credit])
Transferred(e, ds) ==
    IF e.source = "fund_transfer" /\ ~e.reversal /\ e.day \in ds THEN CashMoved(e) ELSE 0

Balances(lines) == SumFunction([l \in lines |-> l.debit - l.credit]) = 0

\* A line is on an account, and on a side, that the source of its entry accounts
\* for; of an entry that reverses another it may be on either side.
Accounted(e, l) ==
    /\ l.account = "Fund Equity" => e.source = "fund_transfer"
    /\ l.account \in Incomes => e.source \in Contribution
    /\ ~e.reversal =>
          /\ l.account \in Incomes => l.debit = 0
          /\ l.account = "Benefits Expense" => l.credit = 0
          /\ l.account = "Cash" /\ e.source \in Contribution => l.credit = 0
          /\ l.account = "Cash" /\ e.source \in Disbursement => l.debit = 0

Sound(e) ==
    /\ e \in Entry
    /\ IsFiniteSet(e.lines)
    /\ Balances(e.lines)
    /\ \E f \in Funds : \A l \in e.lines : l.fund = f
    /\ \A l \in e.lines : Accounted(e, l)

\* A transfer takes from one fund what it gives another, on the same day.
TransfersMatch ==
    \A ds \in SUBSET Days :
        SumFunction([i \in DOMAIN entries |-> Transferred(entries[i], ds)]) = 0

BooksInv ==
    /\ TypeOK
    /\ \A i \in DOMAIN entries : Sound(entries[i])
    /\ TransfersMatch

LEMMA EntriesType ==
  ASSUME TypeOK
  PROVE  /\ Len(entries) \in Nat /\ DOMAIN entries = 1..Len(entries)
         /\ IsFiniteSet(DOMAIN entries)
         /\ \A i \in DOMAIN entries : entries[i] \in Entry
<1>1. entries \in Seq(Entry)
  BY DEF TypeOK
<1>2. Len(entries) \in Nat /\ DOMAIN entries = 1..Len(entries)
  BY <1>1
<1>3. IsFiniteSet(1..Len(entries))
  BY <1>2, FS_Interval
<1>. QED  BY <1>1, <1>2, <1>3

LEMMA TransferredType ==
  ASSUME NEW e, Sound(e), NEW ds
  PROVE  CashMoved(e) \in Int /\ Transferred(e, ds) \in Int
<1>1. PICK S, f : S = {m \in e.lines : m.account = "Cash"} /\ f = [l \in S |-> l.debit - l.credit]
  OBVIOUS
<1>2. S \in SUBSET e.lines /\ IsFiniteSet(S) /\ \A l \in S : l \in Line
  BY <1>1, FS_Subset DEF Sound, Entry
<1>3. DOMAIN f = S /\ \A l \in S : f[l] \in Int
  BY <1>1, <1>2 DEF Line
<1>4. Total(f, S) \in Int
  BY <1>2, <1>3, TotalType
<1>5. CashMoved(e) = Total(f, S)
  BY <1>1, <1>3, SumTotal DEF CashMoved
<1>. QED  BY <1>4, <1>5 DEF Transferred

-----------------------------------------------------------------------------
(* The queries, as sums over the lines of the ledger. *)

Pairs == Nat \X Line
Debits  == [x \in Pairs |-> x[2].debit]
Credits == [x \in Pairs |-> x[2].credit]
Nets    == [x \in Pairs |-> x[2].debit - x[2].credit]
AllLines == LinesOn(Funds, Accounts)

LEMMA LinesIn ==
  ASSUME NEW fs, NEW acs, NEW x
  PROVE  x \in LinesOn(fs, acs) <=>
            \E i \in DOMAIN entries : \E l \in entries[i].lines :
               x = <<i, l>> /\ l.fund \in fs /\ l.account \in acs
<1>. DEFINE row(i) == {<<i, l>> : l \in {m \in entries[i].lines :
                                           m.fund \in fs /\ m.account \in acs}}
<1>1. LinesOn(fs, acs) = UNION {row(i) : i \in DOMAIN entries}
  BY DEF LinesOn
<1>2. x \in UNION {row(i) : i \in DOMAIN entries} <=> \E i \in DOMAIN entries : x \in row(i)
  <2>. HIDE DEF row
  <2>. QED  OBVIOUS
<1>3. \A i : x \in row(i) <=> \E l \in entries[i].lines :
                  x = <<i, l>> /\ l.fund \in fs /\ l.account \in acs
  OBVIOUS
<1>. HIDE DEF row
<1>. QED  BY <1>1, <1>2, <1>3

LEMMA AllLinesType ==
  ASSUME BooksInv
  PROVE  /\ IsFiniteSet(AllLines) /\ AllLines \in SUBSET Pairs
         /\ \A x \in AllLines : /\ x[1] \in DOMAIN entries /\ x[2] \in entries[x[1]].lines
                                /\ x = <<x[1], x[2]>> /\ x[2] \in Line
                                /\ Sound(entries[x[1]]) /\ entries[x[1]] \in Entry
         /\ \A fs, acs : \A x : x \in LinesOn(fs, acs) <=>
               x \in AllLines /\ x[2].fund \in fs /\ x[2].account \in acs
<1>0. TypeOK /\ \A i \in DOMAIN entries : Sound(entries[i])
  BY DEF BooksInv
<1>1. /\ DOMAIN entries \in SUBSET Nat /\ IsFiniteSet(DOMAIN entries)
      /\ \A i \in DOMAIN entries : entries[i] \in Entry
  BY <1>0, EntriesType
<1>2. \A i \in DOMAIN entries : \A l \in entries[i].lines :
         l \in Line /\ l.fund \in Funds /\ l.account \in Accounts
  BY <1>1 DEF Entry, Line
<1>3. \A x : x \in AllLines <=> \E i \in DOMAIN entries : \E l \in entries[i].lines : x = <<i, l>>
  BY <1>2, LinesIn DEF AllLines
<1>4. \A x \in AllLines : /\ x[1] \in DOMAIN entries /\ x[2] \in entries[x[1]].lines
                          /\ x = <<x[1], x[2]>> /\ x[2] \in Line
  BY <1>2, <1>3
<1>5. IsFiniteSet(AllLines)
  <2>. DEFINE row(i) == {<<i, l>> : l \in entries[i].lines}
  <2>1. \A i \in DOMAIN entries : IsFiniteSet(row(i))
    <3>1. ASSUME NEW i \in DOMAIN entries PROVE IsFiniteSet(row(i))
      <4>1. IsFiniteSet(entries[i].lines)
        BY <1>0 DEF Sound
      <4>2. PICK s : s = [l \in entries[i].lines |-> <<i, l>>]
        OBVIOUS
      <4>3. row(i) = {s[l] : l \in entries[i].lines}
        BY <4>2
      <4>. HIDE DEF row
      <4>. QED  BY <4>1, <4>3, FiniteImage
    <3>. QED  BY <3>1
  <2>2. AllLines = UNION {row(i) : i \in DOMAIN entries}
    BY <1>3
  <2>3. IsFiniteSet({row(i) : i \in DOMAIN entries})
    <3>1. PICK s : s = [i \in DOMAIN entries |-> row(i)]
      OBVIOUS
    <3>2. {row(i) : i \in DOMAIN entries} = {s[i] : i \in DOMAIN entries}
      BY <3>1
    <3>. HIDE DEF row
    <3>. QED  BY <1>1, <3>2, FiniteImage
  <2>4. PICK R : R = {row(i) : i \in DOMAIN entries}
    OBVIOUS
  <2>5. \A A \in R : IsFiniteSet(A)
    BY <2>1, <2>4
  <2>. HIDE DEF row
  <2>. QED  BY <2>2, <2>3, <2>4, <2>5, FS_UNION
<1>6. AllLines \in SUBSET Pairs
  <2>1. \A x \in AllLines : <<x[1], x[2]>> \in Pairs
    BY <1>1, <1>4 DEF Pairs
  <2>. QED  BY <1>4, <2>1
<1>7. \A fs, acs : \A x : x \in LinesOn(fs, acs) <=>
         x \in AllLines /\ x[2].fund \in fs /\ x[2].account \in acs
  <2>. SUFFICES ASSUME NEW fs, NEW acs, NEW x
                PROVE  x \in LinesOn(fs, acs) <=>
                          x \in AllLines /\ x[2].fund \in fs /\ x[2].account \in acs
    OBVIOUS
  <2>1. ASSUME x \in LinesOn(fs, acs)
        PROVE  x \in AllLines /\ x[2].fund \in fs /\ x[2].account \in acs
    <3>0. \E i \in DOMAIN entries : \E l \in entries[i].lines :
             x = <<i, l>> /\ l.fund \in fs /\ l.account \in acs
      <4>1. x \in LinesOn(fs, acs) <=> \E i \in DOMAIN entries : \E l \in entries[i].lines :
               x = <<i, l>> /\ l.fund \in fs /\ l.account \in acs
        BY LinesIn
      <4>. QED  BY <2>1, <4>1
    <3>1. PICK i \in DOMAIN entries : \E l \in entries[i].lines :
             x = <<i, l>> /\ l.fund \in fs /\ l.account \in acs
      BY <3>0
    <3>2. PICK l \in entries[i].lines : x = <<i, l>> /\ l.fund \in fs /\ l.account \in acs
      BY <3>1
    <3>3. x[2] = l
      BY <3>2
    <3>. QED  BY <1>3, <3>2, <3>3
  <2>2. ASSUME x \in AllLines, x[2].fund \in fs, x[2].account \in acs
        PROVE  x \in LinesOn(fs, acs)
    <3>1. x[1] \in DOMAIN entries /\ x[2] \in entries[x[1]].lines /\ x = <<x[1], x[2]>>
      BY <1>4, <2>2
    <3>. HIDE DEF AllLines
    <3>. QED  BY <2>2, <3>1, LinesIn
  <2>. QED  BY <2>1, <2>2
<1>. QED  BY <1>0, <1>1, <1>4, <1>5, <1>6, <1>7

\* Sums over some of the lines.
LEMMA SumsAre ==
  ASSUME BooksInv, NEW Q \in SUBSET AllLines
  PROVE  /\ IsFiniteSet(Q)
         /\ \A x \in Q : Debits[x] \in Nat /\ Credits[x] \in Nat /\ Nets[x] \in Int
         /\ DebitSum(Q) = Total(Debits, Q) /\ DebitSum(Q) \in Nat
         /\ CreditSum(Q) = Total(Credits, Q) /\ CreditSum(Q) \in Nat
         /\ NetDebit(Q) = Total(Nets, Q) /\ NetDebit(Q) \in Int
         /\ NetDebit(Q) = DebitSum(Q) - CreditSum(Q) /\ NetCredit(Q) = -NetDebit(Q)
<1>1. IsFiniteSet(Q) /\ Q \in SUBSET Pairs
  BY AllLinesType, FS_Subset
<1>2. \A x \in Q : /\ x[2].debit \in Nat /\ x[2].credit \in Nat
                   /\ Debits[x] = x[2].debit /\ Credits[x] = x[2].credit
                   /\ Nets[x] = x[2].debit - x[2].credit
  <2>1. \A x \in Pairs : /\ Debits[x] = x[2].debit /\ Credits[x] = x[2].credit
                         /\ Nets[x] = x[2].debit - x[2].credit
    BY DEF Debits, Credits, Nets
  <2>2. \A x \in Pairs : x[2].debit \in Nat /\ x[2].credit \in Nat
    BY DEF Pairs, Line
  <2>. QED  BY <1>1, <2>1, <2>2
<1>3. PICK d, c : d = [x \in Q |-> x[2].debit] /\ c = [x \in Q |-> x[2].credit]
  OBVIOUS
<1>4. PICK D, C, N : D = Debits /\ C = Credits /\ N = Nets
  OBVIOUS
<1>5. \A x \in Q : /\ D[x] \in Nat /\ C[x] \in Nat /\ D[x] \in Int /\ C[x] \in Int
                   /\ d[x] = D[x] /\ c[x] = C[x] /\ N[x] = D[x] - C[x]
  BY <1>2, <1>3, <1>4
<1>6. Total(d, Q) = Total(D, Q) /\ Total(c, Q) = Total(C, Q)
  BY <1>1, <1>5, TotalEqual
<1>7. Total(N, Q) = Total(D, Q) - Total(C, Q)
  BY <1>1, <1>5, TotalMinus
<1>8. Total(D, Q) \in Nat /\ Total(C, Q) \in Nat
  BY <1>1, <1>5, TotalNatural
<1>9. DebitSum(Q) = Total(d, Q) /\ CreditSum(Q) = Total(c, Q)
  <2>1. DOMAIN d = Q /\ DOMAIN c = Q
    BY <1>3
  <2>. QED  BY <1>3, <2>1, SumTotal DEF DebitSum, CreditSum
<1>10. \A x \in Q : Debits[x] \in Nat /\ Credits[x] \in Nat /\ Nets[x] \in Int
  BY <1>2
<1>. QED  BY <1>1, <1>4, <1>6, <1>7, <1>8, <1>9, <1>10 DEF NetDebit, NetCredit

LEMMA NetUnion ==
  ASSUME BooksInv, NEW P \in SUBSET AllLines, NEW Q \in SUBSET AllLines, P \cap Q = {}
  PROVE  NetDebit(P \cup Q) = NetDebit(P) + NetDebit(Q)
<1>1. PICK N : N = Nets
  OBVIOUS
<1>2. /\ IsFiniteSet(P) /\ IsFiniteSet(Q) /\ \A x \in P \cup Q : N[x] \in Int
      /\ NetDebit(P) = Total(N, P) /\ NetDebit(Q) = Total(N, Q)
      /\ NetDebit(P \cup Q) = Total(N, P \cup Q)
  <2>1. P \cup Q \in SUBSET AllLines
    OBVIOUS
  <2>. QED  BY <1>1, <2>1, SumsAre
<1>. QED  BY <1>2, TotalUnion

\* Of lines on one side only, the other sum is 0.
LEMMA OneSided ==
  ASSUME BooksInv, NEW Q \in SUBSET AllLines
  PROVE  /\ (\A x \in Q : x[2].debit = 0) => DebitSum(Q) = 0
         /\ (\A x \in Q : x[2].credit = 0) => CreditSum(Q) = 0 /\ NetDebit(Q) = DebitSum(Q)
<1>1. PICK D, C : D = Debits /\ C = Credits
  OBVIOUS
<1>2. IsFiniteSet(Q) /\ DebitSum(Q) = Total(D, Q) /\ CreditSum(Q) = Total(C, Q)
  BY <1>1, SumsAre
<1>3. \A x \in Q : D[x] = x[2].debit /\ C[x] = x[2].credit
  BY <1>1, AllLinesType DEF Debits, Credits
<1>4. (\A x \in Q : x[2].debit = 0) => DebitSum(Q) = 0
  BY <1>2, <1>3, TotalZero
<1>5. (\A x \in Q : x[2].credit = 0) => CreditSum(Q) = 0
  BY <1>2, <1>3, TotalZero
<1>6. PICK d \in Nat, c \in Nat : d = DebitSum(Q) /\ c = CreditSum(Q) /\ NetDebit(Q) = d - c
  BY SumsAre
<1>7. c = 0 => d - c = d
  OBVIOUS
<1>. QED  BY <1>4, <1>5, <1>6, <1>7

\* Membership in the queries.
LEMMA QueryOf ==
  ASSUME BooksInv, NEW fs, NEW acs, NEW ds
  PROVE  /\ LinesOn(fs, acs) \in SUBSET AllLines
         /\ PostedIn(LinesOn(fs, acs), ds) \in SUBSET AllLines
         /\ \A x : x \in PostedIn(LinesOn(fs, acs), ds) <=>
               /\ x \in AllLines /\ x[2].fund \in fs /\ x[2].account \in acs
               /\ entries[x[1]].day \in ds
<1>1. \A x : x \in LinesOn(fs, acs) <=>
                x \in AllLines /\ x[2].fund \in fs /\ x[2].account \in acs
  BY AllLinesType
<1>. QED  BY <1>1 DEF PostedIn

\* The lines that one entry has on some funds, of which it has all or none, balance.
LEMMA RowBalances ==
  ASSUME BooksInv, NEW i \in DOMAIN entries, NEW U \in SUBSET AllLines,
         \/ U = {x \in AllLines : x[1] = i}
         \/ U = {}
  PROVE  Total(Nets, U) = 0
<1>1. CASE U = {}
  BY <1>1, TotalEmpty
<1>2. CASE U = {x \in AllLines : x[1] = i}
  <2>1. PICK L, f, s, N : /\ L = entries[i].lines /\ f = [l \in L |-> l.debit - l.credit]
                          /\ s = [l \in L |-> <<i, l>>] /\ N = Nets
    OBVIOUS
  <2>2. Sound(entries[i]) /\ i \in Nat /\ \A l \in L : l \in Line
    BY <2>1, EntriesType DEF BooksInv, Sound, Entry
  <2>3. U = {s[l] : l \in L}
    <3>1. \A l \in L : <<i, l>> \in AllLines
      <4>1. \A l \in L : l.fund \in Funds /\ l.account \in Accounts
        BY <2>2 DEF Line
      <4>2. ASSUME NEW l \in L PROVE <<i, l>> \in AllLines
        <5>1. <<i, l>> \in LinesOn(Funds, Accounts) <=>
                \E j \in DOMAIN entries : \E m \in entries[j].lines :
                   <<i, l>> = <<j, m>> /\ m.fund \in Funds /\ m.account \in Accounts
          BY LinesIn
        <5>. QED  BY <2>1, <4>1, <5>1 DEF AllLines
      <4>. QED  BY <4>2
    <3>2. \A x \in U : x[2] \in L /\ x = <<i, x[2]>>
      BY <1>2, <2>1, AllLinesType
    <3>3. \A l \in L : s[l] = <<i, l>>
      BY <2>1
    <3>. QED  BY <1>2, <3>1, <3>2, <3>3
  <2>4. \A l \in L : /\ s[l] = <<i, l>> /\ N[s[l]] \in Int /\ f[l] = N[s[l]]
    <3>1. \A l \in L : <<i, l>> \in Pairs /\ l.debit - l.credit \in Int
      BY <2>2 DEF Pairs, Line
    <3>2. \A l \in L : Nets[<<i, l>>] = l.debit - l.credit
      BY <3>1 DEF Nets
    <3>. QED  BY <2>1, <3>1, <3>2
  <2>5. IsFiniteSet(L) /\ \A l, m \in L : s[l] = s[m] => l = m
    BY <2>1, <2>2, <2>4 DEF Sound
  <2>6. Total(f, L) = Total(N, {s[l] : l \in L})
    BY <2>4, <2>5, TotalImage
  <2>7. Total(f, L) = 0
    <3>1. DOMAIN f = L
      BY <2>1
    <3>. QED  BY <2>1, <2>2, <3>1, SumTotal DEF Sound, Balances
  <2>. QED  BY <2>1, <2>3, <2>6, <2>7
<1>. QED  BY <1>1, <1>2

\* All accounts of some funds balance over any days.
LEMMA AllAccountsBalance ==
  ASSUME BooksInv, NEW fs \in SUBSET Funds, NEW ds
  PROVE  NetDebit(PostedIn(LinesOn(fs, Accounts), ds)) = 0
<1>1. PICK U : U = PostedIn(LinesOn(fs, Accounts), ds)
  OBVIOUS
<1>2. U \in SUBSET AllLines
  BY <1>1, QueryOf
<1>3. \A x : x \in U <=> x \in AllLines /\ x[2].fund \in fs /\ entries[x[1]].day \in ds
  <2>1. \A x \in AllLines : x[2].account \in Accounts
    BY AllLinesType DEF Line
  <2>. QED  BY <1>1, <2>1, QueryOf
<1>4. PICK N, key, part, g :
         /\ N = Nets /\ key = [x \in U |-> x[1]]
         /\ part = [i \in DOMAIN entries |-> {x \in U : x[1] = i}]
         /\ g = [i \in DOMAIN entries |-> Total(N, part[i])]
  OBVIOUS
<1>5. \A i \in DOMAIN entries : g[i] = 0
  <2>. SUFFICES ASSUME NEW i \in DOMAIN entries PROVE g[i] = 0
    OBVIOUS
  <2>1. PICK V : V = {x \in U : x[1] = i} /\ g[i] = Total(N, V)
    BY <1>4
  <2>2. PICK f \in Funds : \A l \in entries[i].lines : l.fund = f
    BY DEF BooksInv, Sound
  <2>3. \A x \in AllLines : x[1] = i => x[2] \in entries[i].lines
    BY AllLinesType
  <2>4. CASE f \in fs /\ entries[i].day \in ds
    <3>1. V = {x \in AllLines : x[1] = i}
      BY <1>3, <2>1, <2>2, <2>3, <2>4
    <3>2. Total(Nets, V) = 0
      BY <3>1, RowBalances
    <3>. QED  BY <1>4, <2>1, <3>2
  <2>5. CASE ~(f \in fs /\ entries[i].day \in ds)
    <3>1. V = {}
      BY <1>3, <2>1, <2>2, <2>3, <2>5
    <3>. QED  BY <1>4, <2>1, <3>1, TotalEmpty
  <2>. QED  BY <2>4, <2>5
<1>6. /\ IsFiniteSet(U) /\ IsFiniteSet(DOMAIN entries) /\ \A x \in U : N[x] \in Int
      /\ NetDebit(U) = Total(N, U)
  BY <1>2, <1>4, SumsAre, EntriesType DEF BooksInv
<1>7. /\ \A x \in U : key[x] = x[1] /\ key[x] \in DOMAIN entries
      /\ \A i \in DOMAIN entries : g[i] = Total(N, part[i])
      /\ \A i \in DOMAIN entries : \A x : x \in part[i] <=> x \in U /\ key[x] = i
  <2>1. \A x \in U : key[x] = x[1] /\ key[x] \in DOMAIN entries
    BY <1>2, <1>4, AllLinesType
  <2>. QED  BY <1>4, <2>1
<1>8. PICK D : D = DOMAIN entries
  OBVIOUS
<1>9. Total(N, U) = Total(g, D)
  <2>1. Grouped(U, D, key, N, part, g)
    BY <1>6, <1>7, <1>8 DEF Grouped
  <2>. QED  BY <2>1, TotalByKey
<1>10. Total(g, D) = 0
  BY <1>5, <1>6, <1>8, TotalZero
<1>. QED  BY <1>1, <1>6, <1>9, <1>10

-----------------------------------------------------------------------------
(* The statements agree. *)

\* Accounts, and periods, add up.
LEMMA AccountsAdd ==
  ASSUME BooksInv, NEW fs, NEW a1, NEW a2, NEW ds, a1 \cap a2 = {}
  PROVE  NetDebit(PostedIn(LinesOn(fs, a1 \cup a2), ds)) =
            NetDebit(PostedIn(LinesOn(fs, a1), ds)) + NetDebit(PostedIn(LinesOn(fs, a2), ds))
<1>1. PICK P, Q, R : /\ P = PostedIn(LinesOn(fs, a1), ds) /\ Q = PostedIn(LinesOn(fs, a2), ds)
                     /\ R = PostedIn(LinesOn(fs, a1 \cup a2), ds)
  OBVIOUS
<1>2. /\ P \in SUBSET AllLines /\ Q \in SUBSET AllLines
      /\ \A x : x \in P <=> /\ x \in AllLines /\ x[2].fund \in fs /\ x[2].account \in a1
                            /\ entries[x[1]].day \in ds
      /\ \A x : x \in Q <=> /\ x \in AllLines /\ x[2].fund \in fs /\ x[2].account \in a2
                            /\ entries[x[1]].day \in ds
  BY <1>1, QueryOf
<1>3. \A x : x \in R <=> /\ x \in AllLines /\ x[2].fund \in fs /\ x[2].account \in a1 \cup a2
                         /\ entries[x[1]].day \in ds
  BY <1>1, QueryOf
<1>4. P \cap Q = {} /\ R = P \cup Q
  BY <1>2, <1>3
<1>. QED  BY <1>1, <1>2, <1>4, NetUnion

LEMMA PeriodsAdd ==
  ASSUME BooksInv, NEW fs, NEW acs, NEW a \in Nat, NEW b \in Nat, a <= b
  PROVE  NetDebit(PostedIn(LinesOn(fs, acs), 0..b)) =
            NetDebit(PostedIn(LinesOn(fs, acs), 0..(a - 1)))
               + NetDebit(PostedIn(LinesOn(fs, acs), a..b))
<1>1. PICK d1, d2, d : d1 = 0..(a - 1) /\ d2 = a..b /\ d = 0..b
  OBVIOUS
<1>2. d = d1 \cup d2 /\ d1 \cap d2 = {}
  BY <1>1
<1>3. PICK P, Q, R : /\ P = PostedIn(LinesOn(fs, acs), d1) /\ Q = PostedIn(LinesOn(fs, acs), d2)
                     /\ R = PostedIn(LinesOn(fs, acs), d)
  OBVIOUS
<1>4. P \in SUBSET AllLines /\ Q \in SUBSET AllLines
  BY <1>3, QueryOf
<1>5. P \cap Q = {} /\ R = P \cup Q
  BY <1>2, <1>3 DEF PostedIn
<1>6. NetDebit(R) = NetDebit(P) + NetDebit(Q)
  BY <1>4, <1>5, NetUnion
<1>. QED  BY <1>1, <1>3, <1>6

\* All accounts, one by one.
LEMMA AccountsOneByOne ==
  ASSUME BooksInv, NEW f \in Funds, NEW ds
  PROVE  LET n(acs) == NetDebit(PostedIn(LinesOn({f}, acs), ds)) IN
         /\ n({"Cash"}) = -n(Expenses) - n(Incomes) - n({"Fund Equity"})
                             - n({"Member Credit Balance"}) - n({"Settled to MoMo"})
         /\ \A acs : n(acs) \in Int
<1>. DEFINE n(acs) == NetDebit(PostedIn(LinesOn({f}, acs), ds))
            a1 == {"Member Credit Balance", "Fund Equity"}
            a2 == a1 \cup Incomes
            a3 == a2 \cup Expenses
            a4 == a3 \cup {"Settled to MoMo"}
<1>1. \A acs : n(acs) \in Int
  BY QueryOf, SumsAre
<1>2. ASSUME NEW p, NEW q, p \cap q = {} PROVE n(p \cup q) = n(p) + n(q)
  BY <1>2, AccountsAdd
<1>3. n(Accounts) = 0
  <2>1. {f} \in SUBSET Funds
    OBVIOUS
  <2>. QED  BY <2>1, AllAccountsBalance
<1>4. /\ a1 = {"Member Credit Balance"} \cup {"Fund Equity"}
      /\ {"Member Credit Balance"} \cap {"Fund Equity"} = {}
      /\ a1 \cap Incomes = {} /\ a2 \cap Expenses = {} /\ a3 \cap {"Settled to MoMo"} = {}
      /\ a4 \cap {"Cash"} = {} /\ Accounts = a4 \cup {"Cash"}
  BY DEF Accounts, Assets, Expenses, Incomes
<1>5. /\ n(a1) = n({"Member Credit Balance"}) + n({"Fund Equity"})
      /\ n(a2) = n(a1) + n(Incomes) /\ n(a3) = n(a2) + n(Expenses)
      /\ n(a4) = n(a3) + n({"Settled to MoMo"}) /\ n(Accounts) = n(a4) + n({"Cash"})
  <2>. HIDE DEF n
  <2>. QED  BY <1>2, <1>4
<1>6. PICK c, x, i, q, m, s \in Int :
         /\ c = n({"Cash"}) /\ x = n(Expenses) /\ i = n(Incomes)
         /\ q = n({"Fund Equity"}) /\ m = n({"Member Credit Balance"})
         /\ s = n({"Settled to MoMo"})
  <2>. HIDE DEF n
  <2>. QED  BY <1>1
<1>7. PICK v1, v2, v3, v4 \in Int : v1 = n(a1) /\ v2 = n(a2) /\ v3 = n(a3) /\ v4 = n(a4)
  <2>. HIDE DEF n
  <2>. QED  BY <1>1
<1>8. v1 = m + q /\ v2 = v1 + i /\ v3 = v2 + x /\ v4 = v3 + s /\ 0 = v4 + c
  <2>. HIDE DEF n, a1, a2, a3, a4
  <2>. QED  BY <1>3, <1>5, <1>6, <1>7
<1>9. c = -x - i - q - m - s
  BY <1>8
<1>. QED  BY <1>1, <1>6, <1>9

\* A Fund Equity line is a transfer's, and an income line a contribution's.
LEMMA OnlyTheirSources ==
  ASSUME BooksInv, NEW fs, NEW ds
  PROVE  LET equity == PostedIn(LinesOn(fs, {"Fund Equity"}), ds) IN
         OfSource(equity, {"fund_transfer"}) = equity
<1>1. \A x \in PostedIn(LinesOn(fs, {"Fund Equity"}), ds) :
         entries[x[1]].source = "fund_transfer"
  <2>. SUFFICES ASSUME NEW x \in PostedIn(LinesOn(fs, {"Fund Equity"}), ds)
                PROVE  entries[x[1]].source = "fund_transfer"
    OBVIOUS
  <2>1. x \in AllLines /\ x[2].account = "Fund Equity"
    <3>1. x \in PostedIn(LinesOn(fs, {"Fund Equity"}), ds) <=>
             /\ x \in AllLines /\ x[2].fund \in fs /\ x[2].account \in {"Fund Equity"}
             /\ entries[x[1]].day \in ds
      BY QueryOf
    <3>. QED  BY <3>1
  <2>2. Accounted(entries[x[1]], x[2])
    BY <2>1, AllLinesType DEF Sound
  <2>. QED  BY <2>1, <2>2 DEF Accounted
<1>. QED  BY <1>1 DEF OfSource

LEMMA FundStatements == BooksInv => FundStatementsAgree
<1>. SUFFICES ASSUME BooksInv, NEW f \in Funds, NEW p \in Periods
              PROVE  LET a == p[1]
                         b == p[2]
                         cf == CashFlow({f}, a, b)
                         ie == IncomeExpenditure({f}, a, b)
                         fp == FundPosition(f, a, b)
                         gain(acct) == GeneralLedger(f, acct, a, b).closing
                                           - GeneralLedger(f, acct, a, b).opening
                     IN
                     /\ cf.closing - cf.opening =
                           (ie.income - ie.expense) + (ie.closing - ie.opening)
                             - gain("Member Credit Balance") - gain("Settled to MoMo")
                     /\ ie.closing - ie.opening = fp.transfersIn - fp.transfersOut
                     /\ ie.closing = -fp.closing /\ ie.opening = -fp.opening
                     /\ ie.income = fp.income /\ ie.expense = fp.expenses
                     /\ fp.cashAvailable = cf.closing
                     /\ GeneralLedger(f, "Cash", a, b).closing = cf.closing
  BY DEF FundStatementsAgree
<1>1. PICK a, b : a = p[1] /\ b = p[2] /\ a \in Nat /\ b \in Nat /\ a <= b
  BY BooksAssumption DEF Periods, Days
<1>. DEFINE net(acs, ds) == NetDebit(PostedIn(LinesOn({f}, acs), ds))
            n(acs) == net(acs, a..b)
            o(acs) == net(acs, 0..(a - 1))
            c(acs) == net(acs, 0..b)
<1>2. \A acs : n(acs) \in Int /\ o(acs) \in Int /\ c(acs) \in Int
  <2>1. \A acs, ds : net(acs, ds) \in Int
    BY QueryOf, SumsAre
  <2>. QED  BY <2>1
<1>3. \A acs : c(acs) = o(acs) + n(acs)
  BY <1>1, PeriodsAdd
<1>4. n({"Cash"}) = -n(Expenses) - n(Incomes) - n({"Fund Equity"})
                       - n({"Member Credit Balance"}) - n({"Settled to MoMo"})
  BY AccountsOneByOne
<1>5. \A acs, ds : NetCredit(PostedIn(LinesOn({f}, acs), ds)) = -net(acs, ds)
  BY QueryOf, SumsAre
<1>6. PICK cf, ie, fp, gm, gs, gc :
         /\ cf = CashFlow({f}, a, b) /\ ie = IncomeExpenditure({f}, a, b)
         /\ fp = FundPosition(f, a, b) /\ gm = GeneralLedger(f, "Member Credit Balance", a, b)
         /\ gs = GeneralLedger(f, "Settled to MoMo", a, b) /\ gc = GeneralLedger(f, "Cash", a, b)
  OBVIOUS
<1>7. cf.opening = o({"Cash"}) /\ cf.closing = c({"Cash"})
  BY <1>6 DEF CashFlow
<1>8. /\ ie.income = -n(Incomes) /\ ie.expense = n(Expenses)
      /\ ie.opening = -o({"Fund Equity"}) /\ ie.closing = -c({"Fund Equity"})
  BY <1>5, <1>6 DEF IncomeExpenditure, EquityAsOf
<1>9. /\ fp.opening = o({"Fund Equity"}) /\ fp.closing = c({"Fund Equity"})
      /\ fp.income = -n(Incomes) /\ fp.expenses = n(Expenses)
      /\ fp.cashAvailable = c({"Cash"})
  BY <1>5, <1>6 DEF FundPosition
<1>10. fp.transfersIn - fp.transfersOut = -n({"Fund Equity"})
  <2>1. PICK E : E = PostedIn(LinesOn({f}, {"Fund Equity"}), a..b)
    OBVIOUS
  <2>2. E \in SUBSET AllLines /\ OfSource(E, {"fund_transfer"}) = E
    BY <2>1, QueryOf, OnlyTheirSources
  <2>3. fp.transfersIn = CreditSum(E) /\ fp.transfersOut = DebitSum(E)
    BY <1>6, <2>1, <2>2 DEF FundPosition
  <2>4. NetDebit(E) = DebitSum(E) - CreditSum(E) /\ DebitSum(E) \in Int /\ CreditSum(E) \in Int
    BY <2>2, SumsAre
  <2>5. PICK e, d, k \in Int : e = NetDebit(E) /\ d = DebitSum(E) /\ k = CreditSum(E)
    BY <2>4, <1>2, <2>1
  <2>6. e = d - k /\ k - d = -e
    BY <2>4, <2>5
  <2>. QED  BY <2>1, <2>3, <2>5, <2>6
<1>11. /\ gm.opening = o({"Member Credit Balance"})
       /\ gm.closing = o({"Member Credit Balance"}) + n({"Member Credit Balance"})
       /\ gs.opening = o({"Settled to MoMo"})
       /\ gs.closing = o({"Settled to MoMo"}) + n({"Settled to MoMo"})
       /\ gc.closing = o({"Cash"}) + n({"Cash"})
  BY <1>6 DEF GeneralLedger
<1>. HIDE DEF net, n, o, c
<1>15. PICK nc, nx, ni, nq, nm, ns, oc, oq, om, os, cc, cq \in Int :
          /\ nc = n({"Cash"}) /\ nx = n(Expenses) /\ ni = n(Incomes)
          /\ nq = n({"Fund Equity"}) /\ nm = n({"Member Credit Balance"})
          /\ ns = n({"Settled to MoMo"})
          /\ oc = o({"Cash"}) /\ oq = o({"Fund Equity"}) /\ om = o({"Member Credit Balance"})
          /\ os = o({"Settled to MoMo"})
          /\ cc = c({"Cash"}) /\ cq = c({"Fund Equity"})
          /\ cc = oc + nc /\ cq = oq + nq
          /\ nc = -nx - ni - nq - nm - ns
  BY <1>2, <1>3, <1>4
<1>16. /\ cf.opening = oc /\ cf.closing = cc /\ ie.income = -ni /\ ie.expense = nx
       /\ ie.opening = -oq /\ ie.closing = -cq /\ fp.opening = oq /\ fp.closing = cq
       /\ fp.income = -ni /\ fp.expenses = nx /\ fp.cashAvailable = cc
       /\ fp.transfersIn - fp.transfersOut = -nq
       /\ gm.opening = om /\ gm.closing = om + nm /\ gs.opening = os /\ gs.closing = os + ns
       /\ gc.closing = oc + nc /\ gc.closing = cc
  BY <1>7, <1>8, <1>9, <1>10, <1>11, <1>15
<1>17. /\ cc = oc + nc /\ cq = oq + nq /\ nc = -nx - ni - nq - nm - ns
  BY <1>15
<1>18. cc - oc = (-ni - nx) + (-cq - -oq) - (om + nm - om) - (os + ns - os)
  BY <1>17
<1>19. -cq - -oq = -nq
  BY <1>17
<1>12. cf.closing - cf.opening = (ie.income - ie.expense) + (ie.closing - ie.opening)
          - (gm.closing - gm.opening) - (gs.closing - gs.opening)
  BY <1>16, <1>18
<1>13. ie.closing - ie.opening = fp.transfersIn - fp.transfersOut
  BY <1>16, <1>19
<1>14. ie.closing = -fp.closing /\ ie.opening = -fp.opening /\ ie.income = fp.income
       /\ ie.expense = fp.expenses /\ fp.cashAvailable = cf.closing /\ gc.closing = cf.closing
  BY <1>16
<1>. QED  BY <1>1, <1>6, <1>12, <1>13, <1>14

\* The debits, and the credits, of two sets of lines that have none in common.
LEMMA SidesUnion ==
  ASSUME BooksInv, NEW P \in SUBSET AllLines, NEW Q \in SUBSET AllLines, P \cap Q = {}
  PROVE  /\ DebitSum(P \cup Q) = DebitSum(P) + DebitSum(Q)
         /\ CreditSum(P \cup Q) = CreditSum(P) + CreditSum(Q)
<1>1. PICK D, C : D = Debits /\ C = Credits
  OBVIOUS
<1>2. PICK R \in SUBSET AllLines : R = P \cup Q
  OBVIOUS
<1>3. /\ IsFiniteSet(P) /\ IsFiniteSet(Q)
      /\ DebitSum(P) = Total(D, P) /\ DebitSum(Q) = Total(D, Q)
      /\ CreditSum(P) = Total(C, P) /\ CreditSum(Q) = Total(C, Q)
  BY <1>1, SumsAre
<1>4. /\ DebitSum(R) = Total(D, R) /\ CreditSum(R) = Total(C, R)
      /\ \A x \in R : D[x] \in Nat /\ C[x] \in Nat
  BY <1>1, SumsAre
<1>5. \A x \in P \cup Q : D[x] \in Int /\ C[x] \in Int
  BY <1>2, <1>4
<1>6. Total(D, P \cup Q) = Total(D, P) + Total(D, Q)
  BY <1>3, <1>5, TotalUnion
<1>7. Total(C, P \cup Q) = Total(C, P) + Total(C, Q)
  BY <1>3, <1>5, TotalUnion
<1>. QED  BY <1>2, <1>3, <1>4, <1>6, <1>7

\* Funds add up.
LEMMA FundsAdd ==
  ASSUME BooksInv, NEW acs, NEW ds,
         NEW g, \A f \in Funds : g[f] = NetDebit(PostedIn(LinesOn({f}, acs), ds))
  PROVE  NetDebit(PostedIn(LinesOn(Funds, acs), ds)) = Total(g, Funds)
<1>1. PICK U : U = PostedIn(LinesOn(Funds, acs), ds)
  OBVIOUS
<1>2. U \in SUBSET AllLines
  BY <1>1, QueryOf
<1>3. PICK N, key, part :
         /\ N = Nets /\ key = [x \in U |-> x[2].fund]
         /\ part = [f \in Funds |-> PostedIn(LinesOn({f}, acs), ds)]
  OBVIOUS
<1>4. \A x \in U : key[x] = x[2].fund /\ key[x] \in Funds
  BY <1>2, <1>3, AllLinesType DEF Line
<1>5. ASSUME NEW f \in Funds PROVE \A x : x \in part[f] <=> x \in U /\ key[x] = f
  <2>. SUFFICES ASSUME NEW x PROVE x \in part[f] <=> x \in U /\ key[x] = f
    OBVIOUS
  <2>1. /\ x \in part[f] <=> /\ x \in AllLines /\ x[2].fund \in {f} /\ x[2].account \in acs
                             /\ entries[x[1]].day \in ds
        /\ x \in U <=> /\ x \in AllLines /\ x[2].fund \in Funds /\ x[2].account \in acs
                       /\ entries[x[1]].day \in ds
    BY <1>1, <1>3, QueryOf
  <2>. QED  BY <1>4, <2>1
<1>6. \A f \in Funds : g[f] = Total(N, part[f])
  <2>. SUFFICES ASSUME NEW f \in Funds PROVE g[f] = Total(N, part[f])
    OBVIOUS
  <2>1. PICK P : P = PostedIn(LinesOn({f}, acs), ds)
    OBVIOUS
  <2>2. P \in SUBSET AllLines
    BY <2>1, QueryOf
  <2>3. NetDebit(P) = Total(N, P)
    BY <1>3, <2>2, SumsAre
  <2>. QED  BY <1>3, <2>1, <2>3
<1>7. /\ IsFiniteSet(U) /\ IsFiniteSet(Funds) /\ (\A x \in U : N[x] \in Int)
      /\ NetDebit(U) = Total(N, U)
  BY <1>2, <1>3, SumsAre, BooksAssumption
<1>8. Total(N, U) = Total(g, Funds)
  <2>1. Grouped(U, Funds, key, N, part, g)
    BY <1>4, <1>5, <1>6, <1>7 DEF Grouped
  <2>. QED  BY <2>1, TotalByKey
<1>. QED  BY <1>1, <1>7, <1>8

LEMMA CashPositions == BooksInv => CashPositionAgrees
<1>. SUFFICES ASSUME BooksInv, NEW d \in Days
              PROVE  CashPosition(d) = CashFlow(Funds, 0, d).closing +
                        SumFunction([f \in Funds |->
                                       GeneralLedger(f, "Settled to MoMo", 0, d).closing])
  BY DEF CashPositionAgrees
<1>1. PICK g : g = [f \in Funds |-> GeneralLedger(f, "Settled to MoMo", 0, d).closing]
  OBVIOUS
<1>2. d \in Nat /\ 0 \in Nat /\ 0 <= d
  BY BooksAssumption DEF Days
<1>3. ASSUME NEW f \in Funds
      PROVE  g[f] = NetDebit(PostedIn(LinesOn({f}, {"Settled to MoMo"}), 0..d))
  <2>1. GeneralLedger(f, "Settled to MoMo", 0, d).closing =
           NetDebit(PostedIn(LinesOn({f}, {"Settled to MoMo"}), 0..(0 - 1)))
              + NetDebit(PostedIn(LinesOn({f}, {"Settled to MoMo"}), 0..d))
    BY DEF GeneralLedger
  <2>2. NetDebit(PostedIn(LinesOn({f}, {"Settled to MoMo"}), 0..d)) =
           NetDebit(PostedIn(LinesOn({f}, {"Settled to MoMo"}), 0..(0 - 1)))
              + NetDebit(PostedIn(LinesOn({f}, {"Settled to MoMo"}), 0..d))
    <3>1. PICK a, b : a = 0 /\ b = d /\ a \in Nat /\ b \in Nat /\ a <= b
      BY <1>2
    <3>2. \A acs : NetDebit(PostedIn(LinesOn({f}, acs), 0..b)) =
                      NetDebit(PostedIn(LinesOn({f}, acs), 0..(a - 1)))
                         + NetDebit(PostedIn(LinesOn({f}, acs), a..b))
      BY <3>1, PeriodsAdd
    <3>. QED  BY <3>1, <3>2
  <2>. QED  BY <1>1, <2>1, <2>2
<1>4. NetDebit(PostedIn(LinesOn(Funds, {"Settled to MoMo"}), 0..d)) = Total(g, Funds)
  BY <1>3, FundsAdd
<1>5. NetDebit(PostedIn(LinesOn(Funds, Assets), 0..d)) =
         NetDebit(PostedIn(LinesOn(Funds, {"Cash"}), 0..d))
            + NetDebit(PostedIn(LinesOn(Funds, {"Settled to MoMo"}), 0..d))
  <2>1. Assets = {"Cash"} \cup {"Settled to MoMo"} /\ {"Cash"} \cap {"Settled to MoMo"} = {}
    BY DEF Assets
  <2>2. PICK p, q : p = {"Cash"} /\ q = {"Settled to MoMo"}
    OBVIOUS
  <2>3. Assets = p \cup q /\ p \cap q = {}
    BY <2>1, <2>2
  <2>4. NetDebit(PostedIn(LinesOn(Funds, p \cup q), 0..d)) =
           NetDebit(PostedIn(LinesOn(Funds, p), 0..d)) + NetDebit(PostedIn(LinesOn(Funds, q), 0..d))
    BY <2>3, AccountsAdd
  <2>. QED  BY <2>2, <2>3, <2>4
<1>6. CashFlow(Funds, 0, d).closing = NetDebit(PostedIn(LinesOn(Funds, {"Cash"}), 0..d))
  BY DEF CashFlow
<1>7. SumFunction(g) = Total(g, Funds)
  <2>1. DOMAIN g = Funds
    BY <1>1
  <2>. QED  BY <2>1, SumTotal
<1>. QED  BY <1>1, <1>4, <1>5, <1>6, <1>7 DEF CashPosition

\* A line on income is of a contribution, and debited only by a reversal.
LEMMA IncomeLines ==
  ASSUME BooksInv, NEW ds
  PROVE  /\ PostedIn(LinesOn(Funds, Incomes), ds) \in SUBSET AllLines
         /\ \A x \in PostedIn(LinesOn(Funds, Incomes), ds) :
               /\ entries[x[1]].source \in Contribution /\ entries[x[1]].day \in ds
               /\ entries[x[1]].reversal \/ x[2].debit = 0
<1>1. ASSUME NEW x \in PostedIn(LinesOn(Funds, Incomes), ds)
      PROVE  /\ entries[x[1]].source \in Contribution /\ entries[x[1]].day \in ds
             /\ entries[x[1]].reversal \/ x[2].debit = 0
  <2>1. x \in AllLines /\ x[2].account \in Incomes /\ entries[x[1]].day \in ds
    BY QueryOf
  <2>2. Accounted(entries[x[1]], x[2])
    BY <2>1, AllLinesType DEF Sound
  <2>. QED  BY <2>1, <2>2 DEF Accounted
<1>. QED  BY <1>1, QueryOf

LEMMA Collections == BooksInv => NetCollectionIsIncome
<1>. SUFFICES ASSUME BooksInv, NEW p \in Periods
              PROVE  Collection(p[1], p[2]) = IncomeExpenditure(Funds, p[1], p[2]).income
  BY DEF NetCollectionIsIncome
<1>1. PICK L, R, Q : /\ L = PostedIn(LinesOn(Funds, Incomes), p[1]..p[2])
                     /\ R = {x \in OfSource(L, ReversedSources) : entries[x[1]].reversal}
                     /\ Q = L \ R
  OBVIOUS
<1>2. /\ L \in SUBSET AllLines
      /\ \A x \in L : /\ entries[x[1]].source \in Contribution
                      /\ entries[x[1]].reversal \/ x[2].debit = 0
  BY <1>1, IncomeLines
<1>3. /\ R \in SUBSET AllLines /\ Q \in SUBSET AllLines /\ R \cap Q = {} /\ L = R \cup Q
      /\ \A x \in Q : x[2].debit = 0
  BY <1>1, <1>2 DEF OfSource, ReversedSources
<1>4. DebitSum(L) = DebitSum(R) + DebitSum(Q) /\ DebitSum(Q) = 0
  BY <1>3, SidesUnion, OneSided
<1>5. /\ NetDebit(L) = DebitSum(L) - CreditSum(L) /\ NetCredit(L) = -NetDebit(L)
      /\ DebitSum(L) \in Int /\ CreditSum(L) \in Int /\ DebitSum(R) \in Int
  BY <1>2, <1>3, SumsAre
<1>6. PICK d, c, r \in Int : d = DebitSum(L) /\ c = CreditSum(L) /\ r = DebitSum(R)
  BY <1>5
<1>7. NetCredit(L) = c - r
  <2>1. d = r
    BY <1>4, <1>6
  <2>2. -(d - c) = c - d
    OBVIOUS
  <2>. QED  BY <1>5, <1>6, <2>1, <2>2
<1>8. Collection(p[1], p[2]) = CreditSum(L) - DebitSum(R)
  BY <1>1 DEF Collection
<1>9. IncomeExpenditure(Funds, p[1], p[2]).income = NetCredit(L)
  BY <1>1 DEF IncomeExpenditure
<1>. QED  BY <1>6, <1>7, <1>8, <1>9

LEMMA AccountsFinite == IsFiniteSet(Accounts)
<1>1. /\ IsFiniteSet({"Cash"}) /\ IsFiniteSet({"Settled to MoMo"})
      /\ IsFiniteSet({"Benefits Expense"}) /\ IsFiniteSet({"Fees"})
      /\ IsFiniteSet({"Contributions Income"}) /\ IsFiniteSet({"Fund Equity"})
      /\ IsFiniteSet({"Member Credit Balance"})
  BY FS_Singleton
<1>2. /\ Assets = {"Cash"} \cup {"Settled to MoMo"}
      /\ Expenses = {"Benefits Expense"} \cup {"Fees"}
      /\ Accounts = ((Assets \cup Expenses) \cup Incomes)
                       \cup ({"Fund Equity"} \cup {"Member Credit Balance"})
  BY DEF Assets, Expenses, Accounts
<1>3. IsFiniteSet(Assets) /\ IsFiniteSet(Expenses) /\ IsFiniteSet(Incomes)
      /\ IsFiniteSet({"Fund Equity"} \cup {"Member Credit Balance"})
  BY <1>1, <1>2, FS_Union DEF Incomes
<1>4. IsFiniteSet((Assets \cup Expenses) \cup Incomes)
  BY <1>3, FS_Union
<1>. QED  BY <1>2, <1>3, <1>4, FS_Union

LEMMA TrialBalances == BooksInv => BooksBalance
<1>. SUFFICES ASSUME BooksInv, NEW fs \in FundSets, NEW d \in Days
              PROVE  TrialBalance(fs, d).debit = TrialBalance(fs, d).credit
  BY DEF BooksBalance
<1>1. fs \in SUBSET Funds /\ IsFiniteSet(fs)
  BY FS_Subset, BooksAssumption DEF FundSets
<1>2. PICK D, nets, pos, neg, U :
         /\ D = fs \X Accounts
         /\ nets = [x \in D |-> NetDebit(PostedIn(LinesOn({x[1]}, {x[2]}), 0..d))]
         /\ pos = [x \in DOMAIN nets |-> Positive(nets[x])]
         /\ neg = [x \in DOMAIN nets |-> Positive(-nets[x])]
         /\ U = PostedIn(LinesOn(fs, Accounts), 0..d)
  OBVIOUS
<1>3. PICK N, key, part :
         /\ N = Nets /\ key = [x \in U |-> <<x[2].fund, x[2].account>>]
         /\ part = [x \in D |-> PostedIn(LinesOn({x[1]}, {x[2]}), 0..d)]
  OBVIOUS
<1>4. IsFiniteSet(D)
  BY <1>1, <1>2, AccountsFinite, FS_Product
<1>5. U \in SUBSET AllLines /\ IsFiniteSet(U) /\ NetDebit(U) = 0 /\ NetDebit(U) = Total(N, U)
      /\ \A x \in U : N[x] \in Int
  <2>1. U \in SUBSET AllLines
    BY <1>2, QueryOf
  <2>. QED  BY <1>1, <1>2, <1>3, <2>1, SumsAre, AllAccountsBalance
<1>6. \A x : x \in U <=> /\ x \in AllLines /\ x[2].fund \in fs /\ x[2].account \in Accounts
                         /\ entries[x[1]].day \in 0..d
  BY <1>2, QueryOf
<1>7. \A x \in U : key[x] = <<x[2].fund, x[2].account>> /\ key[x] \in D
  BY <1>2, <1>3, <1>6
<1>8. ASSUME NEW y \in D
      PROVE  /\ \A x : x \in part[y] <=> x \in U /\ key[x] = y
             /\ nets[y] = Total(N, part[y]) /\ nets[y] \in Int
  <2>1. y[1] \in fs /\ y[2] \in Accounts /\ y = <<y[1], y[2]>>
    BY <1>2
  <2>2. PICK P : P = PostedIn(LinesOn({y[1]}, {y[2]}), 0..d)
    OBVIOUS
  <2>3. P \in SUBSET AllLines
    BY <2>2, QueryOf
  <2>4. NetDebit(P) = Total(N, P) /\ NetDebit(P) \in Int
    BY <1>3, <2>3, SumsAre
  <2>5. part[y] = P /\ nets[y] = NetDebit(P)
    BY <1>2, <1>3, <2>2
  <2>6. \A x : x \in P <=> /\ x \in AllLines /\ x[2].fund \in {y[1]} /\ x[2].account \in {y[2]}
                           /\ entries[x[1]].day \in 0..d
    BY <2>2, QueryOf
  <2>7. ASSUME NEW x PROVE x \in P <=> x \in U /\ key[x] = y
    BY <1>6, <1>7, <2>1, <2>6
  <2>. QED  BY <2>4, <2>5, <2>7
<1>9. Total(N, U) = Total(nets, D)
  <2>1. \A y \in D : \A x : x \in part[y] <=> x \in U /\ key[x] = y
    BY <1>8
  <2>2. \A y \in D : nets[y] = Total(N, part[y])
    BY <1>8
  <2>3. Grouped(U, D, key, N, part, nets)
    BY <1>4, <1>5, <1>7, <2>1, <2>2 DEF Grouped
  <2>. QED  BY <2>3, TotalByKey
<1>10. DOMAIN nets = D /\ DOMAIN pos = D /\ DOMAIN neg = D
  BY <1>2
<1>11. ASSUME NEW y \in D
       PROVE  pos[y] \in Int /\ neg[y] \in Int /\ nets[y] = pos[y] - neg[y]
  <2>1. nets[y] \in Int /\ pos[y] = Positive(nets[y]) /\ neg[y] = Positive(-nets[y])
    BY <1>2, <1>8, <1>10
  <2>2. PICK n \in Int : n = nets[y]
    BY <2>1
  <2>. QED  BY <2>1, <2>2 DEF Positive
<1>12. Total(nets, D) = Total(pos, D) - Total(neg, D)
       /\ Total(pos, D) \in Int /\ Total(neg, D) \in Int
  BY <1>4, <1>11, TotalMinus, TotalType
<1>13. Total(pos, D) = Total(neg, D)
  BY <1>5, <1>9, <1>12
<1>14. SumFunction(pos) = Total(pos, D) /\ SumFunction(neg) = Total(neg, D)
  BY <1>10, SumTotal
<1>15. TrialBalance(fs, d).debit = SumFunction(pos) /\ TrialBalance(fs, d).credit = SumFunction(neg)
  BY <1>2 DEF TrialBalance
<1>. QED  BY <1>13, <1>14, <1>15

-----------------------------------------------------------------------------
(* The reports of a period without reversals. *)

LEMMA Unreversed ==
  ASSUME BooksInv, NEW fs, NEW acs, NEW a, NEW b, ~ReversedIn(a, b)
  PROVE  \A x \in PostedIn(LinesOn(fs, acs), a..b) :
            /\ x \in AllLines /\ x[2].fund \in fs /\ x[2].account \in acs
            /\ x[1] \in DOMAIN entries /\ entries[x[1]].day \in a..b
            /\ ~entries[x[1]].reversal /\ entries[x[1]].source \in Sources
            /\ Accounted(entries[x[1]], x[2])
<1>. SUFFICES ASSUME NEW x \in PostedIn(LinesOn(fs, acs), a..b)
              PROVE  /\ x \in AllLines /\ x[2].fund \in fs /\ x[2].account \in acs
                     /\ x[1] \in DOMAIN entries /\ entries[x[1]].day \in a..b
                     /\ ~entries[x[1]].reversal /\ entries[x[1]].source \in Sources
                     /\ Accounted(entries[x[1]], x[2])
  OBVIOUS
<1>1. PICK ds : ds = a..b
  OBVIOUS
<1>2. x \in AllLines /\ x[2].fund \in fs /\ x[2].account \in acs /\ entries[x[1]].day \in ds
  BY <1>1, QueryOf
<1>3. x[1] \in DOMAIN entries /\ Accounted(entries[x[1]], x[2]) /\ entries[x[1]] \in Entry
  BY <1>2, AllLinesType DEF Sound
<1>4. ~entries[x[1]].reversal
  BY <1>1, <1>2, <1>3 DEF ReversedIn
<1>. QED  BY <1>1, <1>2, <1>3, <1>4 DEF Entry

LEMMA CashReconciles ==
  ASSUME BooksInv, NEW fs, NEW a \in Nat, NEW b \in Nat, a <= b, ~ReversedIn(a, b)
  PROVE  Reconciles(CashFlow(fs, a, b))
<1>1. PICK K, C, D, T, B :
         /\ K = PostedIn(LinesOn(fs, {"Cash"}), a..b)
         /\ C = OfSource(K, Contribution) /\ D = OfSource(K, Disbursement)
         /\ T = OfSource(K, {"fund_transfer"}) /\ B = C \cup D
  OBVIOUS
<1>2. /\ K \in SUBSET AllLines
      /\ \A x \in K : /\ x[2].account = "Cash" /\ ~entries[x[1]].reversal
                      /\ entries[x[1]].source \in Sources /\ Accounted(entries[x[1]], x[2])
  BY <1>1, Unreversed
<1>3. /\ C \in SUBSET AllLines /\ D \in SUBSET AllLines /\ T \in SUBSET AllLines
      /\ B \in SUBSET AllLines /\ C \cap D = {} /\ B \cap T = {} /\ K = B \cup T
  BY <1>1, <1>2 DEF OfSource, Sources, Contribution, Disbursement
<1>4. (\A x \in C : x[2].credit = 0) /\ \A x \in D : x[2].debit = 0
  BY <1>1, <1>2 DEF OfSource, Accounted
<1>5. CreditSum(C) = 0 /\ DebitSum(D) = 0
  BY <1>3, <1>4, OneSided
<1>6. NetDebit(B) = NetDebit(C) + NetDebit(D) /\ NetDebit(K) = NetDebit(B) + NetDebit(T)
  BY <1>1, <1>3, NetUnion
<1>7. /\ NetDebit(C) = DebitSum(C) - CreditSum(C) /\ NetDebit(D) = DebitSum(D) - CreditSum(D)
      /\ NetDebit(T) = DebitSum(T) - CreditSum(T)
      /\ DebitSum(C) \in Nat /\ CreditSum(D) \in Nat /\ DebitSum(T) \in Nat /\ CreditSum(T) \in Nat
  BY <1>3, SumsAre
<1>8. PICK cf : cf = CashFlow(fs, a, b)
  OBVIOUS
<1>9. /\ cf.operatingIn = DebitSum(C) /\ cf.operatingOut = CreditSum(D)
      /\ cf.financingIn = DebitSum(T) /\ cf.financingOut = CreditSum(T)
  BY <1>1, <1>8 DEF CashFlow, Inflows
<1>10. cf.closing = cf.opening + NetDebit(K) /\ cf.opening \in Int
  <2>1. \A acs : NetDebit(PostedIn(LinesOn(fs, acs), 0..b)) =
                    NetDebit(PostedIn(LinesOn(fs, acs), 0..(a - 1)))
                       + NetDebit(PostedIn(LinesOn(fs, acs), a..b))
    BY PeriodsAdd
  <2>2. \A acs, ds : NetDebit(PostedIn(LinesOn(fs, acs), ds)) \in Int
    BY QueryOf, SumsAre
  <2>3. /\ cf.opening = NetDebit(PostedIn(LinesOn(fs, {"Cash"}), 0..(a - 1)))
        /\ cf.closing = NetDebit(PostedIn(LinesOn(fs, {"Cash"}), 0..b))
    BY <1>8 DEF CashFlow
  <2>. QED  BY <1>1, <2>1, <2>2, <2>3
<1>11. PICK o, dc, cd, dt, ct \in Int :
          /\ o = cf.opening /\ dc = DebitSum(C) /\ cd = CreditSum(D) /\ dt = DebitSum(T)
          /\ ct = CreditSum(T)
  BY <1>7, <1>10
<1>12. NetDebit(K) = dc - cd + dt - ct
  BY <1>5, <1>6, <1>7, <1>11
<1>13. cf.closing - cf.opening =
          cf.operatingIn - cf.operatingOut + cf.financingIn - cf.financingOut
  BY <1>9, <1>10, <1>11, <1>12
<1>. QED  BY <1>8, <1>13 DEF Reconciles

LEMMA IncomeBars ==
  ASSUME BooksInv, NEW a, NEW b, ~ReversedIn(a, b)
  PROVE  /\ MonthlyBars(a, b).contributions = IncomeExpenditure(Funds, a, b).income
         /\ ManualPayments(a, b) <= MonthlyBars(a, b).contributions
<1>1. PICK L, M, R : /\ L = PostedIn(LinesOn(Funds, Incomes), a..b)
                     /\ M = OfSource(L, {"contribution_payment_manual"}) /\ R = L \ M
  OBVIOUS
<1>2. /\ L \in SUBSET AllLines
      /\ \A x \in L : x[2].debit = 0
  <2>1. \A x \in L : x \in AllLines /\ x[2].account \in Incomes /\ ~entries[x[1]].reversal
                     /\ Accounted(entries[x[1]], x[2])
    BY <1>1, Unreversed
  <2>. QED  BY <2>1 DEF Accounted
<1>3. M \in SUBSET AllLines /\ R \in SUBSET AllLines /\ M \cap R = {} /\ L = M \cup R
  BY <1>1, <1>2 DEF OfSource
<1>4. DebitSum(L) = 0 /\ CreditSum(L) = CreditSum(M) + CreditSum(R)
  BY <1>2, <1>3, OneSided, SidesUnion
<1>5. /\ NetDebit(L) = DebitSum(L) - CreditSum(L) /\ NetCredit(L) = -NetDebit(L)
      /\ CreditSum(L) \in Nat /\ CreditSum(M) \in Nat /\ CreditSum(R) \in Nat
  BY <1>2, <1>3, SumsAre
<1>6. NetCredit(L) = CreditSum(L) /\ CreditSum(M) <= CreditSum(L)
  BY <1>4, <1>5
<1>7. /\ MonthlyBars(a, b).contributions = CreditSum(L)
      /\ IncomeExpenditure(Funds, a, b).income = NetCredit(L)
      /\ ManualPayments(a, b) = CreditSum(M)
  BY <1>1 DEF MonthlyBars, IncomeExpenditure, ManualPayments
<1>. QED  BY <1>6, <1>7

BenefitBudgets(a, b) == [f \in Funds |-> BudgetActual(f, "Benefits Expense", a, b)]

LEMMA BenefitBars ==
  ASSUME BooksInv, NEW a, NEW b, ~ReversedIn(a, b)
  PROVE  MonthlyBars(a, b).claimsPaid = SumFunction(BenefitBudgets(a, b))
<1>1. PICK B, g : /\ B = PostedIn(LinesOn(Funds, {"Benefits Expense"}), a..b)
                  /\ g = BenefitBudgets(a, b)
                  /\ g = [f \in Funds |-> BudgetActual(f, "Benefits Expense", a, b)]
  BY DEF BenefitBudgets
<1>2. B \in SUBSET AllLines /\ \A x \in B : x[2].credit = 0
  <2>1. ASSUME NEW x \in B PROVE x \in AllLines /\ x[2].credit = 0
    <3>1. PICK e, l : e = entries[x[1]] /\ l = x[2]
      OBVIOUS
    <3>2. x \in AllLines /\ l.account = "Benefits Expense" /\ ~e.reversal /\ Accounted(e, l)
      <4>1. PICK acs : acs = {"Benefits Expense"} /\ x \in PostedIn(LinesOn(Funds, acs), a..b)
        BY <1>1
      <4>2. /\ x \in AllLines /\ x[2].account \in acs /\ ~entries[x[1]].reversal
            /\ Accounted(entries[x[1]], x[2])
        BY <4>1, Unreversed
      <4>. QED  BY <3>1, <4>1, <4>2
    <3>3. l.credit = 0
      BY <3>2, Zenon DEF Accounted
    <3>. QED  BY <3>1, <3>2, <3>3
  <2>. QED  BY <2>1
<1>3. NetDebit(B) = DebitSum(B)
  BY <1>2, OneSided
<1>4. \A f \in Funds : g[f] = NetDebit(PostedIn(LinesOn({f}, {"Benefits Expense"}), a..b))
  BY <1>1 DEF BudgetActual, Incomes
<1>5. NetDebit(B) = Total(g, Funds)
  <2>1. PICK acs, ds : acs = {"Benefits Expense"} /\ ds = a..b
    OBVIOUS
  <2>2. \A f \in Funds : g[f] = NetDebit(PostedIn(LinesOn({f}, acs), ds))
    BY <1>4, <2>1
  <2>3. NetDebit(PostedIn(LinesOn(Funds, acs), ds)) = Total(g, Funds)
    BY <2>2, FundsAdd
  <2>. QED  BY <1>1, <2>1, <2>3
<1>6. SumFunction(g) = Total(g, Funds)
  <2>1. DOMAIN g = Funds
    BY <1>1
  <2>. QED  BY <2>1, SumTotal
<1>7. MonthlyBars(a, b).claimsPaid = DebitSum(B)
  BY <1>1 DEF MonthlyBars
<1>. QED  BY <1>1, <1>3, <1>5, <1>6, <1>7

\* The lines on Cash of one entry, as rows of the ledger.
LEMMA RowMoves ==
  ASSUME BooksInv, NEW i \in DOMAIN entries, NEW U,
         \A x : x \in U <=> x \in AllLines /\ x[1] = i /\ x[2].account = "Cash"
  PROVE  Total(Nets, U) = CashMoved(entries[i])
<1>1. PICK L, f, s, N : /\ L = {m \in entries[i].lines : m.account = "Cash"}
                        /\ f = [l \in L |-> l.debit - l.credit]
                        /\ s = [l \in L |-> <<i, l>>] /\ N = Nets
  OBVIOUS
<1>2. Sound(entries[i]) /\ i \in Nat /\ \A l \in L : l \in Line /\ l \in entries[i].lines
  BY <1>1, EntriesType DEF BooksInv, Sound, Entry
<1>3. U = {s[l] : l \in L}
  <2>1. \A l \in L : <<i, l>> \in AllLines /\ l.account = "Cash"
    <3>1. \A l \in L : l.fund \in Funds /\ l.account \in Accounts
      BY <1>2 DEF Line
    <3>2. ASSUME NEW l \in L PROVE <<i, l>> \in AllLines
      <4>1. <<i, l>> \in LinesOn(Funds, Accounts) <=>
              \E j \in DOMAIN entries : \E m \in entries[j].lines :
                 <<i, l>> = <<j, m>> /\ m.fund \in Funds /\ m.account \in Accounts
        BY LinesIn
      <4>. QED  BY <1>2, <3>1, <4>1 DEF AllLines
    <3>. QED  BY <1>1, <3>2
  <2>2. \A x \in U : x[2] \in L /\ x = <<i, x[2]>>
    BY <1>1, AllLinesType
  <2>3. \A l \in L : s[l] = <<i, l>>
    BY <1>1
  <2>4. \A l \in L : s[l] \in U
    <3>1. \A l \in L : <<i, l>>[1] = i /\ <<i, l>>[2] = l
      OBVIOUS
    <3>. QED  BY <2>1, <2>3, <3>1
  <2>5. \A x \in U : x = s[x[2]] /\ x[2] \in L
    BY <2>2, <2>3
  <2>. QED  BY <2>4, <2>5
<1>4. \A l \in L : s[l] = <<i, l>> /\ N[s[l]] \in Int /\ f[l] = N[s[l]]
  <2>1. \A l \in L : <<i, l>> \in Pairs /\ l.debit - l.credit \in Int
    BY <1>2 DEF Pairs, Line
  <2>2. \A l \in L : Nets[<<i, l>>] = l.debit - l.credit
    BY <2>1 DEF Nets
  <2>. QED  BY <1>1, <2>1, <2>2
<1>5. IsFiniteSet(L) /\ \A l, m \in L : s[l] = s[m] => l = m
  <2>1. L \in SUBSET entries[i].lines /\ IsFiniteSet(entries[i].lines)
    BY <1>1, <1>2 DEF Sound
  <2>. QED  BY <1>4, <2>1, FS_Subset
<1>6. Total(f, L) = Total(N, {s[l] : l \in L})
  BY <1>4, <1>5, TotalImage
<1>7. CashMoved(entries[i]) = Total(f, L)
  <2>1. DOMAIN f = L
    BY <1>1
  <2>. QED  BY <1>1, <2>1, SumTotal DEF CashMoved
<1>. QED  BY <1>1, <1>3, <1>6, <1>7

LEMMA TransfersNet ==
  ASSUME BooksInv, NEW a, NEW b, a..b \in SUBSET Days, ~ReversedIn(a, b)
  PROVE  CashFlow(Funds, a, b).financingIn = CashFlow(Funds, a, b).financingOut
<1>1. PICK ds, K, T : /\ ds = a..b /\ K = PostedIn(LinesOn(Funds, {"Cash"}), ds)
                      /\ T = OfSource(K, {"fund_transfer"})
  OBVIOUS
<1>2. /\ K \in SUBSET AllLines /\ T \in SUBSET AllLines
      /\ \A x : x \in T <=> /\ x \in AllLines /\ x[2].account = "Cash"
                            /\ entries[x[1]].day \in ds /\ entries[x[1]].source = "fund_transfer"
  <2>1. \A x : x \in K <=> /\ x \in AllLines /\ x[2].fund \in Funds /\ x[2].account \in {"Cash"}
                           /\ entries[x[1]].day \in ds
    BY <1>1, QueryOf
  <2>2. \A x \in AllLines : x[2].fund \in Funds
    BY AllLinesType DEF Line
  <2>3. \A x : x \in T <=> x \in K /\ entries[x[1]].source = "fund_transfer"
    BY <1>1 DEF OfSource
  <2>. QED  BY <2>1, <2>2, <2>3
<1>3. PICK N, D, key, part, g :
         /\ N = Nets /\ D = DOMAIN entries /\ key = [x \in T |-> x[1]]
         /\ part = [i \in D |-> {x \in T : x[1] = i}]
         /\ g = [i \in D |-> Transferred(entries[i], ds)]
  OBVIOUS
<1>4. ASSUME NEW i \in D PROVE g[i] = Total(N, part[i])
  <2>1. PICK V : V = part[i] /\ \A x : x \in V <=> x \in T /\ x[1] = i
    BY <1>3
  <2>2. CASE entries[i].source = "fund_transfer" /\ entries[i].day \in ds
    <3>1. \A x : x \in V <=> x \in AllLines /\ x[1] = i /\ x[2].account = "Cash"
      BY <1>2, <2>1, <2>2
    <3>2. Total(N, V) = CashMoved(entries[i])
      BY <1>3, <3>1, RowMoves
    <3>3. ~entries[i].reversal
      BY <1>1, <1>3, <2>2 DEF ReversedIn
    <3>. QED  BY <1>3, <2>1, <2>2, <3>2, <3>3 DEF Transferred
  <2>3. CASE ~(entries[i].source = "fund_transfer" /\ entries[i].day \in ds)
    <3>1. V = {}
      BY <1>2, <2>1, <2>3
    <3>. QED  BY <1>3, <2>1, <2>3, <3>1, TotalEmpty DEF Transferred
  <2>. QED  BY <2>2, <2>3
<1>5. /\ IsFiniteSet(T) /\ (\A x \in T : N[x] \in Int) /\ NetDebit(T) = Total(N, T)
      /\ NetDebit(T) = DebitSum(T) - CreditSum(T) /\ DebitSum(T) \in Nat /\ CreditSum(T) \in Nat
  BY <1>2, <1>3, SumsAre
<1>6. IsFiniteSet(D)
  BY <1>3, EntriesType DEF BooksInv
<1>7. /\ \A x \in T : key[x] \in D
      /\ \A i \in D : \A x : x \in part[i] <=> x \in T /\ key[x] = i
  <2>1. \A x \in T : key[x] = x[1] /\ key[x] \in D
    BY <1>2, <1>3, AllLinesType
  <2>. QED  BY <1>3, <2>1
<1>8. Total(N, T) = Total(g, D)
  <2>1. \A i \in D : g[i] = Total(N, part[i])
    BY <1>4
  <2>2. IsFiniteSet(T) /\ \A x \in T : N[x] \in Int
    BY <1>5
  <2>3. Grouped(T, D, key, N, part, g)
    BY <1>6, <1>7, <2>1, <2>2 DEF Grouped
  <2>. QED  BY <2>3, TotalByKey
<1>9. Total(g, D) = 0
  <2>1. DOMAIN g = D
    BY <1>3
  <2>2. SumFunction(g) = 0
    BY <1>1, <1>3 DEF BooksInv, TransfersMatch
  <2>. QED  BY <2>1, <2>2, SumTotal
<1>10. DebitSum(T) = CreditSum(T)
  <2>1. NetDebit(T) = 0
    BY <1>5, <1>8, <1>9
  <2>2. PICK d \in Nat, c \in Nat : d = DebitSum(T) /\ c = CreditSum(T)
    BY <1>5
  <2>. QED  BY <1>5, <2>1, <2>2
<1>. QED  BY <1>1, <1>10 DEF CashFlow

LEMMA UnreversedPeriods == BooksInv => UnreversedPeriodsAgree
<1>. SUFFICES ASSUME BooksInv, NEW p \in Periods, ~ReversedIn(p[1], p[2])
              PROVE  LET a == p[1]
                         b == p[2]
                         all == CashFlow(Funds, a, b)
                     IN
                     /\ \A fs \in FundSets : Reconciles(CashFlow(fs, a, b))
                     /\ all.financingIn = all.financingOut
                     /\ MonthlyBars(a, b).contributions = IncomeExpenditure(Funds, a, b).income
                     /\ MonthlyBars(a, b).claimsPaid =
                           SumFunction([f \in Funds |-> BudgetActual(f, "Benefits Expense", a, b)])
                     /\ ManualPayments(a, b) <= MonthlyBars(a, b).contributions
  BY DEF UnreversedPeriodsAgree
<1>1. PICK a, b : /\ a = p[1] /\ b = p[2] /\ a \in Nat /\ b \in Nat /\ a <= b
                  /\ b <= MaxDay /\ ~ReversedIn(a, b)
  BY BooksAssumption DEF Periods, Days
<1>2. a..b \in SUBSET Days
  BY <1>1, BooksAssumption DEF Days
<1>3. \A fs : Reconciles(CashFlow(fs, a, b))
  BY <1>1, CashReconciles
<1>4. CashFlow(Funds, a, b).financingIn = CashFlow(Funds, a, b).financingOut
  BY <1>1, <1>2, TransfersNet
<1>5. /\ MonthlyBars(a, b).contributions = IncomeExpenditure(Funds, a, b).income
      /\ ManualPayments(a, b) <= MonthlyBars(a, b).contributions
  BY <1>1, IncomeBars
<1>6. MonthlyBars(a, b).claimsPaid =
         SumFunction([f \in Funds |-> BudgetActual(f, "Benefits Expense", a, b)])
  <2>1. MonthlyBars(a, b).claimsPaid = SumFunction(BenefitBudgets(a, b))
    BY <1>1, BenefitBars
  <2>. QED  BY <2>1 DEF BenefitBudgets
<1>. QED  BY <1>1, <1>3, <1>4, <1>5, <1>6

-----------------------------------------------------------------------------
(* Posting keeps the invariant. *)

\* What the transfers among some entries move on some days.
Moves(s, ds) == SumFunction([i \in DOMAIN s |-> Transferred(s[i], ds)])

SoundBooks(s) ==
    /\ s \in Seq(Entry)
    /\ \A i \in DOMAIN s : Sound(s[i])

LEMMA TotalSingleton == ASSUME NEW f, NEW x, f[x] \in Int PROVE Total(f, {x}) = f[x]
<1>1. PICK S : S = {x}
  OBVIOUS
<1>2. IsFiniteSet(S) /\ x \in S /\ \A y \in S : f[y] \in Int
  BY <1>1, FS_Singleton
<1>3. Total(f, S) = f[x] + Total(f, S \ {x})
  BY <1>2, TotalRemove
<1>4. S \ {x} = {}
  BY <1>1
<1>5. Total(f, S) = f[x] + 0
  BY <1>3, <1>4, TotalEmpty
<1>. QED  BY <1>1, <1>5

\* One more entry moves what it moves itself.
LEMMA MovesAppend ==
  ASSUME NEW s, SoundBooks(s), NEW e, Sound(e), NEW ds
  PROVE  /\ SoundBooks(Append(s, e))
         /\ Moves(Append(s, e), ds) = Moves(s, ds) + Transferred(e, ds)
         /\ Moves(s, ds) \in Int
<1>1. PICK t, n : t = Append(s, e) /\ n = Len(s) + 1 /\ n \in Nat
  <2>1. s \in Seq(Entry)
    BY DEF SoundBooks
  <2>2. PICK k \in Nat : k = Len(s)
    BY <2>1
  <2>3. k + 1 \in Nat
    OBVIOUS
  <2>. QED  BY <2>2, <2>3
<1>2. e \in Entry /\ s \in Seq(Entry)
  BY DEF Sound, SoundBooks
<1>3. /\ t \in Seq(Entry) /\ DOMAIN t = 1..n /\ DOMAIN s = 1..(n - 1)
      /\ t[n] = e /\ \A i \in 1..(n - 1) : t[i] = s[i]
  BY <1>1, <1>2
<1>4. DOMAIN t = DOMAIN s \cup {n} /\ n \notin DOMAIN s
  <2>1. 1..n = 1..(n - 1) \cup {n} /\ n \notin 1..(n - 1)
    BY <1>1
  <2>. QED  BY <1>3, <2>1
<1>5. \A i \in DOMAIN t : Sound(t[i])
  BY <1>3, <1>4 DEF SoundBooks
<1>6. PICK D, f, g : /\ D = DOMAIN s /\ f = [i \in DOMAIN t |-> Transferred(t[i], ds)]
                     /\ g = [i \in D |-> Transferred(s[i], ds)]
  OBVIOUS
<1>7. \A i \in DOMAIN t : f[i] = Transferred(t[i], ds) /\ f[i] \in Int
  BY <1>5, <1>6, TransferredType
<1>8. \A i \in D : g[i] = f[i] /\ f[i] \in Int
  BY <1>3, <1>4, <1>6, <1>7
<1>9. IsFiniteSet(D) /\ IsFiniteSet({n})
  <2>1. \A k, m \in Int : IsFiniteSet(k..m)
    BY FS_Interval
  <2>2. IsFiniteSet(1..(n - 1))
    BY <1>1, <2>1
  <2>. QED  BY <1>3, <1>6, <2>2, FS_Singleton
<1>10. Total(f, D \cup {n}) = Total(f, D) + Total(f, {n})
  <2>1. PICK Q : Q = {n}
    OBVIOUS
  <2>2. D \cap Q = {} /\ \A x \in D \cup Q : f[x] \in Int
    BY <1>4, <1>6, <1>7, <2>1
  <2>3. Total(f, D \cup Q) = Total(f, D) + Total(f, Q)
    BY <1>9, <2>1, <2>2, TotalUnion
  <2>. QED  BY <2>1, <2>3
<1>11. Total(f, {n}) = Transferred(e, ds)
  <2>1. f[n] \in Int /\ f[n] = Transferred(e, ds)
    BY <1>3, <1>4, <1>7
  <2>. QED  BY <2>1, TotalSingleton
<1>12. Total(g, D) = Total(f, D) /\ Total(g, D) \in Int
  BY <1>8, <1>9, TotalEqual, TotalType
<1>13. Moves(t, ds) = Total(f, D \cup {n}) /\ Moves(s, ds) = Total(g, D)
  <2>1. DOMAIN f = D \cup {n} /\ DOMAIN g = D
    BY <1>4, <1>6
  <2>. QED  BY <1>6, <2>1, SumTotal DEF Moves
<1>. QED  BY <1>1, <1>3, <1>5, <1>10, <1>11, <1>12, <1>13 DEF SoundBooks

LEMMA BooksInvParts ==
  BooksInv <=> /\ SoundBooks(entries) /\ day \in Days
               /\ handler \in [Handlers -> {Idle} \cup TransferCall]
               /\ \A ds \in SUBSET Days : Moves(entries, ds) = 0
  BY DEF BooksInv, SoundBooks, TypeOK, TransfersMatch, Moves

\* Posting an entry that transfers nothing.
LEMMA PostOne ==
  ASSUME BooksInv, NEW e, Sound(e), e.source # "fund_transfer" \/ e.reversal,
         entries' = Append(entries, e), UNCHANGED <<day, handler>>
  PROVE  BooksInv'
<1>1. SoundBooks(entries) /\ \A ds \in SUBSET Days : Moves(entries, ds) = 0
  BY BooksInvParts
<1>2. \A ds : Transferred(e, ds) = 0
  BY DEF Transferred
<1>3. SoundBooks(Append(entries, e))
  BY <1>1, MovesAppend
<1>4. \A ds \in SUBSET Days : Moves(Append(entries, e), ds) = 0
  BY <1>1, <1>2, MovesAppend
<1>5. /\ SoundBooks(entries') /\ day' \in Days
      /\ handler' \in [Handlers -> {Idle} \cup TransferCall]
      /\ \A ds \in SUBSET Days : Moves(entries', ds) = 0
  BY <1>3, <1>4, BooksInvParts
<1>. QED  BY <1>5 DEF BooksInv, SoundBooks, TypeOK, TransfersMatch, Moves, Sound, Transferred

\* The lines the operations post are lines.
LEMMA LineType ==
  ASSUME NEW f \in Funds, NEW a \in Accounts, NEW n \in Nat
  PROVE  Debit(f, a, n) \in Line /\ Credit(f, a, n) \in Line
  BY DEF Debit, Credit, Line

LEMMA Signs == \A p \in Int : (p \in Nat /\ p > 0) \/ (-p \in Nat /\ ~(p > 0))
  OBVIOUS

LEMMA FiniteFew ==
  ASSUME NEW a, NEW b, NEW c, NEW d
  PROVE  IsFiniteSet({a, b}) /\ IsFiniteSet({a, b, c}) /\ IsFiniteSet({a, b, c, d})
<1>1. IsFiniteSet({a} \cup {b}) /\ IsFiniteSet({c} \cup {d}) /\ IsFiniteSet({c})
  BY FS_Singleton, FS_Union
<1>2. IsFiniteSet(({a} \cup {b}) \cup ({c} \cup {d})) /\ IsFiniteSet(({a} \cup {b}) \cup {c})
  BY <1>1, FS_Union
<1>3. /\ {a, b} = {a} \cup {b} /\ {a, b, c} = ({a} \cup {b}) \cup {c}
      /\ {a, b, c, d} = ({a} \cup {b}) \cup ({c} \cup {d})
  OBVIOUS
<1>. QED  BY <1>1, <1>2, <1>3

\* A posted entry is sound when its lines are, each on its own.
LEMMA SoundEntry ==
  ASSUME TypeOK, NEW source \in Sources, NEW lines, IsFiniteSet(lines), Postable(lines),
         NEW f \in Funds,
         \A l \in lines : /\ l \in Line /\ l.fund = f
                          /\ Accounted(NewEntry(source, lines), l)
  PROVE  Sound(NewEntry(source, lines))
<1>1. NewEntry(source, lines) \in Entry
  BY DEF NewEntry, Entry, TypeOK
<1>2. NewEntry(source, lines).lines = lines
  BY DEF NewEntry
<1>3. Balances(lines)
  BY DEF Postable, Balances
<1>. QED  BY <1>1, <1>2, <1>3 DEF Sound

LEMMA RecordContributionKeeps ==
  ASSUME BooksInv, NEW f \in Funds, NEW r \in Receipts, NEW s \in Contribution,
         RecordContribution(f, r, s)
  PROVE  BooksInv'
<1>. DEFINE income == r.cash + r.fee - r.parked
            parked == IF r.parked > 0 THEN Credit(f, "Member Credit Balance", r.parked)
                                      ELSE Debit(f, "Member Credit Balance", -r.parked)
            four == {Debit(f, "Cash", r.cash), Debit(f, "Fees", r.fee),
                     Credit(f, "Contributions Income", income), parked}
            lines == {l \in four : l.debit # 0 \/ l.credit # 0}
<1>1. /\ r.cash \in Nat /\ r.fee \in Nat /\ r.parked \in Int /\ income \in Nat
  <2>1. r.cash \in Nat /\ r.fee \in Nat /\ r.parked \in Int /\ r.parked <= r.cash + r.fee
    BY BooksAssumption
  <2>. QED  BY <2>1
<1>2. Post(s, lines) /\ UNCHANGED <<day, handler>>
  BY DEF RecordContribution
<1>3. s \in Sources /\ s # "fund_transfer" /\ s \notin Disbursement
  BY DEF Sources, Contribution, Disbursement
<1>4. PICK e : e = NewEntry(s, lines)
  OBVIOUS
<1>5. e.source = s
  BY <1>4 DEF NewEntry
<1>6. ASSUME NEW l \in lines PROVE l \in Line /\ l.fund = f /\ Accounted(e, l)
  <2>1. {"Cash", "Fees", "Contributions Income", "Member Credit Balance"} \subseteq Accounts
    BY DEF Accounts, Assets, Expenses, Incomes
  <2>2. CASE l = Debit(f, "Cash", r.cash)
    <3>1. l \in Line
      BY <1>1, <2>1, <2>2, LineType
    <3>2. l.fund = f /\ l.account = "Cash" /\ l.credit = 0
      BY <2>2 DEF Debit
    <3>. QED  BY <1>3, <1>5, <3>1, <3>2 DEF Accounted, Incomes
  <2>3. CASE l = Debit(f, "Fees", r.fee)
    <3>1. l \in Line
      BY <1>1, <2>1, <2>3, LineType
    <3>2. l.fund = f /\ l.account = "Fees"
      BY <2>3 DEF Debit
    <3>. QED  BY <1>3, <1>5, <3>1, <3>2 DEF Accounted, Incomes
  <2>4. CASE l = Credit(f, "Contributions Income", income)
    <3>1. l \in Line
      BY <1>1, <2>1, <2>4, LineType
    <3>2. l.fund = f /\ l.account = "Contributions Income" /\ l.debit = 0
      BY <2>4 DEF Credit
    <3>. QED  BY <1>3, <1>5, <3>1, <3>2 DEF Accounted, Incomes
  <2>5. CASE l = parked
    <3>1. l \in Line /\ l.fund = f /\ l.account = "Member Credit Balance"
      <4>1. PICK p, m : p = r.parked /\ m = -p
        OBVIOUS
      <4>2. (p \in Nat /\ p > 0) \/ (m \in Nat /\ ~(p > 0))
        BY <1>1, <4>1, Signs
      <4>3. l = IF p > 0 THEN Credit(f, "Member Credit Balance", p)
                         ELSE Debit(f, "Member Credit Balance", m)
        BY <2>5, <4>1
      <4>. HIDE DEF lines, four, parked, income
      <4>4. CASE p \in Nat /\ p > 0
        <5>1. l = Credit(f, "Member Credit Balance", p)
          BY <4>3, <4>4
        <5>2. l \in Line
          BY <2>1, <4>4, <5>1, LineType
        <5>. QED  BY <5>1, <5>2 DEF Credit
      <4>5. CASE m \in Nat /\ ~(p > 0)
        <5>1. l = Debit(f, "Member Credit Balance", m)
          BY <4>3, <4>5
        <5>2. l \in Line
          BY <2>1, <4>5, <5>1, LineType
        <5>. QED  BY <5>1, <5>2 DEF Debit
      <4>. QED  BY <4>2, <4>4, <4>5
    <3>. QED  BY <1>3, <1>5, <3>1 DEF Accounted, Incomes
  <2>. HIDE DEF parked, income
  <2>. QED  BY <2>2, <2>3, <2>4, <2>5
<1>7. IsFiniteSet(lines)
  <2>. HIDE DEF parked, income
  <2>1. PICK a, b, c, d : four = {a, b, c, d}
    OBVIOUS
  <2>2. IsFiniteSet(four) /\ lines \in SUBSET four
    <3>1. IsFiniteSet(four)
      <4>. HIDE DEF four
      <4>. QED  BY <2>1, FiniteFew
    <3>. QED  BY <3>1
  <2>. HIDE DEF four, lines
  <2>. QED  BY <2>2, FS_Subset
<1>. HIDE DEF lines
<1>8. Postable(lines) /\ entries' = Append(entries, e) /\ TypeOK
  BY <1>2, <1>4 DEF Post, BooksInv
<1>9. Sound(e)
  BY <1>3, <1>4, <1>6, <1>7, <1>8, SoundEntry
<1>. QED  BY <1>2, <1>3, <1>5, <1>8, <1>9, PostOne

LEMMA DisburseKeeps ==
  ASSUME BooksInv, NEW f \in Funds, NEW n \in Amounts, Disburse(f, n)
  PROVE  BooksInv'
<1>. DEFINE lines == {Debit(f, "Benefits Expense", n), Credit(f, "Cash", n)}
<1>1. n \in Nat /\ Post("benefit_disbursement", lines) /\ UNCHANGED <<day, handler>>
  BY BooksAssumption DEF Disburse
<1>2. PICK e : e = NewEntry("benefit_disbursement", lines)
  OBVIOUS
<1>3. /\ e.source = "benefit_disbursement" /\ "benefit_disbursement" \in Sources
      /\ "benefit_disbursement" \notin Contribution
  BY <1>2 DEF NewEntry, Sources, Disbursement, Contribution
<1>4. ASSUME NEW l \in lines PROVE l \in Line /\ l.fund = f /\ Accounted(e, l)
  <2>1. {"Cash", "Benefits Expense"} \subseteq Accounts
    BY DEF Accounts, Assets, Expenses
  <2>2. CASE l = Debit(f, "Benefits Expense", n)
    <3>1. l \in Line
      BY <1>1, <2>1, <2>2, LineType
    <3>2. l.fund = f /\ l.account = "Benefits Expense" /\ l.credit = 0
      BY <2>2 DEF Debit
    <3>. QED  BY <1>3, <3>1, <3>2 DEF Accounted, Incomes
  <2>3. CASE l = Credit(f, "Cash", n)
    <3>1. l \in Line
      BY <1>1, <2>1, <2>3, LineType
    <3>2. l.fund = f /\ l.account = "Cash" /\ l.debit = 0
      BY <2>3 DEF Credit
    <3>. QED  BY <1>3, <3>1, <3>2 DEF Accounted, Incomes
  <2>. QED  BY <2>2, <2>3
<1>5. IsFiniteSet(lines)
  <2>1. PICK a, b : lines = {a, b}
    OBVIOUS
  <2>. HIDE DEF lines
  <2>. QED  BY <2>1, FiniteFew
<1>. HIDE DEF lines
<1>6. Postable(lines) /\ entries' = Append(entries, e) /\ TypeOK
  BY <1>1, <1>2 DEF Post, BooksInv
<1>7. Sound(e)
  BY <1>2, <1>3, <1>4, <1>5, <1>6, SoundEntry
<1>. QED  BY <1>1, <1>3, <1>6, <1>7, PostOne

LEMMA AutoDisburseKeeps ==
  ASSUME BooksInv, NEW f \in Funds, NEW n \in Amounts, NEW fee \in Fees,
         AutoDisburse(f, n, fee)
  PROVE  BooksInv'
<1>. DEFINE three == {Credit(f, "Cash", n + fee), Debit(f, "Fees", fee),
                      Debit(f, "Settled to MoMo", n)}
            lines == {l \in three : l.debit # 0 \/ l.credit # 0}
<1>1. /\ n \in Nat /\ fee \in Nat /\ n + fee \in Nat
      /\ Post("auto_disbursement", lines) /\ UNCHANGED <<day, handler>>
  <2>1. n \in Nat /\ fee \in Nat
    BY BooksAssumption
  <2>2. Post("auto_disbursement", lines) /\ UNCHANGED <<day, handler>>
    BY DEF AutoDisburse
  <2>3. \A a, b \in Nat : a + b \in Nat
    OBVIOUS
  <2>. HIDE DEF lines
  <2>. QED  BY <2>1, <2>2, <2>3
<1>2. PICK e : e = NewEntry("auto_disbursement", lines)
  OBVIOUS
<1>3. /\ e.source = "auto_disbursement" /\ "auto_disbursement" \in Sources
      /\ "auto_disbursement" \notin Contribution
  BY <1>2 DEF NewEntry, Sources, Disbursement, Contribution
<1>4. ASSUME NEW l \in lines PROVE l \in Line /\ l.fund = f /\ Accounted(e, l)
  <2>1. {"Cash", "Fees", "Settled to MoMo"} \subseteq Accounts
    BY DEF Accounts, Assets, Expenses
  <2>2. CASE l = Credit(f, "Cash", n + fee)
    <3>1. l \in Line
      BY <1>1, <2>1, <2>2, LineType
    <3>2. l.fund = f /\ l.account = "Cash" /\ l.debit = 0
      BY <2>2 DEF Credit
    <3>. QED  BY <1>3, <3>1, <3>2 DEF Accounted, Incomes
  <2>3. CASE l = Debit(f, "Fees", fee)
    <3>1. l \in Line
      BY <1>1, <2>1, <2>3, LineType
    <3>2. l.fund = f /\ l.account = "Fees"
      BY <2>3 DEF Debit
    <3>. QED  BY <1>3, <3>1, <3>2 DEF Accounted, Incomes
  <2>4. CASE l = Debit(f, "Settled to MoMo", n)
    <3>1. l \in Line
      BY <1>1, <2>1, <2>4, LineType
    <3>2. l.fund = f /\ l.account = "Settled to MoMo"
      BY <2>4 DEF Debit
    <3>. QED  BY <1>3, <3>1, <3>2 DEF Accounted, Incomes
  <2>. QED  BY <2>2, <2>3, <2>4
<1>5. IsFiniteSet(lines)
  <2>1. PICK a, b, c : three = {a, b, c}
    OBVIOUS
  <2>2. IsFiniteSet(three) /\ lines \in SUBSET three
    <3>1. IsFiniteSet(three)
      <4>. HIDE DEF three
      <4>. QED  BY <2>1, FiniteFew
    <3>. QED  BY <3>1
  <2>. HIDE DEF three, lines
  <2>. QED  BY <2>2, FS_Subset
<1>. HIDE DEF lines
<1>6. Postable(lines) /\ entries' = Append(entries, e) /\ TypeOK
  BY <1>1, <1>2 DEF Post, BooksInv
<1>7. Sound(e)
  BY <1>2, <1>3, <1>4, <1>5, <1>6, SoundEntry
<1>. QED  BY <1>1, <1>3, <1>6, <1>7, PostOne

LEMMA SwappedLine ==
  ASSUME NEW l \in Line
  PROVE  /\ Swapped(l) \in Line /\ Swapped(l).fund = l.fund /\ Swapped(l).account = l.account
         /\ Swapped(l).debit = l.credit /\ Swapped(l).credit = l.debit
         /\ Swapped(Swapped(l)) = l
  BY DEF Swapped, Line

\* The contra entry balances as the original does.
LEMMA SwappedBalance ==
  ASSUME NEW L, IsFiniteSet(L), \A l \in L : l \in Line, Balances(L),
         NEW R, R = {Swapped(l) : l \in L}
  PROVE  IsFiniteSet(R) /\ Balances(R)
<1>1. PICK f, g, h, s :
         /\ f = [l \in R |-> l.debit - l.credit] /\ g = [l \in L |-> l.debit - l.credit]
         /\ h = [l \in L |-> l.credit - l.debit] /\ s = [l \in L |-> Swapped(l)]
  OBVIOUS
<1>2. R = {s[l] : l \in L}
  BY <1>1
<1>3. ASSUME NEW l \in L PROVE h[l] = f[s[l]] /\ f[s[l]] \in Int
  <2>1. PICK k : k = s[l] /\ k \in R /\ k.debit = l.credit /\ k.credit = l.debit
    BY <1>1, SwappedLine
  <2>2. f[k] = l.credit - l.debit /\ h[l] = l.credit - l.debit
    BY <1>1, <2>1
  <2>3. l.credit - l.debit \in Int
    BY DEF Line
  <2>. QED  BY <2>1, <2>2, <2>3
<1>4. \A l, m \in L : s[l] = s[m] => l = m
  <2>1. \A l \in L : s[l] = Swapped(l) /\ Swapped(Swapped(l)) = l
    BY <1>1, SwappedLine
  <2>. QED  BY <2>1
<1>5. IsFiniteSet(R) /\ Total(h, L) = Total(f, R)
  <2>1. \A l \in L : f[s[l]] \in Int /\ h[l] = f[s[l]]
    BY <1>3
  <2>2. IsFiniteSet(L)
    OBVIOUS
  <2>3. IsFiniteSet({s[l] : l \in L}) /\ Total(h, L) = Total(f, {s[l] : l \in L})
    BY ONLY <1>4, <2>1, <2>2, TotalImage
  <2>. QED  BY <1>2, <2>3
<1>6. Total(g, L) = 0 /\ SumFunction(f) = Total(f, R)
  <2>1. DOMAIN g = L /\ DOMAIN f = R
    BY <1>1
  <2>2. SumFunction(g) = 0
    BY <1>1 DEF Balances
  <2>3. SumFunction(g) = Total(g, DOMAIN g) /\ SumFunction(f) = Total(f, DOMAIN f)
    BY SumTotal
  <2>. QED  BY <2>1, <2>2, <2>3
<1>7. Total(h, L) = 0
  <2>1. ASSUME NEW l \in L PROVE g[l] \in Int /\ h[l] = -g[l]
    <3>1. PICK a \in Nat, b \in Nat : a = l.debit /\ b = l.credit
      BY DEF Line
    <3>2. g[l] = a - b /\ h[l] = b - a
      BY <1>1, <3>1
    <3>. QED  BY <3>2
  <2>2. \A l \in L : g[l] \in Int /\ h[l] = -g[l]
    BY <2>1
  <2>. QED  BY <1>6, <2>2, NegatedZero
<1>8. SumFunction(f) = 0
  BY <1>5, <1>7, <1>6
<1>. QED  BY <1>1, <1>5, <1>8 DEF Balances

LEMMA ReverseEntryKeeps ==
  ASSUME BooksInv, NEW i \in DOMAIN entries, ReverseEntry(i)
  PROVE  BooksInv'
<1>1. PICK o, R, e : /\ o = entries[i] /\ R = {Swapped(l) : l \in o.lines}
                     /\ e = [o EXCEPT !.lines = R, !.reversal = TRUE, !.day = day]
  OBVIOUS
<1>2. Sound(o) /\ o \in Entry /\ IsFiniteSet(o.lines) /\ Balances(o.lines)
  BY <1>1 DEF BooksInv, Sound
<1>3. \A l \in o.lines : l \in Line
  BY <1>2 DEF Entry
<1>4. e.lines = R /\ e.reversal = TRUE /\ e.day = day /\ e.source = o.source
  BY <1>1, <1>2 DEF Entry
<1>5. IsFiniteSet(R) /\ Balances(R)
  BY <1>1, <1>2, <1>3, SwappedBalance
<1>6. R \in SUBSET Line
  BY <1>1, <1>3, SwappedLine
<1>7. e \in Entry
  <2>1. day \in Days
    BY DEF BooksInv, TypeOK
  <2>. QED  BY <1>1, <1>2, <1>6, <2>1 DEF Entry
<1>8. \E f \in Funds : \A l \in R : l.fund = f
  <2>1. PICK f \in Funds : \A l \in o.lines : l.fund = f
    BY <1>2 DEF Sound
  <2>. QED  BY <1>1, <1>3, <2>1, SwappedLine
<1>9. ASSUME NEW l \in R PROVE Accounted(e, l)
  <2>1. PICK m \in o.lines : l = Swapped(m)
    BY <1>1
  <2>2. l.account = m.account /\ Accounted(o, m)
    BY <1>2, <1>3, <2>1, SwappedLine DEF Sound
  <2>. QED  BY <1>4, <2>2 DEF Accounted
<1>10. Sound(e)
  BY <1>4, <1>5, <1>7, <1>8, <1>9 DEF Sound
<1>11. entries' = Append(entries, e) /\ UNCHANGED <<day, handler>>
  BY <1>1 DEF ReverseEntry
<1>. QED  BY <1>4, <1>10, <1>11, PostOne

\* What an entry of two lines, one of them on Cash, moves.
LEMMA MovesCash ==
  ASSUME NEW e, NEW p, NEW q, NEW m, e.lines = {p, q}, p.account # "Cash", q.account = "Cash",
         m = q.debit - q.credit, m \in Int
  PROVE  CashMoved(e) = m
<1>1. PICK S, f : S = {c \in e.lines : c.account = "Cash"} /\ f = [l \in S |-> l.debit - l.credit]
  OBVIOUS
<1>2. S = {q} /\ DOMAIN f = S /\ f[q] = m
  BY <1>1
<1>3. Total(f, {q}) = f[q]
  BY <1>2, TotalSingleton
<1>4. CashMoved(e) = Total(f, S)
  BY <1>1, <1>2, SumTotal DEF CashMoved
<1>. QED  BY <1>2, <1>3, <1>4

LEMMA LineNet == \A l \in Line : l.debit - l.credit \in Int
  BY DEF Line

\* One of the two entries of a transfer: a line on a fund's equity and one on its
\* Cash.
TransferPart(e, f, p, q, lines, m) ==
    /\ f \in Funds
    /\ p \in Line /\ p.fund = f /\ p.account = "Fund Equity"
    /\ q \in Line /\ q.fund = f /\ q.account = "Cash"
    /\ lines = {p, q} /\ Postable(lines) /\ e = NewEntry("fund_transfer", lines)
    /\ m = q.debit - q.credit

LEMMA TransferEntry ==
  ASSUME BooksInv, NEW e, NEW f, NEW p, NEW q, NEW lines, NEW m,
         TransferPart(e, f, p, q, lines, m)
  PROVE  Sound(e) /\ \A ds : Transferred(e, ds) = IF day \in ds THEN m ELSE 0
<1>2. /\ p \in Line /\ p.fund = f /\ p.account = "Fund Equity"
      /\ q \in Line /\ q.fund = f /\ q.account = "Cash"
  BY DEF TransferPart
<1>3. lines = {p, q} /\ f \in Funds /\ m = q.debit - q.credit
  BY DEF TransferPart
<1>4. /\ e.source = "fund_transfer" /\ e.lines = lines /\ e.reversal = FALSE /\ e.day = day
      /\ e = NewEntry("fund_transfer", lines)
  BY <1>3 DEF NewEntry, TransferPart
<1>5. "fund_transfer" \in Sources /\ "fund_transfer" \notin Contribution
      /\ "fund_transfer" \notin Disbursement
  BY DEF Sources, Contribution, Disbursement
<1>6. \A l \in lines : l \in Line /\ l.fund = f /\ Accounted(e, l)
  BY <1>2, <1>3, <1>4, <1>5 DEF Accounted, Incomes
<1>7. IsFiniteSet(lines) /\ Postable(lines)
  BY <1>3, FiniteFew DEF TransferPart
<1>8. Sound(e)
  <2>1. TypeOK
    BY DEF BooksInv
  <2>. QED  BY <1>3, <1>4, <1>5, <1>6, <1>7, <2>1, SoundEntry
<1>9. CashMoved(e) = m
  <2>1. m \in Int
    BY <1>2, <1>3, LineNet
  <2>. QED  BY <1>2, <1>3, <1>4, <2>1, MovesCash
<1>. QED  BY <1>3, <1>4, <1>8, <1>9 DEF Transferred

LEMMA AppendTwo ==
  ASSUME NEW S, NEW s \in Seq(S), NEW x \in S, NEW y \in S
  PROVE  s \o <<x, y>> = Append(Append(s, x), y)
  OBVIOUS

LEMMA TransferCommitKeeps ==
  ASSUME BooksInv, NEW h \in Handlers, TransferCommit(h)
  PROVE  BooksInv'
<1>1. PICK f \in Funds, g \in Funds, n \in Nat :
         f = handler[h].source /\ g = handler[h].target /\ n = handler[h].amount
  <2>1. handler[h] \in {Idle} \cup TransferCall /\ handler[h].op = "transfer"
    BY DEF BooksInv, TypeOK, TransferCommit
  <2>2. handler[h] \in TransferCall
    BY <2>1 DEF Idle
  <2>. QED  BY <2>2, BooksAssumption DEF TransferCall
<1>2. PICK p1, q1, p2, q2 :
         /\ p1 = Debit(f, "Fund Equity", n) /\ q1 = Credit(f, "Cash", n)
         /\ p2 = Credit(g, "Fund Equity", n) /\ q2 = Debit(g, "Cash", n)
  OBVIOUS
<1>3. PICK l1, l2, e1, e2 : /\ l1 = {p1, q1} /\ e1 = NewEntry("fund_transfer", l1)
                            /\ l2 = {p2, q2} /\ e2 = NewEntry("fund_transfer", l2)
  OBVIOUS
<1>4. /\ Postable(l1) /\ Postable(l2)
      /\ entries' = entries \o <<e1, e2>>
  <2>1. PICK posts : posts = TransferEntries(f, g, n) /\ posts = <<l1, l2>>
    <3>1. l2 = {q2, p2}
      BY <1>3
    <3>. QED  BY <1>2, <1>3, <3>1 DEF TransferEntries
  <2>2. /\ \A i \in DOMAIN posts : Postable(posts[i])
        /\ entries' = entries \o [i \in DOMAIN posts |-> NewEntry("fund_transfer", posts[i])]
    BY <1>1, <2>1 DEF TransferCommit
  <2>3. DOMAIN posts = {1, 2} /\ posts[1] = l1 /\ posts[2] = l2
    BY <2>1
  <2>4. [i \in DOMAIN posts |-> NewEntry("fund_transfer", posts[i])] = <<e1, e2>>
    BY <1>3, <2>3
  <2>. QED  BY <2>2, <2>3, <2>4
<1>5. /\ p1 \in Line /\ p1.fund = f /\ p1.account = "Fund Equity"
      /\ q1 \in Line /\ q1.fund = f /\ q1.account = "Cash"
      /\ p2 \in Line /\ p2.fund = g /\ p2.account = "Fund Equity"
      /\ q2 \in Line /\ q2.fund = g /\ q2.account = "Cash"
  <2>1. "Fund Equity" \in Accounts /\ "Cash" \in Accounts
    BY DEF Accounts, Assets
  <2>2. p1 \in Line /\ q1 \in Line /\ p2 \in Line /\ q2 \in Line
    BY <1>2, <2>1, LineType
  <2>3. p1.fund = f /\ p1.account = "Fund Equity" /\ q2.fund = g /\ q2.account = "Cash"
    BY <1>2 DEF Debit
  <2>4. q1.fund = f /\ q1.account = "Cash" /\ p2.fund = g /\ p2.account = "Fund Equity"
    BY <1>2 DEF Credit
  <2>. QED  BY <2>2, <2>3, <2>4
<1>6. PICK m1, m2 : /\ m1 \in Int /\ m2 \in Int /\ m1 + m2 = 0
                    /\ m1 = q1.debit - q1.credit /\ m2 = q2.debit - q2.credit
  <2>1. 0 - n \in Int /\ n - 0 \in Int /\ (0 - n) + (n - 0) = 0
    OBVIOUS
  <2>2. q1.debit = 0 /\ q1.credit = n /\ q2.debit = n /\ q2.credit = 0
    BY <1>2 DEF Debit, Credit
  <2>. QED  BY <2>1, <2>2
<1>7. TransferPart(e1, f, p1, q1, l1, m1) /\ TransferPart(e2, g, p2, q2, l2, m2)
  BY <1>3, <1>4, <1>5, <1>6 DEF TransferPart
<1>8. Sound(e1) /\ \A ds : Transferred(e1, ds) = IF day \in ds THEN m1 ELSE 0
  BY <1>7, TransferEntry
<1>9. Sound(e2) /\ \A ds : Transferred(e2, ds) = IF day \in ds THEN m2 ELSE 0
  BY <1>7, TransferEntry
<1>10. SoundBooks(entries) /\ \A ds \in SUBSET Days : Moves(entries, ds) = 0
  BY BooksInvParts
<1>11. PICK s : s = Append(entries, e1)
  OBVIOUS
<1>12. SoundBooks(s) /\ \A ds \in SUBSET Days : Moves(s, ds) = 0 + Transferred(e1, ds)
  BY <1>8, <1>10, <1>11, MovesAppend
<1>13. entries' = Append(s, e2)
  <2>1. entries \in Seq(Entry) /\ e1 \in Entry /\ e2 \in Entry
    BY <1>8, <1>9, <1>10 DEF SoundBooks, Sound
  <2>. QED  BY <1>4, <1>11, <2>1, AppendTwo
<1>14. SoundBooks(entries')
  BY <1>9, <1>12, <1>13, MovesAppend
<1>15. ASSUME NEW ds \in SUBSET Days PROVE Moves(entries', ds) = 0
  <2>1. Moves(entries', ds) = Moves(s, ds) + Transferred(e2, ds)
    BY <1>9, <1>12, <1>13, MovesAppend
  <2>2. CASE day \in ds
    <3>1. Transferred(e1, ds) = m1 /\ Transferred(e2, ds) = m2
      BY <1>8, <1>9, <2>2
    <3>. QED  BY <1>6, <1>12, <2>1, <3>1
  <2>3. CASE day \notin ds
    <3>1. Transferred(e1, ds) = 0 /\ Transferred(e2, ds) = 0
      BY <1>8, <1>9, <2>3
    <3>. QED  BY <1>12, <2>1, <3>1
  <2>. QED  BY <2>2, <2>3
<1>16. day' \in Days /\ handler' \in [Handlers -> {Idle} \cup TransferCall]
  BY DEF TransferCommit, BooksInv, TypeOK
<1>17. \A ds \in SUBSET Days : Moves(entries', ds) = 0
  BY <1>15
<1>. QED  BY <1>14, <1>16, <1>17
          DEF BooksInv, SoundBooks, TypeOK, TransfersMatch, Moves, Sound, Transferred

-----------------------------------------------------------------------------
(* The results. *)

LEMMA InitBooksInv == Init => BooksInv
<1>. SUFFICES ASSUME Init PROVE BooksInv
  OBVIOUS
<1>1. entries \in Seq(Entry) /\ DOMAIN entries = {}
  BY DEF Init
<1>2. day \in Days /\ handler \in [Handlers -> {Idle} \cup TransferCall]
  BY BooksAssumption DEF Init, Days
<1>3. ASSUME NEW ds \in SUBSET Days
      PROVE  SumFunction([i \in DOMAIN entries |-> Transferred(entries[i], ds)]) = 0
  <2>1. PICK f : f = [i \in DOMAIN entries |-> Transferred(entries[i], ds)]
    OBVIOUS
  <2>2. DOMAIN f = {}
    BY <1>1, <2>1
  <2>3. SumFunction(f) = 0
    BY <2>2, SumTotal, TotalEmpty
  <2>. QED  BY <2>1, <2>3
<1>. QED  BY <1>1, <1>2, <1>3 DEF BooksInv, TypeOK, TransfersMatch

LEMMA NextBooksInv == BooksInv /\ [Next]_vars => BooksInv'
<1>. SUFFICES ASSUME BooksInv, [Next]_vars PROVE BooksInv'
  OBVIOUS
<1>1. CASE NextDay
  <2>1. day' \in Days
    <3>1. day \in Days
      BY DEF BooksInv, TypeOK
    <3>. QED  BY <1>1, <3>1, BooksAssumption DEF NextDay, Days
  <2>2. UNCHANGED <<entries, handler>>
    BY <1>1 DEF NextDay
  <2>. QED  BY <2>1, <2>2 DEF BooksInv, TypeOK, TransfersMatch, Sound, Transferred
<1>2. ASSUME NEW f \in Funds, NEW r \in Receipts, NEW s \in Contribution,
             RecordContribution(f, r, s)
      PROVE  BooksInv'
  BY <1>2, RecordContributionKeeps
<1>3. ASSUME NEW f \in Funds, NEW n \in Amounts, Disburse(f, n) PROVE BooksInv'
  BY <1>3, DisburseKeeps
<1>4. ASSUME NEW f \in Funds, NEW n \in Amounts, NEW fee \in Fees, AutoDisburse(f, n, fee)
      PROVE  BooksInv'
  BY <1>4, AutoDisburseKeeps
<1>5. ASSUME NEW i \in DOMAIN entries, ReverseEntry(i) PROVE BooksInv'
  BY <1>5, ReverseEntryKeeps
<1>6. ASSUME NEW h \in Handlers, NEW f \in Funds, NEW g \in Funds, NEW n \in Amounts,
             TransferRead(h, f, g, n)
      PROVE  BooksInv'
  <2>1. UNCHANGED <<entries, day>>
    BY <1>6 DEF TransferRead
  <2>2. handler' \in [Handlers -> {Idle} \cup TransferCall]
    <3>1. [op |-> "transfer", source |-> f, target |-> g, amount |-> n] \in TransferCall
      BY DEF TransferCall
    <3>. QED  BY <1>6, <3>1 DEF TransferRead, BooksInv, TypeOK
  <2>. QED  BY <2>1, <2>2 DEF BooksInv, TypeOK, TransfersMatch, Sound, Transferred
<1>7. ASSUME NEW h \in Handlers, TransferCommit(h) PROVE BooksInv'
  BY <1>7, TransferCommitKeeps
<1>8. CASE UNCHANGED vars
  BY <1>8 DEF vars, BooksInv, TypeOK, TransfersMatch, Sound, Transferred
<1>. QED  BY <1>1, <1>2, <1>3, <1>4, <1>5, <1>6, <1>7, <1>8 DEF Next

\* Every entry balances, is of one fund, has only lines its source accounts for,
\* and the transfers take from the funds what they give them, whatever operations
\* are called in whatever order.
THEOREM BooksAreSound == Spec => []BooksInv
  BY InitBooksInv, NextBooksInv, PTL DEF Spec

\* The journal, the calendar and the transfers under way have their types.
THEOREM BooksTypes == Spec => []TypeOK
<1>1. BooksInv => TypeOK
  BY DEF BooksInv
<1>. QED  BY <1>1, BooksAreSound, PTL

\* The eight reports tell one story of every period, for any funds, any amounts
\* and any number of entries and reversals.
THEOREM ReportsTellOneStory == Spec => []StatementsAgree
<1>1. BooksInv => StatementsAgree
  BY TrialBalances, FundStatements, CashPositions, Collections DEF StatementsAgree
<1>. QED  BY <1>1, BooksAreSound, PTL

\* In every period without reversals cash reconciles, transfers net to zero, and
\* the dashboard and the budgets show the amounts of the statement.
THEOREM UnreversedReportsAgree == Spec => []UnreversedPeriodsAgree
  BY UnreversedPeriods, BooksAreSound, PTL
=============================================================================
