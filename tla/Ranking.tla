------------------------------ MODULE Ranking ------------------------------
(***************************************************************************)
(* The i-th row of ORDER BY is the row that has i - 1 rows before it.  For *)
(* a strict total order on finitely many rows there is exactly one such    *)
(* row, and the rows come in that order.  below[x] are the rows before x.  *)
(***************************************************************************)
EXTENDS Integers, FiniteSets, FiniteSetTheorems, TLAPS

\* What ORDER BY needs: no row is before itself, of two rows one is before the
\* other, and what is before a row is before the rows that come after it.
Ordered(S, below) ==
  /\ below \in [S -> SUBSET S]
  /\ \A x \in S : x \notin below[x]
  /\ \A x, y \in S : x # y => x \in below[y] \/ y \in below[x]
  /\ \A x, y \in S : x \in below[y] => below[x] \subseteq below[y]

LEMMA BelowCounts ==
  ASSUME NEW S, IsFiniteSet(S), NEW below, Ordered(S, below)
  PROVE  /\ Cardinality(S) \in Nat
         /\ \A x \in S : Cardinality(below[x]) \in Nat
         /\ \A x \in S : Cardinality(below[x]) < Cardinality(S)
         /\ \A x, y \in S : x \in below[y] <=> Cardinality(below[x]) < Cardinality(below[y])
<1>1. Cardinality(S) \in Nat
  BY FS_CardinalityType
<1>2. ASSUME NEW x \in S
      PROVE  IsFiniteSet(below[x]) /\ Cardinality(below[x]) \in Nat
  <2>1. below[x] \in SUBSET S
    BY DEF Ordered
  <2>2. IsFiniteSet(below[x])
    BY <2>1, FS_Subset
  <2> QED
    BY <2>2, FS_CardinalityType
<1>3. ASSUME NEW x \in S
      PROVE  Cardinality(below[x]) < Cardinality(S)
  <2>1. below[x] \in SUBSET S /\ x \notin below[x]
    BY DEF Ordered
  <2>2. Cardinality(below[x]) <= Cardinality(S) /\ Cardinality(S) # Cardinality(below[x])
    BY <2>1, FS_Subset
  <2> QED
    BY <1>1, <1>2, <2>2
<1>4. ASSUME NEW x \in S, NEW y \in S, x \in below[y]
      PROVE  Cardinality(below[x]) < Cardinality(below[y])
  <2>1. below[x] \in SUBSET below[y] /\ x \notin below[x]
    BY <1>4 DEF Ordered
  <2>2. /\ Cardinality(below[x]) <= Cardinality(below[y])
        /\ Cardinality(below[y]) # Cardinality(below[x])
    BY <1>2, <1>4, <2>1, FS_Subset
  <2> QED
    BY <1>2, <2>2
<1>5. ASSUME NEW x \in S, NEW y \in S, Cardinality(below[x]) < Cardinality(below[y])
      PROVE  x \in below[y]
  <2>1. ~ (Cardinality(below[y]) < Cardinality(below[x])) /\ x # y
    BY <1>2, <1>5
  <2> QED
    BY <1>4, <2>1 DEF Ordered
<1> QED
  BY <1>1, <1>2, <1>3, <1>4, <1>5

\* Every place is taken.
LEMMA RankExists ==
  ASSUME NEW S, IsFiniteSet(S), NEW below, Ordered(S, below), NEW i \in 1..Cardinality(S)
  PROVE  \E x \in S : Cardinality(below[x]) = i - 1
<1> DEFINE n == Cardinality(S)
           T == 1..n
           f == [x \in S |-> Cardinality(below[x]) + 1]
<1>1. n \in Nat /\ i \in 1..n
  BY BelowCounts
<1>2. f \in [S -> T]
  BY BelowCounts
<1>3. \A x, y \in S : f[x] = f[y] => x = y
  <2> SUFFICES ASSUME NEW x \in S, NEW y \in S, f[x] = f[y], x # y PROVE FALSE
    OBVIOUS
  <2>1. x \in below[y] \/ y \in below[x]
    BY DEF Ordered
  <2> QED
    BY <2>1, BelowCounts
<1>4. f \in Injection(S, T)
  BY <1>2, <1>3 DEF Injection, IsInjective
<1>5. IsFiniteSet(T) /\ Cardinality(T) = n
  <2>1. n \in Int /\ 1 \in Int
    BY <1>1
  <2>2. IsFiniteSet(1..n) /\ Cardinality(1..n) = IF 1 > n THEN 0 ELSE n - 1 + 1
    BY <2>1, FS_Interval
  <2> QED
    BY <1>1, <2>2
<1>6. f \in Surjection(S, T)
  BY <1>4, <1>5, FS_Injection
<1>7. PICK x \in S : f[x] = i
  BY <1>6 DEF Surjection
<1> QED
  BY <1>1, <1>7, BelowCounts
=============================================================================
