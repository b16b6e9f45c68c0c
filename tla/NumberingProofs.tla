---------------------------- MODULE NumberingProofs ----------------------------
(***************************************************************************)
(* What the operators of Numbering return.                                 *)
(***************************************************************************)
EXTENDS Numbering, TLAPS, FiniteSetTheorems

-----------------------------------------------------------------------------
(* The k-th number of a set.                                               *)

\* A set of numbers has a least one.
LEMMA LeastNumber ==
  ASSUME NEW T \in SUBSET Nat, T # {}
  PROVE  \E m \in T : \A n \in T : m <= n
<1>1. PICK m \in T : \A n \in T : <<n, m>> \notin OpToRel(<, Nat)
  BY NatLessThanWellFounded, WFMin, Zenon
<1>2. ASSUME NEW n \in T PROVE m <= n
  <2>1. <<n, m>> \in Nat \X Nat
    OBVIOUS
  <2>2. ~(n < m)
    BY <1>1, <2>1 DEF OpToRel
  <2>. QED
    BY <2>2
<1>. QED
  BY <1>2

\* It is there when the set has k numbers.
LEMMA NthIsThere ==
  ASSUME NEW b \in Nat, NEW S \in SUBSET (0..b), NEW k \in 1..Cardinality(S)
  PROVE  Nth(S, k) \in S /\ Cardinality({m \in S : m <= Nth(S, k)}) = k
<1> DEFINE Upto(n) == {m \in S : m <= n}
           C(n) == Cardinality(Upto(n))
           T == {n \in 0..b : C(n) >= k}
<1>0. IsFiniteSet(S)
  <2>1. IsFiniteSet(0..b)
    BY FS_Interval
  <2>. QED
    BY <2>1, FS_Subset
<1>1. IsFiniteSet(S) /\ Cardinality(S) \in Nat /\ k \in Nat /\ k >= 1
  <2>1. Cardinality(S) \in Nat
    BY <1>0, FS_CardinalityType
  <2>. QED
    BY <1>0, <2>1
<1>e. \A m \in S : m \in Nat /\ m <= b
  OBVIOUS
<1>2. ASSUME NEW n \in Nat PROVE IsFiniteSet(Upto(n)) /\ C(n) \in Nat
  <2>1. Upto(n) \in SUBSET S
    OBVIOUS
  <2>. HIDE DEF Upto
  <2>. QED
    BY <1>1, <2>1, FS_Subset, FS_CardinalityType
<1>3. T # {}
  <2>1. Upto(b) = S
    BY <1>e
  <2>2. C(b) >= k
    BY <1>1, <2>1
  <2>. HIDE DEF C
  <2>. QED
    BY <2>2
<1>4. PICK t \in T : \A n \in T : t <= n
  <2>. HIDE DEF C
  <2>1. T \in SUBSET Nat
    OBVIOUS
  <2>. HIDE DEF T
  <2>. QED
    BY <1>3, <2>1, LeastNumber
<1>5. t \in 0..b /\ C(t) >= k
  <2>. HIDE DEF C
  <2>. QED
    OBVIOUS
<1>6. t - 1 \in 0..b => C(t - 1) < k
  <2>1. t - 1 \in 0..b => t - 1 \notin T
    <3>. HIDE DEF T
    <3>. QED
      BY <1>4, <1>5
  <2>2. t - 1 \in 0..b => C(t - 1) \in Nat
    <3>1. t - 1 \in 0..b => t - 1 \in Nat
      BY <1>5
    <3>. HIDE DEF C
    <3>. QED
      BY <1>2, <3>1
  <2>. HIDE DEF C
  <2>. QED
    BY <1>1, <2>1, <2>2
<1>7. t \in S /\ C(t) = k
  <2>1. CASE t = 0
    <3>0. \A m \in S : m <= 0 <=> m = 0
      BY <1>e
    <3>1. Upto(0) = IF 0 \in S THEN {0} ELSE {}
      BY <3>0
    <3>2. Cardinality({}) = 0 /\ Cardinality({0}) = 1
      BY FS_EmptySet, FS_Singleton
    <3>. HIDE DEF Upto
    <3>. QED
      BY <1>1, <1>5, <2>1, <3>1, <3>2
  <2>2. CASE t # 0
    <3>1. t - 1 \in 0..b /\ t - 1 \in Nat
      BY <1>5, <2>2
    <3>0. \A m \in S : m <= t <=> m <= t - 1 \/ m = t
      BY <1>e, <1>5
    <3>2. Upto(t) = IF t \in S THEN Upto(t - 1) \cup {t} ELSE Upto(t - 1)
      BY <3>0
    <3>3. t \notin Upto(t - 1)
      BY <1>5
    <3>. HIDE DEF Upto
    <3>4. t \in S => C(t) = C(t - 1) + 1
      <4>1. IsFiniteSet(Upto(t - 1))
        BY <1>2, <3>1
      <4>. QED
        BY <3>2, <3>3, <4>1, FS_AddElement
    <3>5. C(t - 1) < k
      BY <1>6, <3>1
    <3>6. t \notin S => C(t) = C(t - 1)
      BY <3>2
    <3>7. C(t) \in Nat /\ C(t - 1) \in Nat
      BY <1>2, <1>5, <3>1
    <3>. HIDE DEF C
    <3>. QED
      BY <1>1, <1>5, <3>4, <3>5, <3>6, <3>7
  <2>. QED
    BY <2>1, <2>2
<1>. QED
  BY <1>7 DEF Nth

\* How many of a set do not come after one of its members.
LEMMA RankInSet ==
  ASSUME NEW S \in SUBSET Nat, IsFiniteSet(S), NEW n \in S
  PROVE  Cardinality({m \in S : m <= n}) \in 1..Cardinality(S)
<1> DEFINE U == {m \in S : m <= n}
<1>1. U \in SUBSET S /\ n \in U
  OBVIOUS
<1>. HIDE DEF U
<1>2. IsFiniteSet(U) /\ Cardinality(U) \in Nat /\ Cardinality(U) <= Cardinality(S)
  BY <1>1, FS_Subset, FS_CardinalityType
<1>3. Cardinality(U) # 0
  BY <1>1, <1>2, FS_EmptySet
<1>4. Cardinality(S) \in Nat
  BY FS_CardinalityType
<1>5. Cardinality(U) \in 1..Cardinality(S)
  BY <1>2, <1>3, <1>4
<1>. QED
  BY <1>5 DEF U

\* Members of a different rank are different.
LEMMA RankTellsApart ==
  ASSUME NEW S \in SUBSET Nat, IsFiniteSet(S), NEW n \in S, NEW l \in S,
         Cardinality({m \in S : m <= n}) = Cardinality({m \in S : m <= l})
  PROVE  n = l
<1>1. ASSUME NEW i \in S, NEW j \in S, i < j,
             Cardinality({m \in S : m <= i}) = Cardinality({m \in S : m <= j})
      PROVE FALSE
  <2> DEFINE U == {m \in S : m <= i}
             V == {m \in S : m <= j}
  <2>0. \A m \in S : m \in Nat
    OBVIOUS
  <2>4. \A m \in S : m <= i => m <= j
    BY <1>1, <2>0
  <2>1. V \in SUBSET S /\ U \in SUBSET V
    BY <2>4
  <2>3. j \in V /\ j \notin U
    BY <1>1, <2>0
  <2>2. Cardinality(U) = Cardinality(V)
    BY <1>1
  <2>. HIDE DEF U, V
  <2>. QED
    <3>1. IsFiniteSet(V)
      BY <2>1, FS_Subset
    <3>. QED
      BY <2>1, <2>2, <2>3, <3>1, FS_Subset
<1>. QED
  BY <1>1

-----------------------------------------------------------------------------
(* The elements of a sequence that are kept.                               *)

\* A list of n elements holds those of s that are in S, and no other.
Holds(t, n, s, S) ==
  /\ t = [k \in 1..n |-> t[k]]
  /\ \A k \in 1..n : \E i \in DOMAIN s : s[i] \in S /\ t[k] = s[i]
  /\ \A i \in DOMAIN s : s[i] \in S => \E k \in 1..n : t[k] = s[i]

LEMMA KeptElements ==
  ASSUME NEW S, NEW s, NEW n \in Nat, DOMAIN s = 1..n
  PROVE  \E c \in Nat : Holds(Kept(s, S), c, s, S)
<1> DEFINE kept == {i \in DOMAIN s : s[i] \in S}
           c == Cardinality(kept)
<1>1. kept \in SUBSET (0..n) /\ kept \in SUBSET Nat
  OBVIOUS
<1>2. IsFiniteSet(kept) /\ c \in Nat
  <2>1. IsFiniteSet(0..n)
    BY FS_Interval
  <2>. HIDE DEF kept
  <2>. QED
    BY <1>1, <2>1, FS_Subset, FS_CardinalityType
<1>3. Kept(s, S) = [k \in 1..c |-> s[Nth(kept, k)]]
  BY DEF Kept
<1>4. \A i \in kept : i \in DOMAIN s /\ s[i] \in S
  OBVIOUS
<1>5. \A i \in DOMAIN s : s[i] \in S => i \in kept
  OBVIOUS
<1>. HIDE DEF kept
<1>6. \A k \in 1..c : Nth(kept, k) \in kept /\ Cardinality({m \in kept : m <= Nth(kept, k)}) = k
  BY <1>1, NthIsThere
<1>. DEFINE rank(i) == Cardinality({m \in kept : m <= i})
<1>7. \A i \in kept : rank(i) \in 1..c
  BY <1>1, <1>2, RankInSet
<1>8. \A i \in kept : Nth(kept, rank(i)) = i
  <2>. SUFFICES ASSUME NEW i \in kept PROVE Nth(kept, rank(i)) = i
    OBVIOUS
  <2>. DEFINE j == Nth(kept, rank(i))
  <2>1. j \in kept /\ rank(j) = rank(i)
    BY <1>6, <1>7
  <2>. HIDE DEF j
  <2>2. j = i
    BY <1>1, <1>2, <2>1, RankTellsApart
  <2>. QED
    BY <2>2 DEF j
<1>. HIDE DEF c, rank
<1>9. \A k \in 1..c : Kept(s, S)[k] = s[Nth(kept, k)]
  BY <1>3
<1>10. \A k \in 1..c : \E i \in DOMAIN s : s[i] \in S /\ Kept(s, S)[k] = s[i]
  BY <1>4, <1>6, <1>9
<1>11. \A i \in DOMAIN s : s[i] \in S => \E k \in 1..c : Kept(s, S)[k] = s[i]
  BY <1>5, <1>7, <1>8, <1>9
<1>12. Kept(s, S) = [k \in 1..c |-> Kept(s, S)[k]]
  BY <1>3
<1>. QED
  BY <1>2, <1>10, <1>11, <1>12 DEF Holds

=============================================================================
