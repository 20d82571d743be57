----------------------------- MODULE NatLemmas -----------------------------
(* Facts about sets of natural numbers that the proofs share: least         *)
(* elements, the first gap of a set, and the sizes of intervals.            *)
EXTENDS Integers, FiniteSets, WellFoundedInduction, FiniteSetTheorems, TLAPS

\* Every non-empty set of naturals has a least element.
LEMMA LeastNatural ==
    ASSUME NEW T \in SUBSET Nat, T # {}
    PROVE  \E x \in T : \A y \in T : x <= y
<1> DEFINE Less == {p \in Nat \X Nat : p[1] < p[2]}
<1>1. IsWellFoundedOn(Less, Nat)
  <2>1. OpToRel(<, Nat) = Less
    BY DEF OpToRel
  <2> QED BY <2>1, NatLessThanWellFounded, Zenon
<1>2. PICK x \in T : \A y \in T : ~(<<y, x>> \in Less)
  <2> HIDE DEF Less
  <2> QED BY <1>1, WFMin, Zenon
<1>3. ASSUME NEW y \in T PROVE x <= y
  <2>1. <<y, x>> \notin Less
    BY <1>2
  <2>2. x \in Nat /\ y \in Nat
    OBVIOUS
  <2>3. ~(y < x)
    BY <2>1, <2>2
  <2> QED BY <2>2, <2>3
<1> QED BY <1>3

\* A set that misses `hi` has a first gap between `lo` and `hi`.
LEMMA FirstGap ==
    ASSUME NEW S, NEW lo \in Nat, NEW hi \in Nat, lo <= hi, hi \notin S
    PROVE  \E m \in lo .. hi : m \notin S /\ lo .. (m - 1) \subseteq S
<1> DEFINE T == {m \in lo .. hi : m \notin S}
<1>1. T \in SUBSET Nat /\ T # {}
  <2>1. hi \in T
    OBVIOUS
  <2> QED BY <2>1
<1>2. PICK x \in T : \A y \in T : x <= y
  BY <1>1, LeastNatural, Zenon
<1>3. ASSUME NEW b \in lo .. (x - 1) PROVE b \in S
  BY <1>2
<1> QED BY <1>2, <1>3

\* A set of naturals inside an interval is finite and no larger, and it is
\* the interval when it is as large.
LEMMA InsideInterval ==
    ASSUME NEW lo \in Nat, NEW hi \in Nat, lo <= hi,
           NEW S \in SUBSET (lo .. (hi - 1))
    PROVE  /\ IsFiniteSet(S)
           /\ Cardinality(S) \in Nat
           /\ Cardinality(S) <= hi - lo
           /\ Cardinality(S) = hi - lo => S = lo .. (hi - 1)
<1>1. /\ IsFiniteSet(lo .. (hi - 1))
      /\ Cardinality(lo .. (hi - 1)) = hi - lo
  <2>1. /\ IsFiniteSet(lo .. (hi - 1))
        /\ Cardinality(lo .. (hi - 1)) = IF lo > hi - 1 THEN 0 ELSE (hi - 1) - lo + 1
    BY FS_Interval
  <2> QED BY <2>1
<1>2. /\ IsFiniteSet(S) /\ Cardinality(S) <= hi - lo
      /\ Cardinality(S) = hi - lo => S = lo .. (hi - 1)
  BY <1>1, FS_Subset, ZenonT(60)
<1>3. Cardinality(S) \in Nat
  BY <1>2, FS_CardinalityType
<1> QED BY <1>2, <1>3

\* Sizes of disjoint sets add up.
LEMMA DisjointSizes ==
    ASSUME NEW S, NEW T, IsFiniteSet(S), IsFiniteSet(T), S \cap T = {}
    PROVE  /\ IsFiniteSet(S \cup T)
           /\ Cardinality(S) \in Nat /\ Cardinality(T) \in Nat
           /\ Cardinality(S \cup T) = Cardinality(S) + Cardinality(T)
<1>1. Cardinality(S) \in Nat /\ Cardinality(T) \in Nat
  BY FS_CardinalityType
<1>2. IsFiniteSet(S \cup T) /\
      Cardinality(S \cup T) =
        Cardinality(S) + Cardinality(T) - Cardinality(S \cap T)
  BY FS_Union
<1>3. Cardinality(S \cap T) = 0
  BY FS_EmptySet
<1> QED BY <1>1, <1>2, <1>3

\* Taking a whole prefix off a set of naturals takes its length off the size.
LEMMA PrefixTaken ==
    ASSUME NEW lo \in Nat, NEW m \in Nat, lo <= m,
           NEW S \in SUBSET Nat, IsFiniteSet(S),
           \A b \in S : b >= lo, lo .. (m - 1) \subseteq S
    PROVE  /\ IsFiniteSet({b \in S : b >= m})
           /\ Cardinality(S) = (m - lo) + Cardinality({b \in S : b >= m})
<1> DEFINE P == lo .. (m - 1)
           R == {b \in S : b >= m}
<1>1. S = P \cup R /\ P \cap R = {}
  <2>1. ASSUME NEW b \in S PROVE b \in P \cup R
    <3>1. b \in Nat /\ b >= lo
      OBVIOUS
    <3> QED BY <3>1
  <2>2. P \cup R \subseteq S
    OBVIOUS
  <2>3. P \cap R = {}
    OBVIOUS
  <2> QED BY <2>1, <2>2, <2>3, Zenon
<1>2. IsFiniteSet(P) /\ IsFiniteSet(R)
  BY FS_Subset
<1>3. Cardinality(P) = m - lo
  <2>1. Cardinality(P) = IF lo > m - 1 THEN 0 ELSE (m - 1) - lo + 1
    BY FS_Interval
  <2> QED BY <2>1
<1>4. Cardinality(P \cup R) = Cardinality(P) + Cardinality(R)
  <2> HIDE DEF P, R
  <2> QED BY <1>1, <1>2, DisjointSizes
<1> QED BY <1>1, <1>2, <1>3, <1>4, Zenon

=============================================================================
