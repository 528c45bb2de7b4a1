----------------------------- MODULE OrderLemmas -----------------------------
(***************************************************************************)
(* Least and greatest elements of sets of numbers, for the rows that a     *)
(* query ORDER BY ... LIMIT 1, min() and max() return.                     *)
(***************************************************************************)
EXTENDS Integers, FiniteSetTheorems, WellFoundedInduction, TLAPS

\* A nonempty set of naturals has a least element.
LEMMA LeastNatural ==
    ASSUME NEW S \in SUBSET Nat, S # {}
    PROVE  \E m \in S : \A n \in S : m <= n
<1> DEFINE Less == {ss \in Nat \X Nat : ss[1] < ss[2]}
<1>1. IsWellFoundedOn(Less, Nat)
  BY NatLessThanWellFounded DEF OpToRel
<1>2. PICK m \in S : \A n \in S : <<n, m>> \notin Less
  <2> HIDE DEF Less
  <2> QED
    BY <1>1, WFMin
<1>3. \A n \in S : <<n, m>> \in Less <=> n < m
  OBVIOUS
<1>4. \A n \in S : ~(n < m)
  <2> HIDE DEF Less
  <2> QED
    BY <1>2, <1>3
<1>5. m \in Nat /\ \A n \in S : n \in Nat
  OBVIOUS
<1>6. \A n \in S : m <= n
  <2> HIDE DEF Less
  <2> QED
    BY <1>4, <1>5
<1>7. QED
  BY <1>6

\* A nonempty set of integers with a lower bound has a least element.
LEMMA LeastInteger ==
    ASSUME NEW S \in SUBSET Int, S # {},
           NEW bound \in Int, \A n \in S : bound <= n
    PROVE  \E m \in S : \A n \in S : m <= n
<1> DEFINE Shifted == {n - bound : n \in S}
<1>1. Shifted \in SUBSET Nat /\ Shifted # {}
  <2>1. \A n \in S : n - bound \in Nat
    OBVIOUS
  <2>2. QED
    BY <2>1
<1>2. PICK d \in Shifted : \A e \in Shifted : d <= e
  <2> HIDE DEF Shifted
  <2> QED
    BY <1>1, LeastNatural
<1>3. PICK m \in S : d = m - bound
  OBVIOUS
<1>4. \A n \in S : m - bound <= n - bound
  BY <1>2, <1>3
<1>5. QED
  BY <1>4

\* A nonempty set of integers with an upper bound has a greatest element.
LEMMA GreatestInteger ==
    ASSUME NEW S \in SUBSET Int, S # {},
           NEW bound \in Int, \A n \in S : n <= bound
    PROVE  \E m \in S : \A n \in S : n <= m
<1> DEFINE Negated == {-n : n \in S}
<1>1. Negated \in SUBSET Int /\ Negated # {} /\ \A n \in Negated : -bound <= n
  OBVIOUS
<1>2. PICK d \in Negated : \A e \in Negated : d <= e
  <2> DEFINE floor == -bound
  <2>1. floor \in Int
    OBVIOUS
  <2>2. Negated \in SUBSET Int /\ Negated # {} /\ \A n \in Negated : floor <= n
    BY <1>1
  <2> HIDE DEF Negated, floor
  <2> QED
    BY <2>1, <2>2, LeastInteger
<1>3. PICK m \in S : d = -m
  OBVIOUS
<1>4. \A n \in S : -m <= -n
  BY <1>2, <1>3
<1>5. QED
  BY <1>4

\* A nonempty finite set of integers has a greatest element: the one with the
\* most elements below it.
LEMMA GreatestOfFinite ==
    ASSUME NEW S \in SUBSET Int, S # {}, IsFiniteSet(S)
    PROVE  \E m \in S : \A n \in S : n <= m
<1> DEFINE Below(m) == {n \in S : n <= m}
<1> DEFINE Ranks == {Cardinality(Below(m)) : m \in S}
<1>1. ASSUME NEW m \in S
      PROVE  /\ IsFiniteSet(Below(m)) /\ Cardinality(Below(m)) \in Int
             /\ Cardinality(Below(m)) <= Cardinality(S)
  <2>1. Below(m) \in SUBSET S
    OBVIOUS
  <2> HIDE DEF Below
  <2>2. QED
    BY <2>1, FS_Subset, FS_CardinalityType
<1>2. Ranks \in SUBSET Int /\ Ranks # {} /\ Cardinality(S) \in Int
      /\ \A k \in Ranks : k <= Cardinality(S)
  <2>1. Cardinality(S) \in Nat
    BY FS_CardinalityType
  <2> HIDE DEF Below
  <2>2. \A k \in Ranks : k \in Int /\ k <= Cardinality(S)
    BY <1>1
  <2>3. Ranks # {}
    OBVIOUS
  <2>4. QED
    <3> HIDE DEF Ranks
    <3>1. QED
      BY <2>1, <2>2, <2>3
<1>3. PICK k \in Ranks : \A l \in Ranks : l <= k
  <2> HIDE DEF Ranks
  <2>1. QED
    BY <1>2, GreatestInteger
<1>4. PICK m \in S : k = Cardinality(Below(m))
  <2> HIDE DEF Below
  <2>1. QED
    OBVIOUS
<1>5. ASSUME NEW n \in S, m < n
      PROVE  FALSE
  <2>1. Below(m) \in SUBSET Below(n) /\ n \in Below(n) /\ n \notin Below(m)
    <3>1. \A l \in S : l \in Int /\ (l <= m => l <= n)
      BY <1>5
    <3>2. n <= n /\ ~(n <= m)
      BY <1>5
    <3>3. QED
      BY <3>1, <3>2
  <2> HIDE DEF Below
  <2>2. Cardinality(Below(m)) < Cardinality(Below(n))
    BY <1>1, <2>1, FS_Subset
  <2>3. Cardinality(Below(n)) <= k
    BY <1>3
  <2>4. QED
    BY <1>1, <1>4, <2>2, <2>3
<1>6. QED
  BY <1>5

\* Finitely many readings of a finite set of places are a finite set.
LEMMA FiniteReadings ==
    ASSUME NEW S, IsFiniteSet(S), NEW f, S \subseteq DOMAIN f
    PROVE  IsFiniteSet({f[i] : i \in S})
<1> DEFINE T == {f[i] : i \in S}
<1> DEFINE g == [i \in S |-> f[i]]
<1>1. g \in Surjection(S, T)
  BY DEF Surjection
<1>2. QED
  <2> HIDE DEF T, g
  <2>1. IsFiniteSet(T)
    BY <1>1, FS_Surjection
  <2>2. QED
    BY <2>1 DEF T
==============================================================================
