---------------------------- MODULE NatSetLemmas ----------------------------
(* What the helpers of NatSets return, for every set of natural numbers.   *)
EXTENDS NatSets, TLAPS, FiniteSetTheorems

(* A set of natural numbers that is not empty has a smallest element: the  *)
(* induction principle, in a form that needs no predicate.                 *)
LEMMA SmallestExists ==
    ASSUME NEW S \in SUBSET Nat, S # {}
    PROVE  \E m \in S : \A k \in S : m <= k
<1> DEFINE R == {p \in Nat \X Nat : p[1] < p[2]}
<1>1. IsWellFoundedOn(R, Nat)
  BY NatLessThanWellFounded DEF OpToRel
<1>2. \A k, m \in S : <<k, m>> \in R <=> k < m
  OBVIOUS
<1> HIDE DEF R
<1>3. PICK m \in S : \A k \in S : ~ (<<k, m>> \in R)
  BY <1>1, WFMin
<1>4. \A k \in S : k \in Nat /\ m \in Nat /\ ~ (k < m)
  BY <1>2, <1>3
<1>5. \A k \in S : m <= k
  BY <1>4
<1> QED
  BY <1>5

LEMMA SmallestIsLeast ==
    ASSUME NEW S \in SUBSET Nat, S # {}
    PROVE  Smallest(S) \in S /\ \A k \in S : Smallest(S) <= k
BY SmallestExists DEF Smallest

(* A bounded set of numbers that is not empty has a largest element.       *)
LEMMA LargestIsGreatest ==
    ASSUME NEW S \in SUBSET Nat, NEW n \in Nat, S # {}, \A l \in S : l <= n
    PROVE  Largest(S) \in S /\ \A k \in S : k <= Largest(S)
<1> DEFINE D == {d \in Nat : \E l \in S : d = n - l}
<1>1. D # {}
  <2>1. PICK l \in S : TRUE
    OBVIOUS
  <2>2. n - l \in D
    BY <2>1
  <2> QED
    BY <2>2
<1>2. PICK d \in D : \A e \in D : d <= e
  BY <1>1, SmallestExists
<1>3. PICK m \in S : d = n - m
  BY <1>2
<1>4. \A k \in S : k <= m
  <2> TAKE k \in S
  <2>1. n - k \in D
    OBVIOUS
  <2> QED
    BY <1>2, <1>3, <2>1
<1> QED
  BY <1>3, <1>4 DEF Largest

(* Lowest takes whole initial segments: what it leaves behind lies above   *)
(* what it takes.                                                          *)
LEMMA LowestIsInitial ==
    ASSUME NEW S \in SUBSET Nat, IsFiniteSet(S), NEW n \in Nat,
           NEW l \in Lowest(S, n), NEW k \in S \ Lowest(S, n)
    PROVE  l < k
<1> DEFINE Below(x) == {y \in S : y < x}
<1>1. SUFFICES ASSUME k <= l PROVE FALSE
  BY DEF Lowest
<1>2. Below(k) \subseteq Below(l)
  <2>1. k \in Nat /\ l \in Nat /\ \A y \in S : y \in Nat
    BY DEF Lowest
  <2>2. \A y \in S : y < k => y < l
    BY <1>1, <2>1
  <2> QED
    BY <2>2
<1>3. IsFiniteSet(Below(l)) /\ IsFiniteSet(Below(k))
  BY FS_Subset
<1>4. Cardinality(Below(k)) <= Cardinality(Below(l))
  BY <1>2, <1>3, FS_Subset
<1>5. Cardinality(Below(l)) < n /\ ~ (Cardinality(Below(k)) < n)
  BY DEF Lowest
<1>6. Cardinality(Below(l)) \in Nat /\ Cardinality(Below(k)) \in Nat
  BY <1>3, FS_CardinalityType
<1> HIDE DEF Below
<1> QED
  BY <1>4, <1>5, <1>6

(* When there are fewer than n elements, Lowest returns them all.          *)
LEMMA LowestAll ==
    ASSUME NEW S \in SUBSET Nat, IsFiniteSet(S), NEW n \in Nat,
           ~ (Cardinality(S) >= n)
    PROVE  Lowest(S, n) = S
<1> SUFFICES ASSUME NEW l \in S PROVE Cardinality({k \in S : k < l}) < n
  BY DEF Lowest
<1>1. Cardinality({k \in S : k < l}) <= Cardinality(S)
      /\ IsFiniteSet({k \in S : k < l})
  BY FS_Subset
<1>2. Cardinality({k \in S : k < l}) \in Nat /\ Cardinality(S) \in Nat
  BY <1>1, FS_CardinalityType
<1> QED
  BY <1>1, <1>2

(* Otherwise it returns exactly n of them.                                 *)
LEMMA LowestCount ==
    ASSUME NEW S \in SUBSET Nat, IsFiniteSet(S),
           NEW n \in Nat, n <= Cardinality(S)
    PROVE  Cardinality(Lowest(S, n)) = n
<1> DEFINE Bad == {i \in Nat : i <= Cardinality(S)
                               /\ Cardinality(Lowest(S, i)) # i}
<1>0. Cardinality(S) \in Nat
  BY FS_CardinalityType
<1>a. \A T \in SUBSET S : IsFiniteSet(T) /\ Cardinality(T) \in Nat
  BY FS_Subset, FS_CardinalityType
<1>1. SUFFICES ASSUME Bad # {} PROVE FALSE
  OBVIOUS
<1>2. PICK m \in Bad : \A k \in Bad : m <= k
  BY <1>1, SmallestExists
<1>3. m # 0
  <2>1. Lowest(S, 0) = {}
    BY <1>a DEF Lowest
  <2> QED
    BY <2>1, FS_EmptySet
<1> DEFINE T == Lowest(S, m - 1)
           Rest == S \ T
<1>4. m - 1 \in Nat /\ Cardinality(T) = m - 1
  BY <1>0, <1>2, <1>3
<1>5. T \subseteq S /\ Rest \in SUBSET Nat /\ Rest # {}
  <2>1. T \subseteq S
    BY DEF Lowest
  <2>2. T # S
    BY <1>0, <1>4, <1>2
  <2> QED
    BY <2>1, <2>2
<1>6. PICK p \in Rest : \A k \in Rest : p <= k
  BY <1>5, SmallestExists
<1>7. {k \in S : k < p} = T
  <2>1. \A l \in T : l < p
    BY <1>4, <1>6, LowestIsInitial
  <2>2. \A k \in S : k < p => k \in T
    BY <1>5, <1>6
  <2> QED
    BY <1>5, <2>1, <2>2
<1>8. Cardinality(T \union {p}) = m
  BY <1>4, <1>5, <1>6, <1>a, FS_AddElement
<1>9. Lowest(S, m) = T \union {p}
  <2>1. \A l \in T : l \in Lowest(S, m)
    BY <1>2, <1>a DEF Lowest
  <2>2. p \in Lowest(S, m)
    <3>1. Cardinality({k \in S : k < p}) = m - 1 /\ m \in Nat
      BY <1>2, <1>4, <1>7
    <3> QED
      BY <1>6, <3>1 DEF Lowest
  <2>3. ASSUME NEW l \in S, l \notin T \union {p}
        PROVE  l \notin Lowest(S, m)
    <3>1. p < l
      BY <1>5, <1>6, <2>3
    <3>2. T \union {p} \subseteq {k \in S : k < l}
      <4>1. \A k \in T : k \in S /\ k < p
        BY <1>7
      <4>2. p \in Nat /\ l \in Nat /\ p \in S /\ \A k \in S : k \in Nat
        BY <1>5, <1>6
      <4> HIDE DEF T, Rest
      <4>3. ASSUME NEW k \in T PROVE k \in S /\ k < l
        <5>1. k \in S /\ k < p /\ k \in Nat
          BY <4>1, <4>2
        <5> QED
          BY <3>1, <4>2, <5>1
      <4> QED
        BY <3>1, <4>2, <4>3
    <3>3. m <= Cardinality({k \in S : k < l})
      BY <1>8, <3>2, <1>a, FS_Subset
    <3>4. Cardinality({k \in S : k < l}) \in Nat
      BY <1>a
    <3> QED
      BY <1>2, <3>3, <3>4 DEF Lowest
  <2> QED
    BY <1>5, <1>6, <2>1, <2>2, <2>3 DEF Lowest
<1> QED
  BY <1>2, <1>8, <1>9
=============================================================================
