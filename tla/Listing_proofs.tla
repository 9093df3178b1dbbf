--------------------------- MODULE Listing_proofs ---------------------------
(***************************************************************************)
(* What the operators of Listing return; and two principles that the proof *)
(* modules share: a nonempty set of naturals has a least element, and a    *)
(* set that holds 0 and every successor of its members holds every natural *)
(* number.  The second is induction stated for a set: it can be cited      *)
(* where a schema over predicates cannot.                                  *)
(***************************************************************************)
EXTENDS Listing, SequenceTheorems, FiniteSetTheorems, TLAPS

(* A nonempty set of naturals has a least element.                         *)
LEMMA LeastNatural ==
  ASSUME NEW T \in SUBSET Nat, T # {}
  PROVE  \E m \in T : \A n \in T : m <= n
<1> DEFINE below == {0..n : n \in T}
<1>1. below \subseteq FiniteSubsetsOf(Nat)
  <2>1. ASSUME NEW n \in T PROVE 0..n \in FiniteSubsetsOf(Nat)
    <3>1. n \in Nat /\ 0..n \in SUBSET Nat
      OBVIOUS
    <3>2. IsFiniteSet(0..n)
      BY <3>1, FS_Interval
    <3> QED BY <3>1, <3>2 DEF FiniteSubsetsOf
  <2> QED BY <2>1
<1>2. PICK b \in below :
        \A c \in below : <<c, b>> \notin StrictSubsetOrdering(Nat)
  <2>1. below # {}
    OBVIOUS
  <2> HIDE DEF below
  <2> QED BY <1>1, <2>1, FS_StrictSubsetOrderingWellFounded, WFMin
<1>3. PICK m \in T : b = 0..m
  OBVIOUS
<1>4. ASSUME NEW n \in T
      PROVE  m <= n
  <2>1. SUFFICES ASSUME n < m PROVE FALSE
    OBVIOUS
  <2>2. 0..n \in SUBSET Nat /\ 0..m \in SUBSET Nat
    OBVIOUS
  <2>3. 0..n \subseteq 0..m /\ m \in 0..m /\ m \notin 0..n
    BY <2>1
  <2>4. <<0..n, 0..m>> \in StrictSubsetOrdering(Nat)
    BY <2>2, <2>3 DEF StrictSubsetOrdering
  <2> QED BY <1>2, <1>3, <2>4
<1> QED BY <1>4

(* Induction over the naturals, of the set of those that have a property.  *)
LEMMA EveryNatural ==
  ASSUME NEW T, 0 \in T, \A n \in Nat : n \in T => n + 1 \in T
  PROVE  \A n \in Nat : n \in T
<1> DEFINE missing == Nat \ T
<1>1. SUFFICES ASSUME missing # {} PROVE FALSE
  OBVIOUS
<1>2. PICK m \in missing : \A n \in missing : m <= n
  <2> HIDE DEF missing
  <2>1. missing \in SUBSET Nat
    BY DEF missing
  <2> QED BY <1>1, <2>1, LeastNatural
<1>3. m \in Nat /\ m # 0
  OBVIOUS
<1>4. m - 1 \in Nat /\ m - 1 \notin missing
  BY <1>2, <1>3
<1>5. m - 1 + 1 \in T
  BY <1>4
<1> QED BY <1>3, <1>5

-----------------------------------------------------------------------------
(* Ascending lists its set: once each, least first.                        *)

LEMMA AscendingLists ==
  ASSUME NEW S \in SUBSET Int, IsFiniteSet(S)
  PROVE  /\ Cardinality(S) \in Nat
         /\ Ascending(S) \in [1..Cardinality(S) -> S]
         /\ \A k, l \in 1..Cardinality(S) :
              k < l => Ascending(S)[k] < Ascending(S)[l]
         /\ \A i \in S : \E k \in 1..Cardinality(S) : Ascending(S)[k] = i
<1> DEFINE n == Cardinality(S)
           below(i) == {j \in S : j < i}
           rank == [i \in S |-> Cardinality(below(i))]
<1>1. n \in Nat
  BY FS_CardinalityType
<1>2. ASSUME NEW i \in S
      PROVE  /\ IsFiniteSet(below(i))
             /\ Cardinality(below(i)) \in 0..n - 1
  <2>1. below(i) \in SUBSET (S \ {i})
    OBVIOUS
  <2>2. IsFiniteSet(S \ {i}) /\ Cardinality(S \ {i}) = n - 1
    BY FS_RemoveElement
  <2>3. IsFiniteSet(below(i)) /\ Cardinality(below(i)) <= n - 1
    <3> HIDE DEF below, n
    <3> QED BY <2>1, <2>2, FS_Subset
  <2>4. Cardinality(below(i)) \in Nat
    BY <2>3, FS_CardinalityType
  <2> QED BY <1>1, <2>3, <2>4
<1>3. ASSUME NEW i \in S, NEW j \in S, i < j
      PROVE  rank[i] < rank[j]
  <2>1. below(i) \cup {i} \in SUBSET below(j) /\ i \notin below(i)
    <3>1. i \in Int /\ j \in Int /\ \A x \in S : x \in Int
      OBVIOUS
    <3>2. \A x \in S : x < i => x < j
      BY <1>3, <3>1
    <3>3. ~(i < i)
      BY <3>1
    <3> QED BY <1>3, <3>2, <3>3
  <2>2. Cardinality(below(i) \cup {i}) = Cardinality(below(i)) + 1
    <3> HIDE DEF below
    <3> QED BY <1>2, <2>1, FS_AddElement
  <2>3. Cardinality(below(i) \cup {i}) <= Cardinality(below(j))
    <3> HIDE DEF below
    <3> QED BY <1>2, <2>1, FS_Subset
  <2>4. Cardinality(below(i)) \in Int /\ Cardinality(below(j)) \in Int
    BY <1>2
  <2> HIDE DEF below
  <2> QED BY <2>2, <2>3, <2>4
<1>4. \A i, j \in S : rank[i] = rank[j] => i = j
  <2> SUFFICES ASSUME NEW i \in S, NEW j \in S, rank[i] = rank[j], i # j
               PROVE  FALSE
    OBVIOUS
  <2>1. rank[i] \in Int /\ rank[j] \in Int
    BY <1>2
  <2>2. i < j \/ j < i
    OBVIOUS
  <2> HIDE DEF rank
  <2> QED BY <1>3, <2>1, <2>2
<1>5. rank \in [S -> 0..n - 1]
  BY <1>2
<1>6. rank \in Injection(S, 0..n - 1)
  <2> HIDE DEF rank
  <2> QED BY <1>4, <1>5 DEF Injection, IsInjective
<1>7. IsFiniteSet(0..n - 1) /\ Cardinality(0..n - 1) = n
  <2> HIDE DEF n
  <2>1. n - 1 \in Int /\ 0 \in Int
    BY <1>1
  <2>2. Cardinality(0..n - 1) = IF 0 > n - 1 THEN 0 ELSE n - 1 - 0 + 1
    BY <2>1, FS_Interval
  <2> QED BY <1>1, <2>1, <2>2, FS_Interval
<1>8. rank \in Surjection(S, 0..n - 1)
  <2> HIDE DEF rank
  <2> QED BY <1>6, <1>7, FS_Injection
<1>9. \A r \in 0..n - 1 : \E i \in S : rank[i] = r
  <2> HIDE DEF rank, n
  <2> QED BY <1>8 DEF Surjection
<1>10. ASSUME NEW k \in 1..n
       PROVE  Ascending(S)[k] \in S /\ rank[Ascending(S)[k]] = k - 1
  <2>1. k - 1 \in 0..n - 1
    BY <1>1
  <2>2. PICK i \in S : Cardinality(below(i)) = k - 1
    BY <1>9, <2>1
  <2>3. Ascending(S)[k] = CHOOSE j \in S : Cardinality(below(j)) = k - 1
    BY DEF Ascending
  <2>4. Ascending(S)[k] \in S /\ Cardinality(below(Ascending(S)[k])) = k - 1
    <3> HIDE DEF below
    <3> QED BY <2>2, <2>3
  <2> HIDE DEF below
  <2> QED BY <2>4
<1>11. Ascending(S) \in [1..n -> S]
  <2> DEFINE pick(k) == CHOOSE i \in S : Cardinality(below(i)) = k - 1
  <2>1. Ascending(S) = [k \in 1..n |-> pick(k)]
    BY DEF Ascending
  <2> HIDE DEF n, pick
  <2>2. \A k \in 1..n : pick(k) \in S
    BY <1>10, <2>1
  <2> QED BY <2>1, <2>2
<1>12. ASSUME NEW k \in 1..n, NEW l \in 1..n, k < l
       PROVE  Ascending(S)[k] < Ascending(S)[l]
  <2> DEFINE i == Ascending(S)[k]
             j == Ascending(S)[l]
  <2>1. i \in S /\ j \in S /\ rank[i] = k - 1 /\ rank[j] = l - 1
    BY <1>10
  <2> HIDE DEF i, j, rank
  <2>2. i # j /\ ~(j < i)
    BY <1>1, <1>3, <1>12, <2>1
  <2>3. i < j
    BY <2>1, <2>2
  <2> QED BY <2>3 DEF i, j
<1>13. ASSUME NEW i \in S
       PROVE  \E k \in 1..n : Ascending(S)[k] = i
  <2>1. rank[i] \in 0..n - 1
    BY <1>5
  <2> HIDE DEF rank
  <2>2. rank[i] + 1 \in 1..n
    BY <1>1, <2>1
  <2>3. /\ Ascending(S)[rank[i] + 1] \in S
        /\ rank[Ascending(S)[rank[i] + 1]] = rank[i]
    BY <1>10, <2>1, <2>2
  <2> QED BY <1>4, <2>2, <2>3
<1> QED BY <1>1, <1>11, <1>12, <1>13

(* What At takes out of a sequence: elements of its own, in their order,   *)
(* each as often as its position is asked for.                             *)
LEMMA AtTakes ==
  ASSUME NEW D, NEW seq \in Seq(D), NEW S \in SUBSET DOMAIN seq
  PROVE  /\ IsFiniteSet(S)
         /\ Cardinality(S) \in Nat
         /\ At(seq, S) \in Seq(D)
         /\ Len(At(seq, S)) = Cardinality(S)
         /\ \A k \in 1..Cardinality(S) :
              /\ Ascending(S)[k] \in S
              /\ At(seq, S)[k] = seq[Ascending(S)[k]]
         /\ \A j, k \in 1..Cardinality(S) :
              j < k => Ascending(S)[j] < Ascending(S)[k]
         /\ \A j, k \in 1..Cardinality(S) :
              j # k => Ascending(S)[j] # Ascending(S)[k]
         /\ \A i \in S : \E k \in 1..Cardinality(S) : Ascending(S)[k] = i
<1>1. DOMAIN seq = 1..Len(seq) /\ Len(seq) \in Nat
  OBVIOUS
<1>2. S \in SUBSET Int /\ IsFiniteSet(S)
  <2>1. S \in SUBSET (1..Len(seq)) /\ IsFiniteSet(1..Len(seq))
    BY <1>1, FS_Interval
  <2>2. IsFiniteSet(S)
    BY <2>1, FS_Subset
  <2> QED BY <2>1, <2>2
<1>3. /\ Cardinality(S) \in Nat
      /\ Ascending(S) \in [1..Cardinality(S) -> S]
      /\ \A j, k \in 1..Cardinality(S) :
           j < k => Ascending(S)[j] < Ascending(S)[k]
      /\ \A i \in S : \E k \in 1..Cardinality(S) : Ascending(S)[k] = i
  BY <1>2, AscendingLists
<1>4. \A k \in 1..Cardinality(S) : Ascending(S)[k] \in S
  BY <1>3
<1>5. \A k \in 1..Cardinality(S) : At(seq, S)[k] = seq[Ascending(S)[k]]
  BY DEF At
<1>6. \A k \in 1..Cardinality(S) : seq[Ascending(S)[k]] \in D
  BY <1>1, <1>4, ElementOfSeq
<1>7. At(seq, S) \in [1..Cardinality(S) -> D]
  BY <1>6 DEF At
<1>8. At(seq, S) \in Seq(D) /\ Len(At(seq, S)) = Cardinality(S)
  BY <1>3, <1>7
<1>9. ASSUME NEW j \in 1..Cardinality(S), NEW k \in 1..Cardinality(S), j # k
      PROVE  Ascending(S)[j] # Ascending(S)[k]
  <2>1. /\ Ascending(S)[j] \in Int /\ Ascending(S)[k] \in Int
        /\ j < k \/ k < j
    BY <1>2, <1>3, <1>4, <1>9
  <2> QED BY <1>3, <2>1
<1> QED BY <1>2, <1>3, <1>4, <1>5, <1>8, <1>9
=============================================================================
