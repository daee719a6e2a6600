----------------------------- MODULE RankLemmas -----------------------------
(***************************************************************************)
(* Numbering the rows that an import or an earlier request left: each gets *)
(* the number of those no greater than it.                                 *)
(***************************************************************************)
EXTENDS Integers, FiniteSets, FiniteSetTheorems, WellFoundedInduction, TLAPS

\* Numbering the members of a set by how many are no greater gives each its own number.
LEMMA Ranks ==
  ASSUME NEW S \in SUBSET Nat, IsFiniteSet(S), NEW a \in S, NEW b \in S
  PROVE  /\ Cardinality({x \in S : x <= a}) \in Nat
         /\ Cardinality({x \in S : x <= a}) <= Cardinality(S)
         /\ Cardinality({x \in S : x <= a}) = Cardinality({x \in S : x <= b}) => a = b
<1> DEFINE upto(c) == {x \in S : x <= c}
<1>1. \A c \in S : IsFiniteSet(upto(c)) /\ Cardinality(upto(c)) \in Nat
                   /\ Cardinality(upto(c)) <= Cardinality(S)
  <2> TAKE c \in S
  <2>1. upto(c) \in SUBSET S
    OBVIOUS
  <2> HIDE DEF upto
  <2> QED
    BY <2>1, FS_Subset, FS_CardinalityType
<1>2. \A c, d \in S : c < d => Cardinality(upto(c)) # Cardinality(upto(d))
  <2> SUFFICES ASSUME NEW c \in S, NEW d \in S, c < d
               PROVE  Cardinality(upto(c)) # Cardinality(upto(d))
    OBVIOUS
  <2>0. \A x \in S : x \in Nat
    OBVIOUS
  <2>1. (\A x \in S : x <= c => x <= d) /\ d <= d /\ ~(d <= c)
    BY <2>0
  <2>2. upto(c) \in SUBSET upto(d) /\ d \in upto(d) /\ d \notin upto(c)
    BY <2>1
  <2> HIDE DEF upto
  <2> QED
    BY <1>1, <2>2, FS_Subset
<1> HIDE DEF upto
<1>3. Cardinality(upto(a)) = Cardinality(upto(b)) => a = b
  <2>1. a < b \/ b < a \/ a = b
    OBVIOUS
  <2> QED
    BY <1>2, <2>1
<1> QED
  BY <1>1, <1>3 DEF upto
\* Numbers have a least one.
LEMMA LeastNumber ==
  ASSUME NEW S, S \subseteq Nat, S # {}
  PROVE  \E m \in S : \A n \in S : m <= n
<1>1. PICK m \in S : \A n \in S : ~(<<n, m>> \in OpToRel(<, Nat))
  BY WFMin, NatLessThanWellFounded, Zenon
<1>2. \A n \in S : m <= n
  <2> SUFFICES ASSUME NEW n \in S PROVE ~(n < m)
    OBVIOUS
  <2> QED
    BY <1>1 DEF OpToRel
<1> QED
  BY <1>2

=============================================================================
