--------------------------- MODULE OrderingProofs ---------------------------
(***************************************************************************)
(* Walking a finite set of ids in order: there is a first one, and the     *)
(* places are distinct and fill the numbers below the size of the set.     *)
(***************************************************************************)
EXTENDS Ordering, FiniteSetsExt, FiniteSetTheorems, WellFoundedInduction, TLAPS

\* Every non-empty set of natural numbers has a least element, and Min is it.
LEMMA MinOfNaturals ==
    ASSUME NEW S \in SUBSET Nat, S # {}
    PROVE  Min(S) \in S /\ \A y \in S : Min(S) <= y
<1> DEFINE R == OpToRel(<, Nat)
<1>1. \E x \in S : \A y \in S : ~(<<y, x>> \in R)
  <2>1. IsWellFoundedOn(R, Nat)
    BY NatLessThanWellFounded
  <2> HIDE DEF R
  <2> QED
    BY <2>1, WFMin
<1>2. PICK x \in S : \A y \in S : ~(<<y, x>> \in R)
  BY <1>1
<1>3. \A y \in S : x <= y
  <2> SUFFICES ASSUME NEW y \in S, y < x PROVE FALSE
    OBVIOUS
  <2>1. <<y, x>> \in R
    BY DEF OpToRel
  <2> QED
    BY <1>2, <2>1
<1>4. \E m \in S : \A y \in S : m <= y
  BY <1>3
<1> QED
  BY <1>4 DEF Min

\* A set of naturals that contains 0 and, with every number, the next one: the
\* principle of induction, for sets.
LEMMA SetInduction ==
    ASSUME NEW S, 0 \in S, \A n \in Nat : n \in S => n + 1 \in S
    PROVE  Nat \subseteq S
<1> DEFINE Missing == {n \in Nat : n \notin S}
<1> SUFFICES ASSUME Missing # {} PROVE FALSE
  OBVIOUS
<1>1. Min(Missing) \in Missing /\ \A y \in Missing : Min(Missing) <= y
  BY MinOfNaturals
<1>2. PICK m \in Missing : \A y \in Missing : m <= y
  BY <1>1
<1>3. m # 0 /\ m - 1 \in Nat
  OBVIOUS
<1>4. m - 1 \in S
  BY <1>2, <1>3
<1>5. (m - 1) + 1 \in S
  BY <1>3, <1>4
<1> QED
  BY <1>3, <1>5

\* Places are below the number of ids ...
LEMMA RankBounds ==
    ASSUME NEW ids \in SUBSET Nat, IsFiniteSet(ids)
    PROVE  /\ Cardinality(ids) \in Nat
           /\ \A id \in ids : Rank(ids, id) \in Nat /\ Rank(ids, id) \in 0..(Cardinality(ids) - 1)
<1>1. Cardinality(ids) \in Nat
  BY FS_CardinalityType
<1>2. ASSUME NEW id \in ids PROVE Rank(ids, id) \in Nat /\ Rank(ids, id) \in 0..(Cardinality(ids) - 1)
  <2> DEFINE below == {j \in ids : j < id}
  <2>1. below \subseteq ids /\ id \notin below /\ below # ids
    OBVIOUS
  <2>2. IsFiniteSet(below) /\ Cardinality(below) \in Nat /\ Cardinality(below) < Cardinality(ids)
    BY <1>1, <2>1, FS_Subset, FS_CardinalityType
  <2> QED
    BY <1>1, <2>2 DEF Rank
<1> QED
  BY <1>1, <1>2

\* ... and grow with the id.
LEMMA RankIncreases ==
    ASSUME NEW ids \in SUBSET Nat, IsFiniteSet(ids), NEW a \in ids, NEW b \in ids, a < b
    PROVE  Rank(ids, a) < Rank(ids, b)
<1> DEFINE A == {k \in ids : k < a}
           B == {k \in ids : k < b}
<1>0. \A k \in ids : k \in Nat
  OBVIOUS
<1>1. A \in SUBSET B /\ a \in B /\ a \notin A
  <2>1. \A k \in ids : k < a => k < b
    BY <1>0
  <2>2. ~(a < a)
    BY <1>0
  <2> QED
    BY <2>1, <2>2
<1>2. IsFiniteSet(B)
  BY FS_Subset
<1>3. Cardinality(A) < Cardinality(B)
  <2> HIDE DEF A, B
  <2>1. IsFiniteSet(A) /\ Cardinality(A) <= Cardinality(B) /\ Cardinality(A) # Cardinality(B)
    BY <1>1, <1>2, FS_Subset
  <2> QED
    BY <1>2, <2>1, FS_CardinalityType
<1> QED
  BY <1>3 DEF Rank

\* Two ids with the same place are one.
LEMMA RankInjective ==
    ASSUME NEW ids \in SUBSET Nat, IsFiniteSet(ids), NEW i \in ids, NEW j \in ids,
           Rank(ids, i) = Rank(ids, j)
    PROVE  i = j
<1>1. Rank(ids, i) \in Nat /\ Rank(ids, j) \in Nat
  BY RankBounds
<1>2. i < j => Rank(ids, i) < Rank(ids, j)
  BY RankIncreases
<1>3. j < i => Rank(ids, j) < Rank(ids, i)
  BY RankIncreases
<1>4. ~(i < j) /\ ~(j < i)
  BY <1>1, <1>2, <1>3
<1> QED
  BY <1>4
=============================================================================
