--------------------------- MODULE CountingLemmas ---------------------------
(***************************************************************************)
(* Lemmas on counting the members of a set that one step changes in at most*)
(* one place: what the proofs about the counters of ProxyAdmission and the *)
(* rows of RoleAdministration rest on.                                     *)
(***************************************************************************)
EXTENDS FiniteSets, Integers, FiniteSetTheorems, TLAPS

Bit(b) == IF b THEN 1 ELSE 0

\* Two sets that differ in q at most: the count moves with q.
LEMMA OneDiffers ==
    ASSUME NEW S, NEW T, NEW q, IsFiniteSet(S), T \ {q} = S \ {q}
    PROVE  /\ IsFiniteSet(T)
           /\ Cardinality(S) \in Nat /\ Cardinality(T) \in Nat
           /\ Cardinality(T) + Bit(q \in S) = Cardinality(S) + Bit(q \in T)
<1>1. Cardinality(S) \in Nat
    BY FS_CardinalityType
<1>2. CASE q \in S /\ q \in T
    <2>1. S = T
        BY <1>2
    <2> QED
        BY <1>1, <2>1
<1>3. CASE q \notin S /\ q \notin T
    <2>1. S = T
        BY <1>3
    <2> QED
        BY <1>1, <2>1
<1>4. CASE q \notin S /\ q \in T
    <2>1. T = S \cup {q}
        BY <1>4
    <2>2. IsFiniteSet(T) /\ Cardinality(T) = Cardinality(S) + 1
        BY <1>4, <2>1, FS_AddElement
    <2> QED
        BY <1>1, <1>4, <2>2 DEF Bit
<1>5. CASE q \in S /\ q \notin T
    <2>1. T = S \ {q}
        BY <1>5
    <2>2. IsFiniteSet(T) /\ Cardinality(T) = Cardinality(S) - 1
        BY <1>5, <2>1, FS_RemoveElement
    <2>3. Cardinality(T) \in Nat
        BY <2>2, FS_CardinalityType
    <2> QED
        BY <1>1, <1>5, <2>2, <2>3 DEF Bit
<1> QED
    BY <1>2, <1>3, <1>4, <1>5

LEMMA BitType == ASSUME NEW b PROVE Bit(b) \in {0, 1}
BY DEF Bit

=============================================================================
