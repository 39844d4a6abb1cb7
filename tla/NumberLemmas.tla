---------------------------- MODULE NumberLemmas ----------------------------
(***************************************************************************)
(* Facts about sets of natural numbers (snapshot ids, file ids, registry   *)
(* keys) that the proofs about the catalog tools share.                    *)
(***************************************************************************)
EXTENDS Naturals, FiniteSets, FiniteSetTheorems, WellFoundedInduction, TLAPS

\* A set of numbers that is not empty has a least element: min() over the
\* snapshots and cursors of ducklake_maintenance.py is defined.
LEMMA HasLeast ==
  ASSUME NEW S \in SUBSET Nat, S # {}
  PROVE  \E n \in S : \A m \in S : n <= m
<1>1. PICK x \in S : \A y \in S : ~ (<<y, x>> \in OpToRel(<, Nat))
  BY WFMin, NatLessThanWellFounded, Zenon
<1>2. \A y \in S : ~ (y < x)
  BY <1>1, Zenon DEF OpToRel
<1>3. \A y \in S : x <= y
  BY <1>2
<1> QED
  BY <1>3

\* A finite one has a greatest element too, as max(snapshot_id) needs: otherwise
\* take a smallest subset that has none, and remove an element from it.
LEMMA HasGreatest ==
  ASSUME NEW S \in SUBSET Nat, S # {}, IsFiniteSet(S)
  PROVE  \E n \in S : \A m \in S : m <= n
<1> DEFINE Bounded(T) == \E n \in T : \A m \in T : m <= n
           Bad == {k \in Nat : \E T \in SUBSET S : T # {} /\ Cardinality(T) = k /\ ~ Bounded(T)}
<1>1. Bad = {}
  <2>1. SUFFICES ASSUME Bad # {} PROVE FALSE
    OBVIOUS
  <2>2. Bad \subseteq Nat
    OBVIOUS
  <2>3. PICK k \in Bad : \A j \in Bad : ~ (<<j, k>> \in OpToRel(<, Nat))
    <3> HIDE DEF Bad
    <3> QED
      BY <2>1, <2>2, WFMin, NatLessThanWellFounded, Zenon
  <2>4. \A j \in Bad : ~ (j < k)
    <3> HIDE DEF Bad
    <3> QED
      BY <2>2, <2>3, Zenon DEF OpToRel
  <2>5. PICK T \in SUBSET S : T # {} /\ Cardinality(T) = k /\ ~ Bounded(T)
    BY <2>3
  <2>6. PICK x \in T : TRUE
    BY <2>5
  <2> DEFINE U == T \ {x}
  <2>7. IsFiniteSet(T)
    BY FS_Subset
  <2>8. k \in Nat /\ IsFiniteSet(U) /\ Cardinality(U) = k - 1 /\ Cardinality(U) \in Nat
    BY <2>5, <2>6, <2>7, FS_RemoveElement, FS_CardinalityType
  <2>9. CASE U = {}
    <3>1. x \in Nat
      BY <2>6
    <3>2. \A m \in T : m = x
      BY <2>9
    <3>3. \A m \in T : m <= x
      BY <3>1, <3>2
    <3> QED
      BY <2>5, <2>6, <3>3
  <2>10. CASE U # {}
    <3>1. Bounded(U)
      <4>1. SUFFICES ASSUME ~ Bounded(U) PROVE FALSE
        OBVIOUS
      <4>2. U \in SUBSET S
        OBVIOUS
      <4> HIDE DEF U, Bounded
      <4>3. Cardinality(U) \in Bad
        BY <2>8, <2>10, <4>1, <4>2
      <4> QED
        BY <2>4, <2>8, <4>3
    <3>2. PICK n \in U : \A m \in U : m <= n
      BY <3>1
    <3>3. CASE x <= n
      BY <2>5, <3>2, <3>3
    <3>4. CASE ~ (x <= n)
      <4>1. \A m \in T : m <= x
        BY <2>6, <3>2, <3>4
      <4> QED
        BY <2>5, <2>6, <4>1
    <3> QED
      BY <3>3, <3>4
  <2> QED
    BY <2>9, <2>10
<1>2. Cardinality(S) \in Nat
  BY FS_CardinalityType
<1>3. Bounded(S)
  BY <1>1, <1>2
<1> QED
  BY <1>3

\* ORDER BY ... LIMIT k: at most k elements have fewer than k below them.
LEMMA FirstOnes ==
  ASSUME NEW S \in SUBSET Nat, IsFiniteSet(S), NEW k \in Nat
  PROVE  LET P == {t \in S : Cardinality({u \in S : u < t}) < k}
         IN  IsFiniteSet(P) /\ Cardinality(P) \in Nat /\ Cardinality(P) <= k
<1> DEFINE P == {t \in S : Cardinality({u \in S : u < t}) < k}
<1>1. IsFiniteSet(P) /\ Cardinality(P) \in Nat
  BY FS_Subset, FS_CardinalityType
<1>2. ASSUME P = {} PROVE Cardinality(P) <= k
  <2>1. Cardinality(P) = 0
    BY <1>2, FS_EmptySet
  <2> QED
    BY <1>1, <2>1
<1>3. ASSUME P # {} PROVE Cardinality(P) <= k
  <2>1. PICK m \in P : \A t \in P : t <= m
    BY <1>1, <1>3, HasGreatest
  <2> DEFINE U == {u \in S : u < m}
  <2>2. IsFiniteSet(U) /\ Cardinality(U) \in Nat
    BY FS_Subset, FS_CardinalityType
  <2>3. Cardinality(U) < k
    BY <2>1
  <2>4. P \subseteq U \cup {m}
    <3>1. SUFFICES ASSUME NEW t \in P, t # m PROVE t \in S /\ t < m
      OBVIOUS
    <3>2. t \in S /\ m \in S /\ t \in Nat /\ m \in Nat /\ t <= m
      BY <2>1, <3>1
    <3> QED
      BY <3>1, <3>2
  <2> HIDE DEF P, U
  <2>5. IsFiniteSet(U \cup {m}) /\ Cardinality(U \cup {m}) \in Nat /\ Cardinality(U \cup {m}) <= Cardinality(U) + 1
    <3>1. /\ IsFiniteSet(U \cup {m})
          /\ Cardinality(U \cup {m}) = IF m \in U THEN Cardinality(U) ELSE Cardinality(U) + 1
      BY <2>2, FS_AddElement
    <3> QED
      BY <2>2, <3>1
  <2>6. Cardinality(P) <= Cardinality(U \cup {m})
    BY <2>4, <2>5, FS_Subset
  <2>7. \A a, b, c \in Nat : a <= b /\ b <= c + 1 /\ c < k => a <= k
    OBVIOUS
  <2> QED
    BY <1>1, <2>2, <2>3, <2>5, <2>6, <2>7
<1> QED
  BY <1>1, <1>2, <1>3
=============================================================================
