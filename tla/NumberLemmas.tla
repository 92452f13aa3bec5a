---------------------------- MODULE NumberLemmas -----------------------------
(***************************************************************************)
(* Facts about sets of numbers that the proofs of several modules cite.    *)
(***************************************************************************)
EXTENDS Integers, FiniteSetsExt, FiniteSetTheorems, WellFoundedInduction, TLAPS

\* A set of natural numbers that is not empty has a least one.
LEMMA LeastExists ==
    ASSUME NEW S \in SUBSET Nat, S # {}
    PROVE  \E k \in S : \A l \in S : k <= l
<1>1. \E k \in S : \A l \in S : <<l, k>> \notin OpToRel(<, Nat)
  BY NatLessThanWellFounded, WFMin
<1>2. PICK k \in S : \A l \in S : <<l, k>> \notin OpToRel(<, Nat)
  BY <1>1
<1>3. ASSUME NEW l \in S PROVE k <= l
  <2>1. ASSUME l < k PROVE <<l, k>> \in OpToRel(<, Nat)
    BY <1>3, <2>1, Zenon DEF OpToRel
  <2>2. l \in Nat /\ k \in Nat
    OBVIOUS
  <2>3. ~ (l < k)
    BY <1>2, <1>3, <2>1, Zenon
  <2> QED
    BY <2>2, <2>3
<1> QED
  BY <1>3

\* A bounded set of numbers that is not empty has a greatest one, which Max() of the
\* community modules is: the models take it for the newest job or the last rank.
LEMMA MaxIsGreatest ==
    ASSUME NEW n \in Nat, NEW S \in SUBSET (0 .. n), S # {}
    PROVE  Max(S) \in S /\ \A y \in S : y <= Max(S)
<1> DEFINE Below == {n - x : x \in S}
<1>1. \E k \in Below : \A l \in Below : k <= l
  <2>1. Below \subseteq Nat /\ Below # {}
    <3>1. \A x \in S : n - x \in Nat
      OBVIOUS
    <3>2. PICK x \in S : TRUE
      OBVIOUS
    <3>3. n - x \in Below
      BY <3>2
    <3> QED
      BY <3>1, <3>3
  <2> HIDE DEF Below
  <2> QED
    BY <2>1, LeastExists
<1>2. \E x \in S : \A y \in S : x >= y
  BY <1>1
<1> QED
  BY <1>2 DEF Max
-----------------------------------------------------------------------------
(* The sum over a set, as MapThenSumSet() of the community modules makes it: an     *)
(* element at a time.                                                               *)

Pick(s) == CHOOSE x \in s : TRUE
SumStep(f, S, g) == [s \in SUBSET S |-> IF s = {} THEN 0 ELSE f[Pick(s)] + g[s \ {Pick(s)}]]

LEMMA PickRemoved ==
    ASSUME NEW S, IsFiniteSet(S), NEW s \in SUBSET S, s # {}
    PROVE  /\ Pick(s) \in s /\ s \ {Pick(s)} \in SUBSET S
           /\ Cardinality(s) \in Nat /\ Cardinality(s \ {Pick(s)}) = Cardinality(s) - 1
           /\ Cardinality(s \ {Pick(s)}) \in Nat
<1>1. Pick(s) \in s
  BY DEF Pick
<1>2. IsFiniteSet(s)
  BY FS_Subset
<1>3. /\ IsFiniteSet(s \ {Pick(s)}) /\ Cardinality(s \ {Pick(s)}) = Cardinality(s) - 1
  BY <1>1, <1>2, FS_RemoveElement
<1> QED
  BY <1>1, <1>2, <1>3, FS_CardinalityType

\* There is such a function: up to sets of n elements, for every n.
LEMMA SumExists ==
    ASSUME NEW S, IsFiniteSet(S), NEW f
    PROVE  \E g : g = SumStep(f, S, g)
<1> DEFINE Small(n) == {s \in SUBSET S : Cardinality(s) <= n}
           Step(n, g) == [s \in Small(n) |-> IF s = {} THEN 0 ELSE f[Pick(s)] + g[s \ {Pick(s)}]]
           Fails == {n \in Nat : ~ \E g : g = Step(n, g)}
<1>1. \A s \in SUBSET S : Cardinality(s) \in Nat /\ (Cardinality(s) = 0 <=> s = {})
  BY FS_Subset, FS_CardinalityType, FS_EmptySet
<1>2. Fails = {}
  <2> SUFFICES ASSUME Fails # {} PROVE FALSE
    OBVIOUS
  <2>1. PICK n \in Fails : \A l \in Fails : n <= l
    <3>1. Fails \in SUBSET Nat
      OBVIOUS
    <3> HIDE DEF Fails
    <3> QED
      BY <3>1, LeastExists
  <2>2. n \in Nat /\ ~ \E g : g = Step(n, g)
    BY <2>1
  <2>3. CASE n = 0
    <3>1. PICK g : g = [s \in Small(n) |-> 0]
      OBVIOUS
    <3>2. \A s \in Small(n) : s = {}
      BY <1>1, <2>3
    <3>3. g = Step(n, g)
      BY <3>1, <3>2
    <3> QED
      BY <2>2, <3>3
  <2>4. CASE n # 0
    <3>1. n - 1 \in Nat /\ n - 1 \notin Fails
      <4>1. n - 1 \in Nat /\ ~ (n <= n - 1)
        BY <2>2, <2>4
      <4> HIDE DEF Fails
      <4> QED
        BY <2>1, <4>1
    <3>2. PICK h : h = Step(n - 1, h)
      BY <3>1
    <3>3. PICK g : g = Step(n, h)
      OBVIOUS
    <3>4. \A s \in Small(n - 1) : s \in Small(n) /\ h[s] = g[s]
      <4>1. ASSUME NEW s \in Small(n - 1) PROVE s \in Small(n)
        BY <1>1, <2>2
      <4>2. ASSUME NEW s \in Small(n - 1)
            PROVE  h[s] = IF s = {} THEN 0 ELSE f[Pick(s)] + h[s \ {Pick(s)}]
        BY <3>2
      <4>3. ASSUME NEW s \in Small(n)
            PROVE  g[s] = IF s = {} THEN 0 ELSE f[Pick(s)] + h[s \ {Pick(s)}]
        BY <3>3
      <4> HIDE DEF Small
      <4> QED
        BY <4>1, <4>2, <4>3
    <3>5. ASSUME NEW s \in Small(n), s # {} PROVE s \ {Pick(s)} \in Small(n - 1)
      BY <2>2, <3>5, PickRemoved
    <3>6. g = Step(n, g)
      <4>1. \A s \in Small(n) : s # {} => g[s \ {Pick(s)}] = h[s \ {Pick(s)}]
        BY <3>4, <3>5
      <4> HIDE DEF Small
      <4> QED
        BY <3>3, <4>1
    <3> QED
      BY <2>2, <3>6
  <2> QED
    BY <2>3, <2>4
<1>3. PICK n \in Nat : n = Cardinality(S)
  BY FS_CardinalityType
<1>4. Small(n) = SUBSET S
  BY <1>3, FS_Subset
<1>5. PICK g : g = Step(n, g)
  BY <1>2
<1>6. g = SumStep(f, S, g)
  BY <1>4, <1>5 DEF SumStep
<1> QED
  BY <1>6

\* A sum of numbers up to a is at most a times their number.
LEMMA SumBounded ==
    ASSUME NEW S, IsFiniteSet(S), NEW a \in Nat, NEW f, \A x \in S : f[x] \in 0 .. a,
           NEW g, g = SumStep(f, S, g)
    PROVE  g[S] \in Nat /\ g[S] <= a * Cardinality(S)
<1> DEFINE Fails == {n \in Nat : \E s \in SUBSET S :
                        Cardinality(s) = n /\ ~(g[s] \in Nat /\ g[s] <= a * n)}
<1>1. \A s \in SUBSET S : Cardinality(s) \in Nat /\ (Cardinality(s) = 0 <=> s = {})
  BY FS_Subset, FS_CardinalityType, FS_EmptySet
<1>2. \A s \in SUBSET S : g[s] = IF s = {} THEN 0 ELSE f[Pick(s)] + g[s \ {Pick(s)}]
  BY DEF SumStep
<1>3. Fails = {}
  <2> SUFFICES ASSUME Fails # {} PROVE FALSE
    OBVIOUS
  <2>1. PICK n \in Fails : \A l \in Fails : n <= l
    <3>1. Fails \in SUBSET Nat
      OBVIOUS
    <3> HIDE DEF Fails
    <3> QED
      BY <3>1, LeastExists
  <2>2. PICK s \in SUBSET S : n \in Nat /\ Cardinality(s) = n /\ ~(g[s] \in Nat /\ g[s] <= a * n)
    BY <2>1
  <2>3. s # {}
    <3>1. ASSUME s = {} PROVE g[s] = 0
      BY <1>2, <3>1
    <3>2. ASSUME s = {} PROVE n = 0
      BY <1>1, <2>2, <3>2
    <3>3. a * 0 = 0
      OBVIOUS
    <3> QED
      BY <2>2, <3>1, <3>2, <3>3
  <2>4. PICK t \in SUBSET S : t = s \ {Pick(s)} /\ Cardinality(t) = n - 1 /\ n - 1 \in Nat /\ Pick(s) \in S
    <3>1. PICK t : t = s \ {Pick(s)}
      OBVIOUS
    <3>2. /\ Pick(s) \in s /\ t \in SUBSET S
          /\ Cardinality(t) = Cardinality(s) - 1 /\ Cardinality(t) \in Nat
      BY <2>3, <3>1, PickRemoved
    <3> QED
      BY <2>2, <3>1, <3>2
  <2>5. n - 1 \notin Fails
    <3>1. ~ (n <= n - 1)
      BY <2>2, <2>4
    <3> HIDE DEF Fails
    <3> QED
      BY <2>1, <3>1
  <2>6. g[t] \in Nat /\ g[t] <= a * (n - 1)
    BY <2>4, <2>5
  <2>7. a * n = a * (n - 1) + a /\ a * (n - 1) \in Nat /\ a * n \in Nat
    BY <2>2, <2>4
  <2>8. g[s] = f[Pick(s)] + g[t] /\ f[Pick(s)] \in 0 .. a
    BY <1>2, <2>2, <2>3, <2>4
  <2> QED
    BY <2>2, <2>6, <2>7, <2>8
<1>4. PICK n \in Nat : n = Cardinality(S)
  BY FS_CardinalityType
<1> QED
  BY <1>3, <1>4
=============================================================================
