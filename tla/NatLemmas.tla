----------------------------- MODULE NatLemmas -----------------------------
(***************************************************************************)
(* Induction on the natural numbers, for sets of them, and the smallest    *)
(* and the largest of a set: what the proofs about loops rest on.          *)
(***************************************************************************)
EXTENDS Integers, FiniteSetTheorems, WellFoundedInduction, TLAPS

\* Induction, for a set: the intervals 0 .. m that end in a counterexample
\* have a smallest one.
LEMMA SetInduction ==
    ASSUME NEW S, 0 \in S, \A n \in Nat : n \in S => n + 1 \in S
    PROVE  \A n \in Nat : n \in S
<1> SUFFICES ASSUME NEW n \in Nat, n \notin S PROVE FALSE
    OBVIOUS
<1> DEFINE B == {m \in 0 .. n : m \notin S}
           F == {0 .. m : m \in B}
<1>1. F \subseteq FiniteSubsetsOf(0 .. n) /\ F # {}
  <2>1. n \in B
      OBVIOUS
  <2>2. \A m \in B : IsFiniteSet(0 .. m) /\ 0 .. m \subseteq 0 .. n
      BY FS_Interval
  <2>. QED
      BY <2>1, <2>2 DEF FiniteSubsetsOf
<1>2. PICK x \in F : \A y \in F : ~(<<y, x>> \in StrictSubsetOrdering(0 .. n))
    BY <1>1, WFMin, FS_StrictSubsetOrderingWellFounded
<1>3. PICK m \in B : x = 0 .. m
    OBVIOUS
<1>4. m # 0 /\ m - 1 \in B
    OBVIOUS
<1>5. 0 .. m - 1 \in F
    BY <1>4
<1>6. <<0 .. m - 1, x>> \in StrictSubsetOrdering(0 .. n)
  <2>1. 0 .. m - 1 \in SUBSET (0 .. n) /\ x \in SUBSET (0 .. n)
      BY <1>3
  <2>2. 0 .. m - 1 \subseteq x /\ m \in x /\ m \notin 0 .. m - 1
      BY <1>3
  <2>. QED
      BY <2>1, <2>2 DEF StrictSubsetOrdering
<1>. QED
    BY <1>2, <1>5, <1>6

\* A set of numbers that is not empty has a smallest element.
LEMMA Smallest ==
    ASSUME NEW S \in SUBSET Nat, S # {}
    PROVE  \E m \in S : \A n \in S : m <= n
<1> SUFFICES ASSUME \A m \in S : \E n \in S : n < m PROVE FALSE
    OBVIOUS
<1> DEFINE B == {n \in Nat : \A m \in 0 .. n : m \notin S}
<1>1. 0 \in B
    OBVIOUS
<1>2. ASSUME NEW n \in Nat, n \in B PROVE n + 1 \in B
    BY <1>2
<1>3. \A n \in Nat : n \in B
  <2> HIDE DEF B
  <2>. QED
      BY <1>1, <1>2, SetInduction
<1>4. PICK m \in S : TRUE
    OBVIOUS
<1>5. m \in Nat /\ m \in B /\ m \in 0 .. m
    BY <1>3
<1>. QED
    BY <1>5

\* A set of numbers that is bounded and not empty has a largest element.
LEMMA Largest ==
    ASSUME NEW S \in SUBSET Nat, S # {}, NEW b \in Nat, \A n \in S : n <= b
    PROVE  \E m \in S : \A n \in S : n <= m
<1> DEFINE B == {b - n : n \in S}
<1>1. B \in SUBSET Nat /\ B # {}
  <2>1. \A n \in S : b - n \in Nat
      OBVIOUS
  <2>2. PICK n \in S : TRUE
      OBVIOUS
  <2>3. b - n \in B
      OBVIOUS
  <2>. QED
      BY <2>1, <2>3
<1>2. PICK m \in B : \A n \in B : m <= n
    BY <1>1, Smallest
<1>3. PICK k \in S : m = b - k
    OBVIOUS
<1>. QED
    BY <1>2, <1>3
=============================================================================
