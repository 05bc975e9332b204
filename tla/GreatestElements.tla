--------------------------- MODULE GreatestElements ---------------------------
(***************************************************************************)
(* Greatest elements of sets of numbers: what Max of the community modules *)
(* gives, for the proofs about revisions, rounds and sequence numbers.     *)
(***************************************************************************)
EXTENDS Integers, FiniteSetsExt, WellFoundedInduction, TLAPS

(* A set of naturals has a least element. *)
LEMMA LeastNatural ==
  ASSUME NEW S \in SUBSET Nat, S # {}
  PROVE  \E x \in S : \A y \in S : x <= y
  <1>1. PICK x \in S : \A y \in S : ~ (<<y, x>> \in OpToRel(<, Nat))
    BY WFMin, NatLessThanWellFounded, Zenon
  <1>2. \A y \in S : ~ (y < x)
    BY <1>1 DEF OpToRel
  <1>3. x \in Nat /\ \A y \in S : y \in Nat
    OBVIOUS
  <1>4. QED
    BY <1>2, <1>3

(* A bounded set of naturals has a greatest element: its least bound.      *)
LEMMA GreatestNatural ==
  ASSUME NEW S \in SUBSET Nat, S # {}, NEW n \in Nat, \A x \in S : x <= n
  PROVE  /\ Max(S) \in S
         /\ Max(S) \in Nat
         /\ \A x \in S : x <= Max(S)
         /\ Max(S) <= n
  <1> DEFINE Bounds == {b \in Nat : \A x \in S : x <= b}
  <1>1. PICK b \in Bounds : \A c \in Bounds : b <= c
    <2>1. n \in Bounds /\ Bounds \in SUBSET Nat
      OBVIOUS
    <2>2. QED
      BY <2>1, LeastNatural
  <1>2. b \in S
    <2>1. SUFFICES ASSUME b \notin S PROVE FALSE
      OBVIOUS
    <2>2. \A x \in S : x <= b - 1 /\ b - 1 \in Nat
      BY <1>1, <2>1
    <2>3. b - 1 \in Bounds
      BY <2>2
    <2>4. QED
      BY <1>1, <2>3
  <1>3. \E x \in S : \A y \in S : x >= y
    BY <1>1, <1>2
  <1>4. Max(S) \in S /\ \A y \in S : Max(S) >= y
    BY <1>3 DEF Max
  <1>5. QED
    BY <1>4

(* An element that bounds its set is the greatest. *)
LEMMA GreatestIs ==
  ASSUME NEW S \in SUBSET Nat, NEW m \in S, \A x \in S : x <= m
  PROVE  Max(S) = m
  <1>1. Max(S) \in S /\ \A x \in S : Max(S) >= x
    <2>1. \E y \in S : \A x \in S : y >= x
      OBVIOUS
    <2>2. QED
      BY <2>1 DEF Max
  <1>2. Max(S) \in Nat /\ m \in Nat /\ Max(S) >= m /\ Max(S) <= m
    BY <1>1
  <1>3. QED
    BY <1>2

===============================================================================
