----------------------------- MODULE PoolLemmas -----------------------------
(***************************************************************************)
(* The search of the allocators of subnet blocks, ClusterIPs and NodePorts, *)
(* and induction on natural numbers by infinite descent.                    *)
(***************************************************************************)
EXTENDS NaturalsInduction, WellFoundedInduction, TLAPS

\* The natural numbers are well ordered.
LEMMA LowestExists ==
  ASSUME NEW S \in SUBSET Nat, S # {}
  PROVE  \E x \in S : \A y \in S : x <= y
<1> DEFINE Less == {ss \in Nat \X Nat : ss[1] < ss[2]}
<1>1. IsWellFoundedOn(Less, Nat)
  BY NatLessThanWellFounded, Zenon DEF OpToRel
<1>2. \A x, y \in Nat : x < y => <<x, y>> \in Less
  OBVIOUS
<1> HIDE DEF Less
<1>3. PICK x \in S : \A y \in S : ~ (<<y, x>> \in Less)
  BY Zenon, <1>1, WFMin
<1>4. \A y \in S : x <= y
  <2> TAKE y \in S
  <2>1. x \in Nat /\ y \in Nat
    OBVIOUS
  <2>2. ~ (y < x)
    BY <1>2, <1>3, <2>1, Zenon
  <2> QED
    BY <2>1, <2>2
<1> QED
  BY Zenon, <1>4

\* Trying numbers from the lowest on ends at one that is free, if there is one
\* (SubnetStore.Allocate, ServiceStore.allocate).
LEMMA LowestIsThere ==
  ASSUME NEW S \in SUBSET Nat, S # {}
  PROVE  (CHOOSE x \in S : \A y \in S : x <= y) \in S
BY Zenon, LowestExists

\* A set of numbers each of which has a smaller one beside it is empty.
LEMMA Descent ==
  ASSUME NEW S \in SUBSET Nat, \A x \in S : \E y \in S : y < x
  PROVE  S = {}
<1> SUFFICES ASSUME S # {}
             PROVE  FALSE
  OBVIOUS
<1>1. PICK x \in S : \A y \in S : x <= y
  BY Zenon, LowestExists
<1>2. PICK y \in S : y < x
  BY Zenon
<1>3. x \in Nat /\ y \in Nat /\ x <= y
  BY Zenon, <1>1
<1> QED
  BY <1>2, <1>3
=============================================================================
