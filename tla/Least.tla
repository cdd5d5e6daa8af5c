------------------------------- MODULE Least -------------------------------
(***************************************************************************)
(* The least element of a set of numbers, which many definitions choose:   *)
(* the first text of a response, the first heading of a list; and what is  *)
(* shown from the last of some numbers down to the first, as that a        *)
(* recursion over the rest of a text defines a function.                   *)
(***************************************************************************)
EXTENDS Naturals, WellFoundedInduction, TLAPS

\* A set of numbers that is not empty has a least element.
LEMMA LeastExists ==
  ASSUME NEW T \in SUBSET Nat, T # {}
  PROVE  \E x \in T : \A y \in T : x <= y
<1> DEFINE R == OpToRel(<, Nat)
<1>1. IsWellFoundedOn(R, Nat)
  BY NatLessThanWellFounded
<1>2. \E x \in T : \A y \in T : <<y, x>> \notin R
  <2> HIDE DEF R
  <2> QED
    BY <1>1, WFMin
<1>3. \A x, y \in T : <<y, x>> \in R <=> y < x
  BY DEF OpToRel
<1> HIDE DEF R
<1>4. \E x \in T : \A y \in T : ~(y < x)
  BY <1>2, <1>3, Zenon
<1> QED
  BY <1>4

\* What holds of a number whenever it holds of all greater ones holds of all.
LEMMA Downwards ==
  ASSUME NEW N \in Nat, NEW S, \A i \in 1..N : (i + 1)..N \subseteq S => i \in S
  PROVE  1..N \subseteq S
<1> DEFINE T == {j \in 0..N : N - j \in 1..N /\ N - j \notin S}
<1> SUFFICES ASSUME T # {} PROVE FALSE
  <2>1. \A i \in 1..N : N - i \in 0..N /\ N - (N - i) = i
    OBVIOUS
  <2> QED
    BY <2>1
<1>1. PICK j \in T : \A k \in T : j <= k
  <2>1. T \in SUBSET Nat
    OBVIOUS
  <2> HIDE DEF T
  <2> QED
    BY <2>1, LeastExists
<1>2. ASSUME NEW i \in (N - j + 1)..N PROVE i \in S
  <2>1. N - i \in 0..N /\ N - (N - i) = i /\ i \in 1..N /\ ~(j <= N - i)
    BY <1>1
  <2> QED
    BY <1>1, <2>1
<1>3. N - j \in S
  BY <1>1, <1>2
<1> QED
  BY <1>1, <1>3

=============================================================================
