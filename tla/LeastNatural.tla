---------------------------- MODULE LeastNatural ----------------------------
(***************************************************************************)
(* Facts about numbers that the proofs of Admission, SubReactor, SkipList, *)
(* TreeHoleService and HttpParser need.                                    *)
(***************************************************************************)
EXTENDS Naturals, FiniteSetTheorems, WellFoundedInduction, TLAPS

(* A non-empty set of numbers has a least one, whatever its size: so the   *)
(* CHOOSE of the earliest timer and of the lowest descriptor names one.    *)
LEMMA LeastExists ==
  ASSUME NEW S \in SUBSET Nat, S # {}
  PROVE  \E m \in S : \A x \in S : m <= x
<1> DEFINE T == {0..n : n \in S}
           R == StrictSubsetOrdering(Nat)
<1>1. T \subseteq FiniteSubsetsOf(Nat) /\ T # {}
  <2>1. \A n \in Nat : IsFiniteSet(0..n) /\ 0..n \subseteq Nat
    BY FS_Interval
  <2>2. T \subseteq FiniteSubsetsOf(Nat)
    BY <2>1 DEF FiniteSubsetsOf
  <2> QED BY <2>2
<1>2. IsWellFoundedOn(R, FiniteSubsetsOf(Nat))
  BY FS_StrictSubsetOrderingWellFounded
<1> HIDE DEF T, R
<1>3. PICK u \in T : \A y \in T : ~ (<<y, u>> \in R)
  BY <1>1, <1>2, WFMin
<1>4. PICK m \in S : u = 0..m
  BY DEF T
<1>5. ASSUME NEW x \in S, x < m PROVE FALSE
  <2>1. 0..x \in T /\ 0..x \subseteq 0..m /\ 0..x # 0..m /\ 0..x \subseteq Nat /\ 0..m \subseteq Nat
    <3>1. m \in 0..m /\ m \notin 0..x
      BY <1>5
    <3> QED BY <1>5, <3>1 DEF T
  <2>2. <<0..x, u>> \in R
    BY <1>4, <2>1 DEF R, StrictSubsetOrdering
  <2> QED BY <1>3, <2>1, <2>2
<1>6. \A x \in S : m <= x
  BY <1>5
<1> QED BY <1>6

(* What holds of zero, and of a number when it holds of the one before,    *)
(* holds up to any bound.                                                  *)
LEMMA NumberInduction ==
  ASSUME NEW n \in Nat, NEW G, 0 \in G, \A k \in 1..n : k - 1 \in G => k \in G
  PROVE  \A k \in 0..n : k \in G
<1> DEFINE Bad == {k \in 0..n : k \notin G}
<1>1. SUFFICES ASSUME Bad # {} PROVE FALSE
  OBVIOUS
<1>2. PICK k \in Bad : \A x \in Bad : k <= x
  <2>1. Bad \subseteq Nat
    OBVIOUS
  <2> HIDE DEF Bad
  <2> QED BY <1>1, <2>1, LeastExists
<1>3. k \in 0..n /\ k \notin G /\ k # 0
  OBVIOUS
<1>4. k \in 1..n /\ k - 1 \in 0..n /\ ~(k <= k - 1)
  BY <1>3
<1>5. k - 1 \in G
  <2>1. k - 1 \notin Bad
    <3> HIDE DEF Bad
    <3> QED BY <1>2, <1>4
  <2> QED BY <1>4, <2>1
<1> QED BY <1>3, <1>4, <1>5
=============================================================================
