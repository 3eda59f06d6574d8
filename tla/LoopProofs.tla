----------------------------- MODULE LoopProofs -----------------------------
(***************************************************************************)
(* What the proofs about loops over a text rest on.  The library's         *)
(* induction theorems take an operator, which the provers cannot           *)
(* instantiate; a set of numbers serves as well, and so does a step that   *)
(* is a function.                                                          *)
(***************************************************************************)
EXTENDS Integers, TLAPS, WellFoundedInduction

\* The order of the naturals is well founded.
LEMMA LessWellFounded == IsWellFoundedOn({ss \in Nat \X Nat : ss[1] < ss[2]}, Nat)
  BY NatLessThanWellFounded DEF OpToRel

\* Induction over the naturals, for a set of numbers.
LEMMA SetInduction ==
    ASSUME NEW S, 0 \in S, \A n \in Nat : n \in S => n + 1 \in S
    PROVE  Nat \subseteq S
<1> DEFINE R == {ss \in Nat \X Nat : ss[1] < ss[2]}
           T == Nat \ S
<1> SUFFICES ASSUME T # {} PROVE FALSE
  OBVIOUS
<1>1. PICK x \in T : \A y \in T : ~(<<y, x>> \in R)
  <2>1. IsWellFoundedOn(R, Nat)
    BY LessWellFounded
  <2>2. T \subseteq Nat /\ T # {}
    OBVIOUS
  <2> HIDE DEF R, T
  <2> QED
    BY <2>1, <2>2, WFMin
<1>2. x \in Nat /\ x # 0 /\ x - 1 \in Nat
  OBVIOUS
<1>3. x - 1 \in S
  <2>1. <<x - 1, x>> \in R
    BY <1>2
  <2> HIDE DEF R
  <2> QED
    BY <1>1, <1>2, <2>1
<1> QED
  BY <1>2, <1>3

\* f holds what a loop that starts with x0 has computed after each of its n rounds.
Rounds(f, X, x0, n, step) ==
    /\ f \in [0 .. n -> X] /\ f[0] = x0
    /\ \A k \in 1 .. n : f[k] = step[<<f[k - 1], k>>]

\* A loop computes something in each of its rounds.
LEMMA RoundsExist ==
    ASSUME NEW X, NEW x0 \in X, NEW n \in Nat, NEW step \in [X \X (1 .. n) -> X]
    PROVE  \E f : Rounds(f, X, x0, n, step)
<1> DEFINE S == {m \in Nat : m <= n => \E f : Rounds(f, X, x0, m, step)}
<1>1. 0 \in S
  <2>1. Rounds([k \in 0 .. 0 |-> x0], X, x0, 0, step)
    BY DEF Rounds
  <2> QED
    BY <2>1
<1>2. ASSUME NEW m \in Nat, m \in S PROVE m + 1 \in S
  <2> SUFFICES ASSUME m + 1 <= n PROVE \E g : Rounds(g, X, x0, m + 1, step)
    OBVIOUS
  <2>1. PICK f : Rounds(f, X, x0, m, step)
    BY <1>2
  <2> DEFINE g == [k \in 0 .. m + 1 |-> IF k = m + 1 THEN step[<<f[m], m + 1>>] ELSE f[k]]
  <2>2. f \in [0 .. m -> X] /\ f[0] = x0 /\ \A k \in 1 .. m : f[k] = step[<<f[k - 1], k>>]
    BY <2>1 DEF Rounds
  <2>3. step[<<f[m], m + 1>>] \in X
    <3>1. f[m] \in X /\ m + 1 \in 1 .. n
      BY <2>2
    <3>2. <<f[m], m + 1>> \in X \X (1 .. n)
      BY <3>1
    <3> QED
      BY <3>2
  <2>4. g \in [0 .. m + 1 -> X]
    BY <2>2, <2>3
  <2>5. g[0] = x0 /\ g[m + 1] = step[<<f[m], m + 1>>] /\ \A k \in 0 .. m : g[k] = f[k]
    BY <2>2
  <2> HIDE DEF g
  <2>6. ASSUME NEW k \in 1 .. m + 1 PROVE g[k] = step[<<g[k - 1], k>>]
    <3>1. k - 1 \in 0 .. m /\ g[k - 1] = f[k - 1]
      BY <2>5
    <3>2. CASE k = m + 1
      BY <2>5, <3>1, <3>2
    <3>3. CASE k # m + 1
      <4>1. k \in 1 .. m /\ k \in 0 .. m
        BY <3>3
      <4> QED
        BY <2>2, <2>5, <3>1, <4>1
    <3> QED
      BY <3>2, <3>3
  <2> QED
    BY <2>4, <2>5, <2>6 DEF Rounds
<1>3. n \in S
  <2> HIDE DEF S
  <2> QED
    BY <1>1, <1>2, SetInduction
<1> QED
  BY <1>3

\* What every round keeps holds after each of them.
LEMMA RoundsKeep ==
    ASSUME NEW X, NEW n \in Nat, NEW f, f[0] \in X,
           \A k \in 1 .. n : f[k - 1] \in X => f[k] \in X
    PROVE  \A k \in 0 .. n : f[k] \in X
<1> DEFINE S == {m \in Nat : m <= n => f[m] \in X}
<1>1. 0 \in S
  OBVIOUS
<1>2. ASSUME NEW m \in Nat, m \in S PROVE m + 1 \in S
  <2> SUFFICES ASSUME m + 1 <= n PROVE f[m + 1] \in X
    OBVIOUS
  <2>1. PICK k : k = m + 1
    OBVIOUS
  <2>2. k \in 1 .. n /\ k - 1 = m /\ f[k - 1] \in X
    BY <1>2, <2>1
  <2> QED
    BY <2>1, <2>2
<1>3. Nat \subseteq S
  <2> HIDE DEF S
  <2> QED
    BY <1>1, <1>2, SetInduction
<1> QED
  BY <1>3

\* A set of numbers that is not empty has a least one.
LEMMA LeastExists ==
    ASSUME NEW S \in SUBSET Nat, S # {}
    PROVE  \E i \in S : \A j \in S : i <= j
<1> DEFINE R == {ss \in Nat \X Nat : ss[1] < ss[2]}
<1>1. PICK x \in S : \A y \in S : ~(<<y, x>> \in R)
  <2>1. IsWellFoundedOn(R, Nat)
    BY LessWellFounded
  <2> HIDE DEF R
  <2> QED
    BY <2>1, WFMin
<1>2. ASSUME NEW j \in S PROVE x <= j
  <2>1. ~(<<j, x>> \in R) /\ j \in Nat /\ x \in Nat
    BY <1>1
  <2> QED
    BY <2>1
<1> QED
  BY <1>1, <1>2
=============================================================================
