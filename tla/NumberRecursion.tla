---------------------------- MODULE NumberRecursion ----------------------------
(***************************************************************************)
(* Induction and recursion on numbers, for sets and functions instead of   *)
(* formulas and operators: what a function defined step by step computes   *)
(* can then be proved for every number of steps.                           *)
(***************************************************************************)
EXTENDS Integers, NaturalsInduction, WellFoundedInduction, TLAPS

(* Sets of numbers have a least element.                                    *)
LEMMA LeastExists ==
    ASSUME NEW S \in SUBSET Nat, S # {}
    PROVE  \E x \in S : \A y \in S : x <= y
<1> DEFINE R == {ss \in Nat \X Nat : ss[1] < ss[2]}
<1>1. IsWellFoundedOn(R, Nat)
  BY NatLessThanWellFounded, Zenon DEF OpToRel
<1> HIDE DEF R
<1>2. PICK x \in S : \A y \in S : ~(<<y, x>> \in R)
  BY <1>1, WFMin
<1>3. ASSUME NEW y \in S PROVE x <= y
  <2>1. <<y, x>> \in Nat \X Nat /\ <<y, x>>[1] = y /\ <<y, x>>[2] = x
    OBVIOUS
  <2>2. ~(<<y, x>>[1] < <<y, x>>[2])
    BY <1>2, <2>1, Zenon DEF R
  <2> QED BY <2>1, <2>2
<1> QED BY <1>3

(* What passes from each number to the next holds of all of them.           *)
LEMMA Upwards ==
    ASSUME NEW N \in Nat, NEW T, 0 \in T, \A n \in 1 .. N : n - 1 \in T => n \in T
    PROVE  \A n \in 0 .. N : n \in T
<1> DEFINE B == {n \in 0 .. N : n \notin T}
<1> SUFFICES ASSUME B # {} PROVE FALSE
  OBVIOUS
<1>1. PICK x \in B : \A y \in B : x <= y
  <2>1. B \in SUBSET Nat
    OBVIOUS
  <2> HIDE DEF B
  <2> QED BY <2>1, LeastExists
<1>2. x \in 1 .. N /\ x - 1 \in 0 .. N /\ ~(x <= x - 1)
  BY <1>1
<1>3. x - 1 \in T
  BY <1>1, <1>2
<1> QED BY <1>1, <1>2, <1>3

(* A function defined step by step ...                                      *)
HasSteps(N, S, c, D) == \E f \in [0 .. N -> S] : f[0] = c /\ \A n \in 1 .. N : f[n] = D[n][f[n - 1]]

(* ... exists.                                                              *)
LEMMA Recursion ==
    ASSUME NEW N \in Nat, NEW S, NEW c \in S, NEW D \in [1 .. N -> [S -> S]]
    PROVE  HasSteps(N, S, c, D)
<1> DEFINE Good(m, f) == f \in [0 .. m -> S] /\ f[0] = c /\ \A n \in 1 .. m : f[n] = D[n][f[n - 1]]
           T == {m \in 0 .. N : \E f : Good(m, f)}
<1>1. 0 \in T
  <2> DEFINE f == [n \in 0 .. 0 |-> c]
  <2>1. Good(0, f)
    OBVIOUS
  <2> HIDE DEF Good, f
  <2> QED BY <2>1
<1>2. ASSUME NEW m \in 1 .. N, m - 1 \in T PROVE m \in T
  <2>1. PICK f : Good(m - 1, f)
    BY <1>2
  <2> DEFINE g == [n \in 0 .. m |-> IF n < m THEN f[n] ELSE D[m][f[m - 1]]]
  <2>2. f[m - 1] \in S /\ D[m][f[m - 1]] \in S
    BY <2>1
  <2>3. g \in [0 .. m -> S] /\ g[0] = c
    BY <2>1, <2>2
  <2>4. ASSUME NEW n \in 1 .. m PROVE g[n] = D[n][g[n - 1]]
    <3>1. n - 1 < m /\ g[n - 1] = f[n - 1]
      OBVIOUS
    <3>2. CASE n < m
      BY <2>1, <3>1, <3>2
    <3>3. CASE n = m
      BY <3>1, <3>3
    <3> QED BY <3>2, <3>3
  <2>5. Good(m, g)
    BY <2>3, <2>4
  <2> HIDE DEF Good, g
  <2> QED BY <2>5
<1>3. N \in T
  <2> HIDE DEF T
  <2>1. \A n \in 0 .. N : n \in T
    BY <1>1, <1>2, Upwards
  <2> QED BY <2>1
<1> QED BY <1>3 DEF HasSteps
=============================================================================
