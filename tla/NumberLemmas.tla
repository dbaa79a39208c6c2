---------------------------- MODULE NumberLemmas ----------------------------
(***************************************************************************)
(* Induction over the natural numbers without operator parameters: a set   *)
(* of numbers has a least one, a function has everywhere what it has at 0  *)
(* and passes on, and recursive functions on the numbers exist.            *)
(***************************************************************************)
EXTENDS Integers, WellFoundedInduction, TLAPS

(* A set of numbers that is not empty has a least one. *)
LEMMA LeastNumber ==
  ASSUME NEW S \in SUBSET Nat, S # {}
  PROVE  \E x \in S : \A y \in S : x <= y
<1>1. PICK x \in S : \A y \in S : ~(<<y, x>> \in OpToRel(<, Nat))
  BY NatLessThanWellFounded, WFMin, Zenon
<1>2. ASSUME NEW y \in S PROVE x <= y
  <2>1. x \in Nat /\ y \in Nat
    OBVIOUS
  <2>2. ~(y < x)
    BY <1>1, <2>1 DEF OpToRel
  <2> QED
    BY <2>1, <2>2
<1> QED
  BY <1>2

(* Induction: what a function has at 0 and passes on, it has everywhere. *)
LEMMA Everywhere ==
  ASSUME NEW S, NEW g, g[0] \in S, \A n \in Nat : g[n] \in S => g[n + 1] \in S
  PROVE  \A n \in Nat : g[n] \in S
<1> DEFINE T == {n \in Nat : g[n] \notin S}
<1> SUFFICES ASSUME T # {} PROVE FALSE
  OBVIOUS
<1>1. PICK n \in T : \A m \in T : n <= m
  BY LeastNumber
<1>2. n # 0
  OBVIOUS
<1>3. n - 1 \in Nat /\ (n - 1) + 1 = n /\ n - 1 \notin T
  BY <1>1, <1>2
<1> QED
  BY <1>3

(* f is the function that begins with a and goes on by step. *)
Iterates(f, S, a, step) ==
  f \in [Nat -> S] /\ f[0] = a /\ \A n \in Nat \ {0} : f[n] = step[<<n, f[n - 1]>>]

(* A recursive function on the numbers exists. *)
LEMMA Recursion ==
  ASSUME NEW S, NEW a \in S, NEW step \in [Nat \X S -> S]
  PROVE  \E f : Iterates(f, S, a, step)
<1> DEFINE Upto(n, g) == /\ g \in [0..n -> S] /\ g[0] = a
                         /\ \A k \in 1..n : g[k] = step[<<k, g[k - 1]>>]
<1>1. \A n \in Nat : \E g : Upto(n, g)
  <2> DEFINE T == {n \in Nat : ~\E g : Upto(n, g)}
  <2> SUFFICES ASSUME T # {} PROVE FALSE
    OBVIOUS
  <2>1. PICK n \in T : \A m \in T : n <= m
    BY LeastNumber
  <2>2. CASE n = 0
    <3>1. Upto(0, [k \in 0..0 |-> a])
      OBVIOUS
    <3> QED
      BY <2>2, <3>1
  <2>3. CASE n # 0
    <3>1. n - 1 \in Nat /\ n - 1 \notin T
      <4>1. n \in Nat /\ \A m \in T : m \in Nat /\ n <= m
        BY <2>1
      <4> HIDE DEF T
      <4> QED
        BY <2>3, <4>1
    <3>2. PICK g : Upto(n - 1, g)
      BY <3>1
    <3> DEFINE h == [k \in 0..n |-> IF k = n THEN step[<<n, g[n - 1]>>] ELSE g[k]]
    <3>3. g[n - 1] \in S /\ step[<<n, g[n - 1]>>] \in S
      BY <3>1, <3>2
    <3>4. h \in [0..n -> S] /\ h[0] = a
      BY <2>3, <3>1, <3>2, <3>3
    <3>5. ASSUME NEW k \in 1..n PROVE h[k] = step[<<k, h[k - 1]>>]
      <4>1. k - 1 \in 0..n /\ k - 1 # n /\ h[k - 1] = g[k - 1]
        BY <3>1
      <4>2. CASE k = n
        BY <4>1, <4>2
      <4>3. CASE k # n
        <5>1. k \in 1..(n - 1) /\ h[k] = g[k]
          BY <4>3, <3>1
        <5> QED
          BY <3>2, <4>1, <5>1
      <4> QED
        BY <4>2, <4>3
    <3> QED
      BY <3>4, <3>5
  <2> QED
    BY <2>2, <2>3
<1>2. ASSUME NEW m \in Nat, NEW n \in Nat, m <= n, NEW g, NEW h, Upto(m, g), Upto(n, h)
      PROVE  g[m] = h[m]
  <2> DEFINE T == {k \in 0..m : g[k] # h[k]}
  <2> SUFFICES ASSUME T # {} PROVE FALSE
    OBVIOUS
  <2>1. PICK k \in T : \A l \in T : k <= l
    <3>1. T \in SUBSET Nat
      OBVIOUS
    <3> HIDE DEF T
    <3> QED
      BY <3>1, LeastNumber
  <2>2. k # 0
    BY <1>2
  <2>3. k \in 1..m /\ k \in 1..n /\ k - 1 \in 0..m /\ k - 1 \notin T
    BY <1>2, <2>1, <2>2
  <2> QED
    BY <1>2, <2>3
<1> DEFINE G(n) == CHOOSE g : Upto(n, g)
           f == [n \in Nat |-> G(n)[n]]
<1>3. \A n \in Nat : Upto(n, G(n))
  BY <1>1
<1> HIDE DEF G
<1>4. f \in [Nat -> S] /\ f[0] = a
  BY <1>3
<1>5. ASSUME NEW n \in Nat \ {0} PROVE f[n] = step[<<n, f[n - 1]>>]
  <2>1. n - 1 \in Nat /\ n - 1 <= n /\ n \in Nat
    OBVIOUS
  <2>2. Upto(n - 1, G(n - 1)) /\ Upto(n, G(n))
    BY <1>3, <2>1
  <2>3. G(n - 1)[n - 1] = G(n)[n - 1]
    <3> HIDE DEF Upto
    <3> QED
      BY <1>2, <2>1, <2>2
  <2> QED
    BY <2>1, <2>2, <2>3
<1>6. Iterates(f, S, a, step)
  BY <1>4, <1>5 DEF Iterates
<1> QED
  BY <1>6
=============================================================================
