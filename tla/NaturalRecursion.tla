---------------------------- MODULE NaturalRecursion ----------------------------
(***************************************************************************)
(* Induction and recursion over the natural numbers, for sets and          *)
(* functions.  The theorems of NaturalsInduction say the same of           *)
(* operators.                                                              *)
(***************************************************************************)
EXTENDS Integers, WellFoundedInduction, TLAPS

\* A non-empty set of natural numbers has a least element.
LEMMA LeastNatural ==
  ASSUME NEW S \in SUBSET Nat, S # {}
  PROVE  \E x \in S : \A y \in S : x <= y
<1>1. PICK x \in S : \A y \in S : <<y, x>> \notin OpToRel(<, Nat)
  BY NatLessThanWellFounded, WFMin
<1>2. ASSUME NEW y \in S PROVE x <= y
  <2>1. y \in Nat /\ x \in Nat /\ ~(y < x)
    BY <1>1 DEF OpToRel
  <2> QED BY <2>1
<1> QED BY <1>2

LEMMA SetInduction ==
  ASSUME NEW S, 0 \in S, \A n \in Nat : n \in S => n + 1 \in S
  PROVE  Nat \subseteq S
<1> SUFFICES ASSUME Nat \ S # {} PROVE FALSE
  OBVIOUS
<1>1. PICK x \in Nat \ S : \A y \in Nat \ S : x <= y
  BY LeastNatural
<1>2. x - 1 \in Nat /\ x - 1 \in S
  <2>1. x \in Nat /\ x # 0
    BY <1>1
  <2>2. x - 1 \in Nat /\ ~(x <= x - 1)
    BY <2>1
  <2> QED BY <1>1, <2>2
<1> QED BY <1>1, <1>2

\* The first n iterations of a function D \in [Nat \X V -> V] from v0.
IsRun(V, v0, D, n, g) == /\ g \in [0..n -> V] /\ g[0] = v0
                         /\ \A i \in 0..(n - 1) : g[i + 1] = D[<<i, g[i]>>]

\* Two of them agree as far as both go.
LEMMA RunsAgree ==
  ASSUME NEW V, NEW v0, NEW D, NEW n \in Nat, NEW m \in Nat, n <= m,
         NEW g, IsRun(V, v0, D, n, g), NEW h, IsRun(V, v0, D, m, h)
  PROVE  g[n] = h[n]
<1> DEFINE Same == {i \in Nat : i <= n => g[i] = h[i]}
<1>1. 0 \in Same
  BY DEF IsRun
<1>2. ASSUME NEW i \in Nat, i \in Same PROVE i + 1 \in Same
  <2>1. CASE i + 1 <= n
    <3>1. i \in 0..(n - 1) /\ i \in 0..(m - 1) /\ g[i] = h[i]
      BY <1>2, <2>1
    <3>2. g[i + 1] = D[<<i, g[i]>>] /\ h[i + 1] = D[<<i, h[i]>>]
      BY <3>1 DEF IsRun
    <3> QED BY <3>1, <3>2
  <2> QED BY <2>1
<1>3. Nat \subseteq Same
  BY <1>1, <1>2, SetInduction
<1> QED BY <1>3

LEMMA RunsExist ==
  ASSUME NEW V, NEW v0 \in V, NEW D \in [Nat \X V -> V], NEW n \in Nat
  PROVE  \E g : IsRun(V, v0, D, n, g)
<1> DEFINE Reached == {k \in Nat : \E g : IsRun(V, v0, D, k, g)}
<1>1. 0 \in Reached
  <2> DEFINE h == [i \in 0..0 |-> v0]
  <2>1. IsRun(V, v0, D, 0, h)
    BY DEF IsRun
  <2> QED BY <2>1
<1>2. ASSUME NEW k \in Nat, k \in Reached PROVE k + 1 \in Reached
  <2>1. PICK g : IsRun(V, v0, D, k, g)
    BY <1>2
  <2> DEFINE h == [i \in 0..(k + 1) |-> IF i <= k THEN g[i] ELSE D[<<k, g[k]>>]]
  <2>2. /\ g \in [0..k -> V] /\ g[0] = v0 /\ k \in 0..k
        /\ \A i \in 0..(k - 1) : g[i + 1] = D[<<i, g[i]>>]
    BY <2>1 DEF IsRun
  <2>3. g[k] \in V /\ <<k, g[k]>> \in Nat \X V
    BY <2>2
  <2>4. D[<<k, g[k]>>] \in V
    BY <2>3
  <2>5. h \in [0..(k + 1) -> V]
    BY <2>2, <2>4
  <2>6. h[0] = v0 /\ h[k + 1] = D[<<k, g[k]>>] /\ \A i \in 0..k : h[i] = g[i]
    BY <2>2
  <2>7. \A i \in 0..((k + 1) - 1) : h[i + 1] = D[<<i, h[i]>>]
    <3> SUFFICES ASSUME NEW i \in 0..((k + 1) - 1) PROVE h[i + 1] = D[<<i, h[i]>>]
      OBVIOUS
    <3> HIDE DEF h
    <3>1. CASE i = k
      BY <2>6, <3>1
    <3>2. CASE i \in 0..(k - 1)
      <4>1. i \in 0..k /\ i + 1 \in 0..k
        BY <3>2
      <4> QED BY <2>2, <2>6, <3>2, <4>1
    <3> QED BY <3>1, <3>2
  <2> HIDE DEF h
  <2>8. IsRun(V, v0, D, k + 1, h)
    BY <2>5, <2>6, <2>7 DEF IsRun
  <2> QED BY <2>8
<1>3. Nat \subseteq Reached
  <2> HIDE DEF Reached
  <2> QED BY <1>1, <1>2, SetInduction
<1> QED BY <1>3

Iterates(V, v0, D, f) == /\ f \in [Nat -> V] /\ f[0] = v0
                         /\ \A n \in Nat : f[n + 1] = D[<<n, f[n]>>]

LEMMA Recursion ==
  ASSUME NEW V, NEW v0 \in V, NEW D \in [Nat \X V -> V]
  PROVE  \E f : Iterates(V, v0, D, f)
<1> DEFINE run == [n \in Nat |-> CHOOSE g : IsRun(V, v0, D, n, g)]
           f == [n \in Nat |-> run[n][n]]
<1>1. \A n \in Nat : IsRun(V, v0, D, n, run[n])
  BY RunsExist
<1> HIDE DEF run
<1>2. f \in [Nat -> V]
  <2>1. ASSUME NEW n \in Nat PROVE run[n][n] \in V
    <3>1. run[n] \in [0..n -> V] /\ n \in 0..n
      BY <1>1 DEF IsRun
    <3> QED BY <3>1
  <2> QED BY <2>1
<1>3. f[0] = v0
  BY <1>1 DEF IsRun
<1>4. ASSUME NEW n \in Nat PROVE f[n + 1] = D[<<n, f[n]>>]
  <2>1. n + 1 \in Nat /\ n <= n + 1 /\ n \in 0..((n + 1) - 1)
    OBVIOUS
  <2>2. IsRun(V, v0, D, n, run[n]) /\ IsRun(V, v0, D, n + 1, run[n + 1])
    BY <1>1, <2>1
  <2>3. run[n][n] = run[n + 1][n]
    BY <2>1, <2>2, RunsAgree
  <2>4. run[n + 1][n + 1] = D[<<n, run[n + 1][n]>>]
    BY <2>1, <2>2 DEF IsRun
  <2> QED BY <2>3, <2>4
<1> HIDE DEF f
<1>5. Iterates(V, v0, D, f)
  BY <1>2, <1>3, <1>4 DEF Iterates
<1> QED BY <1>5
================================================================================
