-------------------------- MODULE UssAffinitiesProofs --------------------------
(***************************************************************************)
(* The list that a client registers with is sorted, for every client: the  *)
(* loops of UssAffinities, by induction over their iterations.             *)
(***************************************************************************)
EXTENDS UssAffinities, NaturalRecursion

--------------------------------------------------------------------------------
(* libuss_fill_msi: the list has each type once, with the client's affinity. *)

Implementable(f) == \A t \in DOMAIN f : f[t] \in Nat \ {0}

Distinct(msai) == \A i, j \in DOMAIN msai : msai[i].type = msai[j].type => i = j

LEMMA ElementOf ==
  ASSUME NEW s \in Seq(Element), NEW i \in DOMAIN s
  PROVE  s[i] \in Element /\ s[i].type \in Nat /\ s[i].affinity \in Nat
<1>1. s[i] \in Element
  OBVIOUS
<1> QED BY <1>1 DEF Element

LEMMA FilledToStep ==
  ASSUME NEW f, Implementable(f)
  PROVE  /\ FilledTo(f)[0] = <<>>
         /\ \A n \in Nat : FilledTo(f)[n] \in Seq(Element)
         /\ \A n \in Nat : FilledTo(f)[n + 1] =
              IF n \in DOMAIN f /\ Len(FilledTo(f)[n]) < MaxTransport
              THEN Append(FilledTo(f)[n], [type |-> n, affinity |-> f[n]])
              ELSE FilledTo(f)[n]
<1> DEFINE V == Seq(Element)
           Step(n, s) == IF n \in DOMAIN f /\ Len(s) < MaxTransport
                         THEN Append(s, [type |-> n, affinity |-> f[n]]) ELSE s
           D == [p \in Nat \X V |-> Step(p[1], p[2])]
           F == FilledTo(f)
<1>1. \A n \in Nat : \A s \in V : Step(n, s) \in V
  <2> SUFFICES ASSUME NEW n \in Nat, NEW s \in V PROVE Step(n, s) \in V
    OBVIOUS
  <2>1. n \in DOMAIN f => [type |-> n, affinity |-> f[n]] \in Element
    BY DEF Implementable, Element
  <2> QED BY <2>1
<1>2. D \in [Nat \X V -> V]
  <2> SUFFICES ASSUME NEW p \in Nat \X V PROVE Step(p[1], p[2]) \in V
    BY Zenon
  <2> QED BY <1>1
<1>3. PICK g : Iterates(V, <<>>, D, g)
  <2>1. <<>> \in V
    OBVIOUS
  <2> HIDE DEF D, V, Step, F
  <2> QED BY <1>2, <2>1, Recursion
<1>4. \A n \in Nat : g[n + 1] = Step(n, g[n])
  <2> SUFFICES ASSUME NEW n \in Nat PROVE g[n + 1] = Step(n, g[n])
    OBVIOUS
  <2>1. g[n] \in V /\ <<n, g[n]>> \in Nat \X V
    BY <1>3 DEF Iterates
  <2>2. g[n + 1] = D[<<n, g[n]>>]
    BY <1>3 DEF Iterates
  <2> HIDE DEF Step, V
  <2> QED BY <2>1, <2>2
<1>5. g = [i \in Nat |-> IF i = 0 THEN <<>> ELSE Step(i - 1, g[i - 1])]
  <2> HIDE DEF Step, V
  <2>1. ASSUME NEW i \in Nat, i # 0 PROVE g[i] = Step(i - 1, g[i - 1])
    <3>1. i - 1 \in Nat /\ (i - 1) + 1 = i
      BY <2>1
    <3> QED BY <3>1, <1>4
  <2> QED BY <2>1, <1>3 DEF Iterates
<1>6. F = [i \in Nat |-> IF i = 0 THEN <<>> ELSE Step(i - 1, F[i - 1])]
  BY <1>5, Zenon DEF FilledTo
<1>7. F[0] = <<>> /\ \A n \in Nat : F[n + 1] = Step(n, F[n])
  <2> HIDE DEF Step, F
  <2>1. ASSUME NEW n \in Nat PROVE F[n + 1] = Step(n, F[n])
    <3>1. n + 1 \in Nat /\ n + 1 # 0 /\ (n + 1) - 1 = n
      OBVIOUS
    <3> QED BY <1>6, <3>1
  <2> QED BY <1>6, <2>1
<1>8. \A n \in Nat : F[n] \in V
  <2> DEFINE Done == {n \in Nat : F[n] \in V}
  <2>1. 0 \in Done
    <3>1. F[0] = <<>> /\ <<>> \in V
      BY <1>7
    <3> HIDE DEF F, V
    <3> QED BY <3>1
  <2>2. ASSUME NEW n \in Nat, n \in Done PROVE n + 1 \in Done
    <3> HIDE DEF Step, F, V
    <3> QED BY <1>1, <1>7, <2>2
  <2>3. Nat \subseteq Done
    <3> HIDE DEF Done
    <3> QED BY <2>1, <2>2, SetInduction
  <2> QED BY <2>3
<1> QED BY <1>7, <1>8

\* The list that a client fills: every type at most once, and with the affinity
\* that the client gave for it.
THEOREM FilledHasTypesOnce ==
  ASSUME NEW f, Implementable(f)
  PROVE  /\ Filled(f) \in Seq(Element) /\ Distinct(Filled(f))
         /\ \A i \in DOMAIN Filled(f) : /\ Filled(f)[i].type \in DOMAIN f
                                        /\ Filled(f)[i].type < NofTypes
                                        /\ Filled(f)[i].affinity = f[Filled(f)[i].type]
<1> DEFINE F == FilledTo(f)
           Good(s, n) == \A i \in DOMAIN s : /\ s[i].type \in DOMAIN f /\ s[i].type < n
                                             /\ s[i].affinity = f[s[i].type]
           Done == {n \in Nat : Distinct(F[n]) /\ Good(F[n], n)}
<1>1. F[0] = <<>> /\ \A n \in Nat : F[n] \in Seq(Element)
  BY FilledToStep
<1>2. 0 \in Done
  BY <1>1 DEF Distinct
<1>3. ASSUME NEW n \in Nat, n \in Done PROVE n + 1 \in Done
  <2> DEFINE s == F[n]
             e == [type |-> n, affinity |-> f[n]]
  <2>1. s \in Seq(Element) /\ Distinct(s) /\ Good(s, n)
    BY <1>1, <1>3
  <2>2. CASE n \in DOMAIN f /\ Len(s) < MaxTransport
    <3>1. F[n + 1] = Append(s, e)
      BY <2>2, FilledToStep
    <3> DEFINE r == Append(s, e)
    <3> HIDE DEF F, s
    <3>2. e \in Element
      BY <2>2 DEF Implementable, Element
    <3>3. /\ r \in Seq(Element) /\ Len(r) = Len(s) + 1 /\ r[Len(s) + 1] = e
          /\ \A i \in DOMAIN s : r[i] = s[i]
          /\ DOMAIN s = 1..Len(s) /\ DOMAIN r = 1..(Len(s) + 1)
      BY <2>1, <3>2
    <3>4. \A i \in DOMAIN s : s[i] \in Element /\ s[i].type \in Nat
      BY <2>1, ElementOf
    <3> HIDE DEF r
    <3>5. Good(r, n + 1)
      BY <2>1, <2>2, <3>3, <3>4
    <3>6. \A i \in DOMAIN s : r[i].type < n
      BY <2>1, <3>3
    <3>7. Distinct(r)
      <4> SUFFICES ASSUME NEW i \in DOMAIN r, NEW j \in DOMAIN r, r[i].type = r[j].type
                   PROVE i = j
        BY DEF Distinct
      <4>1. Len(s) \in Nat
        BY <2>1
      <4>2. CASE i \in DOMAIN s /\ j \in DOMAIN s
        BY <2>1, <3>3, <4>2 DEF Distinct
      <4>3. CASE i \notin DOMAIN s /\ j \notin DOMAIN s
        BY <3>3, <4>1, <4>3
      <4>4. r[Len(s) + 1].type = n /\ ~(n < n)
        BY <3>3
      <4>5. CASE i \in DOMAIN s /\ j \notin DOMAIN s
        <5>1. j = Len(s) + 1
          BY <3>3, <4>1, <4>5
        <5> QED BY <3>6, <4>4, <4>5, <5>1
      <4>6. CASE i \notin DOMAIN s /\ j \in DOMAIN s
        <5>1. i = Len(s) + 1
          BY <3>3, <4>1, <4>6
        <5> QED BY <3>6, <4>4, <4>6, <5>1
      <4> QED BY <4>2, <4>3, <4>5, <4>6
    <3>8. F[n + 1] = r
      BY <3>1 DEF r
    <3> HIDE DEF Good
    <3> QED BY <3>5, <3>7, <3>8
  <2>3. CASE ~(n \in DOMAIN f /\ Len(s) < MaxTransport)
    <3>1. F[n + 1] = s
      BY <2>3, FilledToStep
    <3>2. \A i \in DOMAIN s : s[i].type \in Nat
      BY <2>1, ElementOf
    <3>3. Good(s, n + 1)
      <4> HIDE DEF s
      <4> QED BY <2>1, <3>2
    <3> HIDE DEF Good, s, F
    <3> QED BY <2>1, <3>1, <3>3
  <2> QED BY <2>2, <2>3
<1>4. NofTypes \in Done
  <2>1. Nat \subseteq Done
    <3> HIDE DEF Done
    <3> QED BY <1>2, <1>3, SetInduction
  <2> QED BY <2>1, TransportAssumption
<1> HIDE DEF F
<1>5. Filled(f) = F[NofTypes]
  BY DEF Filled, F
<1> QED BY <1>1, <1>4, <1>5, TransportAssumption

--------------------------------------------------------------------------------
(* The bubble sort of libuss_register_at_daemon.                             *)

Lists(n) == {s \in Seq(Element) : Len(s) = n}
State(n) == [msai : Lists(n), exchanged : BOOLEAN]

IsPermutation(n, p) == /\ p \in [1..n -> 1..n]
                       /\ \A i, j \in 1..n : p[i] = p[j] => i = j
                       /\ \A j \in 1..n : \E i \in 1..n : p[i] = j

\* List r has the n elements of list s, in some order.
Permuted(n, s, r) == \E p : IsPermutation(n, p) /\ \A i \in 1..n : r[i] = s[p[i]]

\* No element after place k is better than one before it.
TailSorted(n, s, k) == \A i, j \in 1..n : i < j /\ j > k => s[j].affinity <= s[i].affinity

\* The first k elements are sorted.
HeadSorted(s, k) == \A i, j \in 1..k : i < j => s[j].affinity <= s[i].affinity

Descending(s) == HeadSorted(s, Len(s))

LEMMA ListOf ==
  ASSUME NEW n \in Nat, NEW s \in Lists(n), NEW i \in 1..n
  PROVE  /\ s \in Seq(Element) /\ Len(s) = n /\ DOMAIN s = 1..n
         /\ s[i] \in Element /\ s[i].type \in Nat /\ s[i].affinity \in Nat
<1>1. s \in Seq(Element) /\ Len(s) = n /\ DOMAIN s = 1..n
  BY DEF Lists
<1> QED BY <1>1, ElementOf

LEMMA PermutedReflexive ==
  ASSUME NEW n \in Nat, NEW s
  PROVE  Permuted(n, s, s)
<1> DEFINE p == [i \in 1..n |-> i]
<1>1. IsPermutation(n, p)
  BY DEF IsPermutation
<1>2. \A i \in 1..n : s[i] = s[p[i]]
  OBVIOUS
<1> QED BY <1>1, <1>2 DEF Permuted

LEMMA PermutedTransitive ==
  ASSUME NEW n \in Nat, NEW s, NEW r, NEW q, Permuted(n, s, r), Permuted(n, r, q)
  PROVE  Permuted(n, s, q)
<1>1. PICK a : IsPermutation(n, a) /\ \A i \in 1..n : r[i] = s[a[i]]
  BY DEF Permuted
<1>2. PICK b : IsPermutation(n, b) /\ \A i \in 1..n : q[i] = r[b[i]]
  BY DEF Permuted
<1> DEFINE c == [i \in 1..n |-> a[b[i]]]
<1>3. \A i \in 1..n : a[i] \in 1..n /\ b[i] \in 1..n
  BY <1>1, <1>2 DEF IsPermutation
<1>4. c \in [1..n -> 1..n] /\ \A i \in 1..n : c[i] = a[b[i]]
  BY <1>3
<1> HIDE DEF c
<1>5. \A i, j \in 1..n : c[i] = c[j] => i = j
  <2> SUFFICES ASSUME NEW i \in 1..n, NEW j \in 1..n, c[i] = c[j] PROVE i = j
    OBVIOUS
  <2>1. a[b[i]] = a[b[j]] /\ b[i] \in 1..n /\ b[j] \in 1..n
    BY <1>3, <1>4
  <2>2. b[i] = b[j]
    BY <1>1, <2>1 DEF IsPermutation
  <2> QED BY <1>2, <2>2 DEF IsPermutation
<1>6. \A j \in 1..n : \E i \in 1..n : c[i] = j
  <2> SUFFICES ASSUME NEW j \in 1..n PROVE \E i \in 1..n : c[i] = j
    OBVIOUS
  <2>1. PICK k \in 1..n : a[k] = j
    BY <1>1 DEF IsPermutation
  <2>2. PICK i \in 1..n : b[i] = k
    BY <1>2 DEF IsPermutation
  <2> QED BY <1>4, <2>1, <2>2
<1>7. IsPermutation(n, c)
  BY <1>4, <1>5, <1>6 DEF IsPermutation
<1>8. \A i \in 1..n : q[i] = s[c[i]]
  <2> SUFFICES ASSUME NEW i \in 1..n PROVE q[i] = s[c[i]]
    OBVIOUS
  <2>1. b[i] \in 1..n /\ q[i] = r[b[i]] /\ c[i] = a[b[i]]
    BY <1>2, <1>3, <1>4, Zenon
  <2>2. r[b[i]] = s[a[b[i]]]
    BY <1>1, <2>1, Zenon
  <2> QED BY <2>1, <2>2, Zenon
<1> QED BY <1>7, <1>8 DEF Permuted

\* What one comparison does to a list.
LEMMA ExchangedIs ==
  ASSUME NEW n \in Nat, NEW s \in Lists(n), NEW i \in 1..(n - 1)
  PROVE  /\ Exchanged(s, i) \in Lists(n) /\ Permuted(n, s, Exchanged(s, i))
         /\ Exchanged(s, i)[i] = s[i + 1] /\ Exchanged(s, i)[i + 1] = s[i]
         /\ \A j \in (1..n) \ {i, i + 1} : Exchanged(s, i)[j] = s[j]
<1> DEFINE r == Exchanged(s, i)
           p == [j \in 1..n |-> IF j = i THEN i + 1 ELSE IF j = i + 1 THEN i ELSE j]
<1>1. s \in Seq(Element) /\ Len(s) = n /\ DOMAIN s = 1..n /\ i \in 1..n /\ i + 1 \in 1..n
  BY DEF Lists
<1>2. s[i] \in Element /\ s[i + 1] \in Element /\ i # i + 1
  BY <1>1
<1>3. r \in Seq(Element) /\ Len(r) = n
  BY <1>1, <1>2 DEF Exchanged
<1>4. r[i] = s[i + 1] /\ r[i + 1] = s[i] /\ \A j \in (1..n) \ {i, i + 1} : r[j] = s[j]
  BY <1>1, <1>2 DEF Exchanged
<1>5. p \in [1..n -> 1..n]
  BY <1>1
<1>6. p[i] = i + 1 /\ p[i + 1] = i /\ \A j \in (1..n) \ {i, i + 1} : p[j] = j
  BY <1>1
<1> HIDE DEF p, r
<1>7. IsPermutation(n, p)
  <2>1. \A j, k \in 1..n : p[j] = p[k] => j = k
    BY <1>1, <1>2, <1>6
  <2>2. \A k \in 1..n : \E j \in 1..n : p[j] = k
    BY <1>1, <1>2, <1>6
  <2> QED BY <1>5, <2>1, <2>2 DEF IsPermutation
<1>8. \A j \in 1..n : r[j] = s[p[j]]
  BY <1>1, <1>4, <1>6
<1>9. r \in Lists(n) /\ Permuted(n, s, r)
  BY <1>3, <1>7, <1>8 DEF Lists, Permuted
<1> QED BY <1>4, <1>9 DEF r

LEMMA BubbleIs ==
  ASSUME NEW n \in Nat, NEW s \in State(n), NEW i \in 1..(n - 1)
  PROVE  /\ Bubble(s, i) \in State(n) /\ Permuted(n, s.msai, Bubble(s, i).msai)
         /\ \/ /\ s.msai[i].affinity < s.msai[i + 1].affinity
               /\ Bubble(s, i).msai = Exchanged(s.msai, i) /\ Bubble(s, i).exchanged
            \/ s.msai[i + 1].affinity <= s.msai[i].affinity /\ Bubble(s, i) = s
<1>1. s.msai \in Lists(n) /\ s.exchanged \in BOOLEAN
  BY DEF State
<1>2. s.msai[i].affinity \in Nat /\ s.msai[i + 1].affinity \in Nat
  <2>1. i \in 1..n /\ i + 1 \in 1..n
    OBVIOUS
  <2> QED BY <1>1, <2>1, ListOf
<1>3. CASE s.msai[i].affinity < s.msai[i + 1].affinity
  <2>1. Bubble(s, i) = [msai |-> Exchanged(s.msai, i), exchanged |-> TRUE]
    BY <1>3 DEF Bubble
  <2> QED BY <1>1, <1>3, <2>1, ExchangedIs DEF State
<1>4. CASE ~(s.msai[i].affinity < s.msai[i + 1].affinity)
  <2>1. Bubble(s, i) = s
    BY <1>4 DEF Bubble
  <2> QED BY <1>1, <1>2, <1>4, <2>1, PermutedReflexive
<1> QED BY <1>3, <1>4

\* A list that is sorted at the end stays so when two elements before it change
\* places.
LEMMA ExchangeKeepsTail ==
  ASSUME NEW n \in Nat, NEW s \in Lists(n), NEW i \in 1..(n - 1), NEW k \in Nat,
         i + 1 <= k, TailSorted(n, s, k)
  PROVE  TailSorted(n, Exchanged(s, i), k)
<1> DEFINE r == Exchanged(s, i)
<1> SUFFICES ASSUME NEW x \in 1..n, NEW y \in 1..n, x < y, y > k
             PROVE  r[y].affinity <= r[x].affinity
  BY DEF TailSorted
<1>1. r[i] = s[i + 1] /\ r[i + 1] = s[i] /\ \A j \in (1..n) \ {i, i + 1} : r[j] = s[j]
  BY ExchangedIs
<1> HIDE DEF r
<1>2. r[y] = s[y] /\ i \in 1..n /\ i + 1 \in 1..n /\ i < y /\ i + 1 < y
  BY <1>1
<1>3. PICK z \in 1..n : z < y /\ r[x] = s[z]
  BY <1>1, <1>2
<1> QED BY <1>2, <1>3 DEF TailSorted

\* The start of a pass.
Start(msai) == [msai |-> msai, exchanged |-> FALSE]

LEMMA PassStep ==
  ASSUME NEW n \in Nat, NEW s \in Lists(n), n > 0
  PROVE  /\ Pass(s)[0] = Start(s)
         /\ \A i \in 0..(n - 2) : Pass(s)[i + 1] = Bubble(Pass(s)[i], i + 1)
<1> DEFINE V == State(n)
           D == [p \in Nat \X V |-> IF p[1] + 1 <= n - 1 THEN Bubble(p[2], p[1] + 1) ELSE p[2]]
           P == Pass(s)
<1>1. Len(s) = n
  BY DEF Lists
<1>2. D \in [Nat \X V -> V]
  <2> SUFFICES ASSUME NEW p \in Nat \X V
               PROVE (IF p[1] + 1 <= n - 1 THEN Bubble(p[2], p[1] + 1) ELSE p[2]) \in V
    BY Zenon
  <2>1. p[1] \in Nat /\ p[2] \in V
    OBVIOUS
  <2>2. CASE p[1] + 1 <= n - 1
    <3>1. p[1] + 1 \in 1..(n - 1)
      BY <2>1, <2>2
    <3> QED BY <2>1, <2>2, <3>1, BubbleIs
  <2> QED BY <2>1, <2>2
<1>3. PICK g : Iterates(V, Start(s), D, g)
  <2>1. Start(s) \in V
    BY DEF Start, State
  <2> HIDE DEF D, V
  <2> QED BY <1>2, <2>1, Recursion
<1>4. \A i \in 0..(n - 2) : g[i + 1] = Bubble(g[i], i + 1)
  <2> SUFFICES ASSUME NEW i \in 0..(n - 2) PROVE g[i + 1] = Bubble(g[i], i + 1)
    OBVIOUS
  <2>1. i \in Nat /\ i + 1 <= n - 1
    OBVIOUS
  <2>2. g[i] \in V /\ g[i + 1] = D[<<i, g[i]>>]
    BY <1>3, <2>1 DEF Iterates
  <2>3. <<i, g[i]>> \in Nat \X V
    BY <2>1, <2>2
  <2> HIDE DEF V
  <2> QED BY <2>1, <2>2, <2>3
<1> DEFINE h == [i \in 0..(n - 1) |-> g[i]]
<1>5. h = [i \in 0..(n - 1) |-> IF i = 0 THEN Start(s) ELSE Bubble(h[i - 1], i)]
  <2>1. h[0] = Start(s)
    BY <1>3 DEF Iterates
  <2>2. ASSUME NEW i \in 0..(n - 1), i # 0 PROVE h[i] = Bubble(h[i - 1], i)
    <3>1. i - 1 \in 0..(n - 2) /\ i - 1 \in 0..(n - 1) /\ (i - 1) + 1 = i
      BY <2>2
    <3>2. g[(i - 1) + 1] = Bubble(g[i - 1], (i - 1) + 1)
      BY <1>4, <3>1
    <3> QED BY <3>1, <3>2
  <2>3. \A i \in 0..(n - 1) : h[i] = IF i = 0 THEN Start(s) ELSE Bubble(h[i - 1], i)
    BY <2>1, <2>2
  <2>4. h = [i \in 0..(n - 1) |-> h[i]]
    OBVIOUS
  <2> HIDE DEF h
  <2> QED BY <2>3, <2>4
<1> HIDE DEF h
<1>6. P = [i \in 0..(n - 1) |-> IF i = 0 THEN Start(s) ELSE Bubble(P[i - 1], i)]
  BY <1>1, <1>5, Zenon DEF Pass, Start
<1>7. P[0] = Start(s)
  <2>1. 0 \in 0..(n - 1)
    OBVIOUS
  <2> HIDE DEF P
  <2> QED BY <1>6, <2>1
<1>8. ASSUME NEW i \in 0..(n - 2) PROVE P[i + 1] = Bubble(P[i], i + 1)
  <2>1. i + 1 \in 0..(n - 1) /\ i + 1 # 0 /\ (i + 1) - 1 = i
    OBVIOUS
  <2> HIDE DEF P
  <2> QED BY <1>6, <2>1
<1> QED BY <1>7, <1>8

\* After i comparisons, place i + 1 has the worst of the first elements; without
\* an exchange they are sorted.
PassInv(n, s, i, b) ==
  /\ b \in State(n) /\ Permuted(n, s, b.msai)
  /\ \A j \in 1..i : b.msai[i + 1].affinity <= b.msai[j].affinity
  /\ ~b.exchanged => b.msai = s /\ HeadSorted(s, i + 1)

LEMMA BubbleKeepsPassInv ==
  ASSUME NEW n \in Nat, NEW s \in Lists(n), NEW i \in 0..(n - 2), NEW b, PassInv(n, s, i, b)
  PROVE  PassInv(n, s, i + 1, Bubble(b, i + 1))
<1> DEFINE m == b.msai
           c == Bubble(b, i + 1)
           r == Exchanged(m, i + 1)
<1>1. /\ b \in State(n) /\ m \in Lists(n) /\ Permuted(n, s, m) /\ i + 1 \in 1..(n - 1)
      /\ i \in Nat /\ b.exchanged \in BOOLEAN
  BY DEF PassInv, State
<1>2. \A j \in 1..i : m[i + 1].affinity <= m[j].affinity
  BY DEF PassInv
<1>3. c \in State(n) /\ Permuted(n, s, c.msai)
  BY <1>1, BubbleIs, PermutedTransitive
<1>4. \A j \in 1..n : m[j].affinity \in Nat
  BY <1>1, ListOf
<1>5. CASE m[i + 1].affinity < m[(i + 1) + 1].affinity /\ c.msai = r /\ c.exchanged
  <2>1. /\ r[i + 1] = m[(i + 1) + 1] /\ r[(i + 1) + 1] = m[i + 1]
        /\ \A j \in (1..n) \ {i + 1, (i + 1) + 1} : r[j] = m[j]
    BY <1>1, ExchangedIs
  <2>2. ASSUME NEW j \in 1..(i + 1)
        PROVE  c.msai[(i + 1) + 1].affinity <= c.msai[j].affinity
    <3>1. CASE j = i + 1
      <4>1. i + 1 \in 1..n /\ (i + 1) + 1 \in 1..n
        BY <1>1
      <4> QED BY <1>4, <1>5, <2>1, <3>1, <4>1
    <3>2. CASE j \in 1..i
      <4>1. j \in (1..n) \ {i + 1, (i + 1) + 1}
        BY <1>1, <3>2
      <4>2. r[j] = m[j]
        BY <2>1, <4>1
      <4> QED BY <1>2, <1>5, <2>1, <3>2, <4>2
    <3>3. j = i + 1 \/ j \in 1..i
      BY <1>1
    <3> QED BY <3>1, <3>2, <3>3
  <2> HIDE DEF c, r, m
  <2>3. c.exchanged
    BY <1>5
  <2> QED BY <1>3, <2>2, <2>3 DEF PassInv, c
<1>6. CASE m[(i + 1) + 1].affinity <= m[i + 1].affinity /\ c = b
  <2>1. i + 1 \in 1..n /\ (i + 1) + 1 \in 1..n
    BY <1>1
  <2>2. ASSUME NEW j \in 1..(i + 1) PROVE m[(i + 1) + 1].affinity <= m[j].affinity
    <3>1. j \in 1..n /\ (j = i + 1 \/ j \in 1..i)
      BY <1>1
    <3>2. CASE j = i + 1
      BY <1>6, <3>2
    <3>3. CASE j \in 1..i
      <4>1. m[i + 1].affinity <= m[j].affinity
        BY <1>2, <3>3
      <4> HIDE DEF m
      <4> QED BY <1>4, <1>6, <2>1, <3>1, <4>1
    <3> QED BY <3>1, <3>2, <3>3
  <2>3. ASSUME ~b.exchanged PROVE m = s /\ HeadSorted(s, (i + 1) + 1)
    <3>1. m = s /\ HeadSorted(s, i + 1)
      BY <2>3 DEF PassInv
    <3>2. ASSUME NEW x \in 1..((i + 1) + 1), NEW y \in 1..((i + 1) + 1), x < y
          PROVE  s[y].affinity <= s[x].affinity
      <4>1. CASE y \in 1..(i + 1)
        <5>1. x \in 1..(i + 1)
          BY <3>2, <4>1
        <5> QED BY <3>1, <3>2, <4>1, <5>1 DEF HeadSorted
      <4>2. CASE y = (i + 1) + 1
        <5>1. x \in 1..(i + 1)
          BY <1>1, <3>2, <4>2
        <5> QED BY <2>2, <3>1, <4>2, <5>1
      <4> QED BY <1>1, <4>1, <4>2
    <3> QED BY <3>1, <3>2 DEF HeadSorted
  <2>4. c.msai = m /\ c.exchanged = b.exchanged
    BY <1>6
  <2> HIDE DEF c, m
  <2> QED BY <1>3, <2>2, <2>3, <2>4 DEF PassInv, c
<1>7. \/ m[i + 1].affinity < m[(i + 1) + 1].affinity /\ c.msai = r /\ c.exchanged
      \/ m[(i + 1) + 1].affinity <= m[i + 1].affinity /\ c = b
  BY <1>1, BubbleIs
<1> HIDE DEF c, m, r
<1> QED BY <1>5, <1>6, <1>7 DEF c

\* A pass of i comparisons over a list whose end after place k is sorted.
LEMMA PassSorts ==
  ASSUME NEW n \in Nat, n > 0, NEW s \in Lists(n), NEW i \in 0..(n - 1),
         NEW k \in Nat, i + 1 <= k, TailSorted(n, s, k)
  PROVE  PassInv(n, s, i, Pass(s)[i]) /\ TailSorted(n, Pass(s)[i].msai, k)
<1> DEFINE P == Pass(s)
           Holds(j) == PassInv(n, s, j, P[j]) /\ TailSorted(n, P[j].msai, k)
           Done == {j \in Nat : j <= i => Holds(j)}
<1>1. Holds(0)
  <2>1. P[0].msai = s /\ P[0] \in State(n)
    <3>1. P[0] = Start(s)
      BY PassStep
    <3>2. Start(s).msai = s /\ Start(s) \in State(n)
      BY DEF Start, State
    <3> QED BY <3>1, <3>2
  <2>2. HeadSorted(s, 0 + 1)
    BY DEF HeadSorted
  <2> HIDE DEF P
  <2>3. PassInv(n, s, 0, P[0])
    BY <2>1, <2>2, PermutedReflexive DEF PassInv
  <2> QED BY <2>1, <2>3
<1>2. ASSUME NEW j \in Nat, j \in Done PROVE j + 1 \in Done
  <2> SUFFICES ASSUME j + 1 <= i PROVE Holds(j + 1)
    OBVIOUS
  <2>1. j \in 0..(n - 2) /\ j + 1 \in 1..(n - 1) /\ (j + 1) + 1 <= k /\ Holds(j)
    BY <1>2
  <2>2. P[j + 1] = Bubble(P[j], j + 1)
    BY <2>1, PassStep
  <2>3. P[j] \in State(n) /\ P[j].msai \in Lists(n)
    BY <2>1 DEF PassInv, State
  <2> HIDE DEF P
  <2>4. PassInv(n, s, j + 1, P[j + 1])
    BY <2>1, <2>2, BubbleKeepsPassInv
  <2>5. \/ P[j + 1].msai = Exchanged(P[j].msai, j + 1)
        \/ P[j + 1] = P[j]
    BY <2>1, <2>2, <2>3, BubbleIs
  <2>6. j + 1 \in Nat
    OBVIOUS
  <2>7. TailSorted(n, P[j + 1].msai, k)
    BY <2>1, <2>3, <2>5, <2>6, ExchangeKeepsTail
  <2> QED BY <2>4, <2>7
<1>3. 0 \in Done
  BY <1>1
<1>4. i \in Done
  <2>1. Nat \subseteq Done
    <3> HIDE DEF Done
    <3> QED BY <1>2, <1>3, SetInduction
  <2> QED BY <2>1
<1> QED BY <1>4

Once(msai) == [msai |-> msai, exchanged |-> TRUE]

\* The passes, one after the other.
LEMMA PassesStep ==
  ASSUME NEW n \in Nat, NEW s \in Lists(n)
  PROVE  /\ Passes(s)[0] = Once(s)
         /\ \A k \in 0..(n - 1) : Passes(s)[k] \in State(n) =>
              Passes(s)[k + 1] = IF Passes(s)[k].exchanged
                                 THEN Pass(Passes(s)[k].msai)[n - (k + 1)]
                                 ELSE Passes(s)[k]
<1> DEFINE V == State(n)
           Step(k, b) == IF b.exchanged /\ k <= n THEN Pass(b.msai)[n - k] ELSE b
           D == [p \in Nat \X V |-> Step(p[1] + 1, p[2])]
           P == Passes(s)
<1>1. Len(s) = n
  BY DEF Lists
<1>2. \A k \in Nat \ {0} : \A b \in V : Step(k, b) \in V
  <2> SUFFICES ASSUME NEW k \in Nat \ {0}, NEW b \in V PROVE Step(k, b) \in V
    OBVIOUS
  <2>1. CASE b.exchanged /\ k <= n
    <3>1. b.msai \in Lists(n)
      BY DEF State
    <3>2. n - k \in 0..(n - 1) /\ n > 0 /\ n + 1 \in Nat /\ (n - k) + 1 <= n + 1
      BY <2>1
    <3>3. TailSorted(n, b.msai, n + 1)
      BY DEF TailSorted
    <3>4. Pass(b.msai)[n - k] \in State(n)
      BY <3>1, <3>2, <3>3, PassSorts DEF PassInv
    <3> QED BY <2>1, <3>4
  <2>2. CASE ~(b.exchanged /\ k <= n)
    BY <2>2
  <2> QED BY <2>1, <2>2
<1>3. D \in [Nat \X V -> V]
  <2> SUFFICES ASSUME NEW p \in Nat \X V PROVE Step(p[1] + 1, p[2]) \in V
    BY Zenon
  <2>1. p[1] + 1 \in Nat \ {0} /\ p[2] \in V
    <3> HIDE DEF V
    <3> QED OBVIOUS
  <2> HIDE DEF Step, V
  <2> QED BY <1>2, <2>1
<1>4. PICK g : Iterates(V, Once(s), D, g)
  <2>1. Once(s) \in V
    BY DEF Once, State
  <2> HIDE DEF D, V, Step, P
  <2> QED BY <1>3, <2>1, Recursion
<1>5. \A k \in Nat : g[k + 1] = Step(k + 1, g[k])
  <2> SUFFICES ASSUME NEW k \in Nat PROVE g[k + 1] = Step(k + 1, g[k])
    OBVIOUS
  <2>1. g[k] \in V /\ g[k + 1] = D[<<k, g[k]>>]
    BY <1>4 DEF Iterates
  <2>2. <<k, g[k]>> \in Nat \X V
    BY <2>1
  <2> HIDE DEF V, Step
  <2> QED BY <2>1, <2>2
<1>6. g = [k \in Nat |-> IF k = 0 THEN Once(s) ELSE Step(k, g[k - 1])]
  <2> HIDE DEF Step, V
  <2>1. ASSUME NEW k \in Nat, k # 0 PROVE g[k] = Step(k, g[k - 1])
    <3>1. k - 1 \in Nat /\ (k - 1) + 1 = k
      BY <2>1
    <3>2. g[(k - 1) + 1] = Step((k - 1) + 1, g[k - 1])
      BY <1>5, <3>1
    <3> QED BY <3>1, <3>2
  <2> QED BY <2>1, <1>4 DEF Iterates
<1>7. P = [k \in Nat |-> IF k = 0 THEN Once(s) ELSE Step(k, P[k - 1])]
  BY <1>1, <1>6, Zenon DEF Passes, Once
<1>8. P[0] = Once(s)
  <2> HIDE DEF Step, P
  <2> QED BY <1>7
<1>9. ASSUME NEW k \in 0..(n - 1)
      PROVE  P[k + 1] = IF P[k].exchanged THEN Pass(P[k].msai)[n - (k + 1)] ELSE P[k]
  <2>1. P[k + 1] = Step(k + 1, P[k])
    <3>1. k + 1 \in Nat /\ k + 1 # 0 /\ (k + 1) - 1 = k
      OBVIOUS
    <3> HIDE DEF Step, P
    <3> QED BY <1>7, <3>1
  <2>2. k + 1 <= n
    OBVIOUS
  <2> HIDE DEF P
  <2> QED BY <2>1, <2>2
<1> QED BY <1>8, <1>9

\* The library's sort: the daemon gets the elements that the client filled in, by
\* descending affinity, although the loop stops at the first pass without exchange.
THEOREM SortedIsSorted ==
  ASSUME NEW s \in Seq(Element)
  PROVE  /\ Sorted(s) \in Seq(Element) /\ Len(Sorted(s)) = Len(s)
         /\ Permuted(Len(s), s, Sorted(s)) /\ Descending(Sorted(s))
<1> DEFINE n == Len(s)
           P == Passes(s)
           Holds(k) == /\ P[k] \in State(n) /\ Permuted(n, s, P[k].msai)
                       /\ TailSorted(n, P[k].msai, n - k)
                       /\ ~P[k].exchanged => HeadSorted(P[k].msai, n)
           Done == {k \in Nat : k <= n => Holds(k)}
<1>1. n \in Nat /\ s \in Lists(n)
  BY DEF Lists
<1>2. 0 \in Done
  <2>1. P[0].msai = s /\ P[0].exchanged /\ P[0] \in State(n)
    <3>1. P[0] = Once(s)
      BY <1>1, PassesStep
    <3>2. Once(s).msai = s /\ Once(s).exchanged
      BY DEF Once
    <3>3. Once(s) \in State(n)
      BY <1>1 DEF Once, State
    <3> HIDE DEF P
    <3> QED BY <3>1, <3>2, <3>3
  <2> HIDE DEF P, n
  <2>2. Permuted(n, s, s)
    BY <1>1, PermutedReflexive
  <2>3. TailSorted(n, s, n - 0)
    <3>1. n \in Nat
      BY <1>1
    <3>2. ASSUME NEW i \in 1..n, NEW j \in 1..n, j > n - 0 PROVE FALSE
      BY <3>1, <3>2
    <3> QED BY <3>2 DEF TailSorted
  <2> QED BY <2>1, <2>2, <2>3
<1>3. ASSUME NEW k \in Nat, k \in Done PROVE k + 1 \in Done
  <2> SUFFICES ASSUME k + 1 <= n PROVE Holds(k + 1)
    OBVIOUS
  <2> HIDE DEF n
  <2> DEFINE m == P[k].msai
             i == n - (k + 1)
             b == Pass(m)[i]
  <2>1. /\ k \in 0..(n - 1) /\ n > 0 /\ i \in 0..(n - 1) /\ i + 1 = n - k /\ n - k \in Nat
        /\ i + 1 <= n - k /\ i \in Nat
    BY <1>1
  <2>2. Holds(k) /\ m \in Lists(n)
    BY <1>1, <1>3 DEF State
  <2>3. P[k + 1] = IF P[k].exchanged THEN b ELSE P[k]
    BY <1>1, <2>1, <2>2, PassesStep
  <2>4. CASE P[k].exchanged
    <3>1. PassInv(n, m, i, b) /\ TailSorted(n, b.msai, i + 1)
      BY <1>1, <2>1, <2>2, PassSorts
    <3>2. b \in State(n) /\ Permuted(n, s, b.msai)
      BY <1>1, <2>2, <3>1, PermutedTransitive DEF PassInv
    <3>3. TailSorted(n, b.msai, i)
      <4> HIDE DEF b, i
      <4> SUFFICES ASSUME NEW x \in 1..n, NEW y \in 1..n, x < y, y > i
                   PROVE  b.msai[y].affinity <= b.msai[x].affinity
        BY DEF TailSorted
      <4>1. CASE y > i + 1
        BY <3>1, <4>1 DEF TailSorted
      <4>2. CASE y = i + 1
        <5>1. x \in 1..i
          BY <2>1, <4>2
        <5> QED BY <3>1, <4>2, <5>1 DEF PassInv
      <4> QED BY <1>1, <2>1, <4>1, <4>2
    <3>4. ASSUME ~b.exchanged PROVE HeadSorted(b.msai, n)
      <4>1. b.msai = m /\ HeadSorted(m, i + 1)
        BY <3>1, <3>4 DEF PassInv
      <4> HIDE DEF b, i
      <4> SUFFICES ASSUME NEW x \in 1..n, NEW y \in 1..n, x < y
                   PROVE  b.msai[y].affinity <= b.msai[x].affinity
        BY DEF HeadSorted
      <4>2. CASE y > i + 1
        BY <3>1, <4>2 DEF TailSorted
      <4>3. CASE y <= i + 1
        <5>1. x \in 1..(i + 1) /\ y \in 1..(i + 1)
          BY <2>1, <4>3
        <5> QED BY <4>1, <5>1 DEF HeadSorted
      <4> QED BY <1>1, <2>1, <4>2, <4>3
    <3>5. P[k + 1] = b
      BY <2>3, <2>4
    <3> HIDE DEF P, b
    <3> QED BY <3>2, <3>3, <3>4, <3>5
  <2>5. CASE ~P[k].exchanged
    <3>1. P[k + 1] = P[k]
      BY <2>3, <2>5
    <3>2. HeadSorted(m, n)
      BY <2>2, <2>5
    <3>3. TailSorted(n, m, n - (k + 1))
      BY <3>2 DEF TailSorted, HeadSorted
    <3> HIDE DEF P
    <3> QED BY <2>2, <3>1, <3>2, <3>3
  <2> QED BY <2>4, <2>5
<1>4. Holds(n)
  <2>1. Nat \subseteq Done
    <3> HIDE DEF Done
    <3> QED BY <1>2, <1>3, SetInduction
  <2>2. n \in Done
    BY <1>1, <2>1
  <2> HIDE DEF Holds
  <2> QED BY <1>1, <2>2
<1>5. Sorted(s) = P[n].msai
  BY DEF Sorted
<1> HIDE DEF P, n
<1>6. P[n].msai \in Lists(n)
  BY <1>4 DEF State
<1>7. HeadSorted(P[n].msai, n)
  <2>1. TailSorted(n, P[n].msai, 0)
    BY <1>1, <1>4
  <2> QED BY <2>1 DEF TailSorted, HeadSorted
<1>8. Sorted(s) \in Seq(Element) /\ Len(Sorted(s)) = n /\ Permuted(n, s, Sorted(s))
  BY <1>4, <1>5, <1>6 DEF Lists
<1>9. Descending(Sorted(s))
  BY <1>5, <1>7, <1>8 DEF Descending
<1> QED BY <1>8, <1>9 DEF n
================================================================================
