--------------------------- MODULE UssRunQueuesProofs ---------------------------
(***************************************************************************)
(* The run-queue matrix of UssRunQueues: its counters, lists and current   *)
(* jobs are right, for every device list, every set of clients and every   *)
(* interleaving of the main thread with the dispatcher.                    *)
(***************************************************************************)
EXTENDS UssRunQueues, UssAffinitiesProofs, FiniteSetTheorems

\* A list that a client sends: every type once, with an affinity.
JobList(msai) == /\ msai \in Seq(Element) /\ Distinct(msai)
                 /\ \A i \in DOMAIN msai : msai[i].affinity > 0

Implements(msai, t) == \E i \in DOMAIN msai : msai[i].type = t

Typed ==
  /\ dexit \in {"", "add_job", "remove_job"}
  /\ arrived \subseteq Handles /\ DOMAIN se \subseteq arrived
  /\ tokill_list \subseteq DOMAIN se
  /\ tree \in [Queues -> SUBSET Handles] /\ length \in [Queues -> Int]
  /\ nof_all \in [Types -> Int]
  /\ curr \in [Queues -> Handles \cup {NoJob}]
  /\ best_to_push \in [Types -> SUBSET AffinityEntry]
  /\ best_to_pull \in [Types -> SUBSET AffinityEntry]
  /\ centerpoint \in [Types -> Int]
  /\ disp \in Queues \cup {NoQueue}

\* A job is in a queue of a type that it implements.
Entities ==
  \A h \in DOMAIN se : /\ se[h] \in Entity /\ JobList(se[h].msai)
                       /\ QueueOf(h) \in Queues /\ Implements(se[h].msai, se[h].mq)

\* The current job of a queue is in its tree; it has the accelerator, but for
\* the moment after its cleanup.
CurrentInv ==
  /\ \A q \in Queues : curr[q] # NoJob => curr[q] \in tree[q]
  /\ \A h \in DOMAIN se : se[h].mode # IDLE => curr[QueueOf(h)] = h /\ se[h].mode = se[h].mq
  /\ disp # NoQueue => curr[disp] # NoJob /\ se[curr[disp]].mode = IDLE

\* What load_balancing has read is still in the lists when it tries a job.
PullInv ==
  main.pc = "pull" /\ (main.rqs # {} \/ main.tries # {}) =>
    /\ main.at \in Queues /\ main.rqs \subseteq Rqs(main.at[1])
    /\ main.tries \subseteq best_to_pull[main.at[1]]

TargetOf(h, p) == /\ p[2] # main.at[1] /\ p[1] \in DOMAIN se[h].msai
                  /\ se[h].msai[p[1]].type = p[2]

PushInv ==
  main.pc = "push" =>
    /\ main.tries # {} => /\ main.at \in Queues /\ main.left > 0
                          /\ main.tries \subseteq best_to_push[main.at[1]]
    /\ main.targets # {} => main.tries # {}
    /\ \A p \in main.targets : TargetOf(Lowest(main.tries)[2], p)

MainInv == main \in MainState /\ PullInv /\ PushInv

IInv == Typed /\ Entities /\ CountersMatchTrees /\ ListsMatchPlaces /\ CurrentInv /\ MainInv

--------------------------------------------------------------------------------
(* Finite sets.                                                              *)

LEMMA MinIs ==
  ASSUME NEW S \in SUBSET Nat, S # {}
  PROVE  Min(S) \in S /\ \A x \in S : Min(S) <= x
BY LeastNatural DEF Min

LEMMA HandleFacts == Handles \subseteq Nat /\ IsFiniteSet(Handles) /\ NoJob \notin Handles
<1>1. Handles \subseteq Nat /\ IsFiniteSet(Handles)
  BY RunQueueAssumption
<1> QED BY <1>1 DEF NoJob

LEMMA EntryFacts ==
  ASSUME NEW e \in AffinityEntry
  PROVE  e[1] \in Nat /\ e[2] \in Handles /\ e[2] \in Nat /\ e = <<e[1], e[2]>>
<1>1. e[1] \in Nat /\ e[2] \in Handles /\ e = <<e[1], e[2]>>
  BY DEF AffinityEntry
<1> QED BY <1>1, HandleFacts

LEMMA LowestIs ==
  ASSUME NEW S \in SUBSET AffinityEntry, S # {}
  PROVE  Lowest(S) \in S
<1> DEFINE A == {e[1] : e \in S}
<1>1. \A e \in S : e[1] \in Nat /\ e[2] \in Nat /\ e = <<e[1], e[2]>>
  BY EntryFacts
<1>2. PICK a \in A : \A x \in A : a <= x
  <2>1. A \in SUBSET Nat /\ A # {}
    BY <1>1
  <2> QED BY <2>1, LeastNatural
<1> DEFINE B == {e[2] : e \in {d \in S : d[1] = a}}
<1>3. PICK b \in B : \A x \in B : b <= x
  <2>1. B \in SUBSET Nat /\ B # {}
    BY <1>1, <1>2
  <2> QED BY <2>1, LeastNatural
<1>4. PICK e \in S : e[1] = a /\ e[2] = b
  BY <1>3
<1>5. ASSUME NEW d \in S \ {e} PROVE Before(e, d)
  <2>1. /\ a <= d[1] /\ (d[1] = a => b <= d[2])
        /\ d[1] \in Nat /\ d[2] \in Nat /\ a \in Nat /\ b \in Nat
    BY <1>1, <1>2, <1>3, <1>4
  <2>2. d[1] # a \/ d[2] # b
    BY <1>1, <1>4
  <2> QED BY <1>4, <2>1, <2>2 DEF Before
<1>6. \E x \in S : \A d \in S \ {x} : Before(x, d)
  BY <1>5
<1> HIDE DEF A, B
<1> QED BY <1>6 DEF Lowest

LEMMA HighestIs ==
  ASSUME NEW S \in SUBSET AffinityEntry, IsFiniteSet(S), S # {}
  PROVE  Highest(S) \in S
<1> DEFINE Top(T, e) == \A d \in T \ {e} : Before(d, e)
           Done == {n \in Nat : \A T \in SUBSET S :
                                  Cardinality(T) = n /\ T # {} => \E e \in T : Top(T, e)}
<1>1. \A e \in S : e[1] \in Nat /\ e[2] \in Nat /\ e = <<e[1], e[2]>>
  BY EntryFacts
<1>2. \A T \in SUBSET S : IsFiniteSet(T) /\ Cardinality(T) \in Nat
  BY FS_Subset, FS_CardinalityType
<1>3. 0 \in Done
  BY <1>2, FS_EmptySet
<1>4. ASSUME NEW n \in Nat, n \in Done PROVE n + 1 \in Done
  <2> SUFFICES ASSUME NEW T \in SUBSET S, Cardinality(T) = n + 1, T # {}
               PROVE  \E e \in T : Top(T, e)
    OBVIOUS
  <2>1. PICK x \in T : TRUE
    OBVIOUS
  <2> DEFINE U == T \ {x}
  <2>2. U \in SUBSET S /\ Cardinality(U) = n
    <3>1. Cardinality(U) = (n + 1) - 1
      BY <1>2, <2>1, FS_RemoveElement
    <3> QED BY <3>1
  <2>3. CASE U = {}
    BY <2>1, <2>3
  <2>4. CASE U # {}
    <3>1. PICK y \in U : Top(U, y)
      BY <1>4, <2>2, <2>4
    <3>2. x \in S /\ y \in S /\ x # y
      BY <2>1, <3>1
    <3>3. CASE Before(y, x)
      <4>1. ASSUME NEW d \in T \ {x} PROVE Before(d, x)
        <5>1. d = y \/ Before(d, y)
          BY <3>1
        <5> QED BY <1>1, <3>2, <3>3, <5>1 DEF Before
      <4> QED BY <2>1, <4>1
    <3>4. CASE ~Before(y, x)
      <4>1. Before(x, y)
        BY <1>1, <3>2, <3>4 DEF Before
      <4>2. ASSUME NEW d \in T \ {y} PROVE Before(d, y)
        BY <3>1, <4>1
      <4> QED BY <3>1, <4>2
    <3> QED BY <3>3, <3>4
  <2> QED BY <2>3, <2>4
<1>5. \E e \in S : Top(S, e)
  <2>1. Nat \subseteq Done
    <3> HIDE DEF Done
    <3> QED BY <1>3, <1>4, SetInduction
  <2>2. Cardinality(S) \in Done
    BY <1>2, <2>1
  <2> QED BY <2>2
<1> QED BY <1>5 DEF Highest

\* Disjoint sets of at least m elements each.
LEMMA DisjointSets ==
  ASSUME NEW H, IsFiniteSet(H), NEW I, IsFiniteSet(I), NEW B \in [I -> SUBSET H],
         \A i, j \in I : i # j => B[i] \cap B[j] = {},
         NEW m \in Nat, \A i \in I : Cardinality(B[i]) >= m
  PROVE  Cardinality(I) * m <= Cardinality(H)
<1> DEFINE U(J) == UNION {B[i] : i \in J}
           Done == {n \in Nat : \A J \in SUBSET I :
                                  Cardinality(J) = n => n * m <= Cardinality(U(J))}
<1>1. \A J \in SUBSET I : IsFiniteSet(J) /\ Cardinality(J) \in Nat
  BY FS_Subset, FS_CardinalityType
<1>2. \A T \in SUBSET H : IsFiniteSet(T) /\ Cardinality(T) \in Nat
  BY FS_Subset, FS_CardinalityType
<1>3. \A J \in SUBSET I : U(J) \in SUBSET H
  OBVIOUS
<1>4. 0 \in Done
  <2> SUFFICES ASSUME NEW J \in SUBSET I PROVE 0 * m <= Cardinality(U(J))
    OBVIOUS
  <2>1. Cardinality(U(J)) \in Nat
    BY <1>2, <1>3
  <2> QED BY <2>1
<1>5. ASSUME NEW n \in Nat, n \in Done PROVE n + 1 \in Done
  <2> SUFFICES ASSUME NEW J \in SUBSET I, Cardinality(J) = n + 1
               PROVE  (n + 1) * m <= Cardinality(U(J))
    OBVIOUS
  <2>1. PICK x \in J : TRUE
    <3>1. J # {}
      BY FS_EmptySet
    <3> QED BY <3>1
  <2> DEFINE K == J \ {x}
  <2>2. K \in SUBSET I /\ Cardinality(K) = n
    BY <1>1, FS_RemoveElement
  <2>3. n * m <= Cardinality(U(K))
    BY <1>5, <2>2
  <2>4. U(J) = U(K) \cup B[x] /\ U(K) \cap B[x] = {}
    OBVIOUS
  <2>5. B[x] \in SUBSET H /\ U(K) \in SUBSET H
    BY <1>3
  <2> HIDE DEF U, K
  <2>6. Cardinality(U(J)) = Cardinality(U(K)) + Cardinality(B[x]) - Cardinality({})
    BY <1>2, <2>4, <2>5, FS_Union
  <2>7. /\ Cardinality({}) = 0 /\ Cardinality(U(K)) \in Nat /\ Cardinality(B[x]) \in Nat
        /\ Cardinality(B[x]) >= m /\ n * m \in Nat /\ (n + 1) * m = n * m + m
    BY <1>2, <2>5, FS_EmptySet
  <2> QED BY <2>3, <2>6, <2>7
<1>6. Cardinality(I) * m <= Cardinality(U(I))
  <2>1. Nat \subseteq Done
    <3> HIDE DEF Done
    <3> QED BY <1>4, <1>5, SetInduction
  <2>2. Cardinality(I) \in Done
    BY <1>1, <2>1
  <2> QED BY <2>2
<1>7. Cardinality(U(I)) <= Cardinality(H)
  BY <1>3, FS_Subset
<1>8. Cardinality(I) * m \in Nat /\ Cardinality(U(I)) \in Nat /\ Cardinality(H) \in Nat
  BY <1>1, <1>2, <1>3
<1> HIDE DEF U
<1> QED BY <1>6, <1>7, <1>8

--------------------------------------------------------------------------------
(* Devices, and the lists of jobs.                                           *)

LEMMA QueueFacts ==
  /\ \A q \in Queues : /\ q = <<q[1], q[2]>> /\ q[1] \in Types /\ q[2] \in Rqs(q[1])
                       /\ q[1] \in Nat /\ q[2] \in 0..9
  /\ Types \subseteq Nat
  /\ \A t \in Types : /\ Rqs(t) # {} /\ Rqs(t) \subseteq 0..9 /\ IsFiniteSet(Rqs(t))
                      /\ NofRq(t) \in Nat \ {0}
                      /\ \A i \in Rqs(t) : <<t, i>> \in Queues
<1>1. \A q \in Queues : q \in Nat \X (0..9)
  BY RunQueueAssumption DEF Queues, Range
<1>2. \A q \in Queues : /\ q = <<q[1], q[2]>> /\ q[1] \in Types /\ q[2] \in Rqs(q[1])
                        /\ q[1] \in Nat /\ q[2] \in 0..9
  BY <1>1 DEF Types, Rqs
<1>3. Types \subseteq Nat
  BY <1>2 DEF Types
<1>4. ASSUME NEW t \in Types
      PROVE  /\ Rqs(t) # {} /\ Rqs(t) \subseteq 0..9 /\ IsFiniteSet(Rqs(t))
             /\ NofRq(t) \in Nat \ {0}
             /\ \A i \in Rqs(t) : <<t, i>> \in Queues
  <2>1. Rqs(t) # {} /\ \A i \in Rqs(t) : <<t, i>> \in Queues
    BY <1>2 DEF Types, Rqs
  <2>2. Rqs(t) \subseteq 0..9
    BY <1>2 DEF Rqs
  <2>3. IsFiniteSet(Rqs(t))
    <3>1. 0 \in Int /\ 9 \in Int
      OBVIOUS
    <3>2. IsFiniteSet(0..9)
      BY <3>1, FS_Interval, Zenon
    <3> QED BY <2>2, <3>2, FS_Subset
  <2>4. NofRq(t) \in Nat \ {0}
    BY <2>1, <2>3, FS_EmptySet, FS_CardinalityType DEF NofRq
  <2> QED BY <2>1, <2>2, <2>3, <2>4
<1> QED BY <1>2, <1>3, <1>4

LEMMA AffinityIs ==
  ASSUME NEW msai, JobList(msai), NEW i \in DOMAIN msai
  PROVE  AffinityOf(msai, msai[i].type) = msai[i].affinity
<1> DEFINE j == CHOOSE k \in DOMAIN msai : msai[k].type = msai[i].type
<1>1. j \in DOMAIN msai /\ msai[j].type = msai[i].type
  OBVIOUS
<1>2. j = i
  BY <1>1 DEF JobList, Distinct
<1> QED BY <1>2 DEF AffinityOf

LEMMA AffinityType ==
  ASSUME NEW msai, JobList(msai), NEW t, Implements(msai, t)
  PROVE  AffinityOf(msai, t) \in Nat /\ t \in Nat
<1>1. PICK i \in DOMAIN msai : msai[i].type = t
  BY DEF Implements
<1>2. msai \in Seq(Element)
  BY DEF JobList
<1> QED BY <1>1, <1>2, AffinityIs, ElementOf

\* The list of a new job.
LEMMA NewList ==
  ASSUME NEW f \in Implemented
  PROVE  JobList(Sorted(Filled(f))) /\ Descending(Sorted(Filled(f)))
<1> DEFINE s == Filled(f)
           r == Sorted(s)
           n == Len(s)
<1>1. Implementable(f)
  BY RunQueueAssumption DEF Implementable
<1>2. /\ s \in Seq(Element) /\ Distinct(s)
      /\ \A i \in DOMAIN s : s[i].type \in DOMAIN f /\ s[i].affinity = f[s[i].type]
  BY <1>1, FilledHasTypesOnce
<1>3. r \in Seq(Element) /\ Len(r) = n /\ Permuted(n, s, r) /\ Descending(r)
  BY <1>2, SortedIsSorted
<1>4. PICK p : IsPermutation(n, p) /\ \A i \in 1..n : r[i] = s[p[i]]
  BY <1>3 DEF Permuted
<1> HIDE DEF s, r
<1>5. DOMAIN r = 1..n /\ DOMAIN s = 1..n /\ \A i \in 1..n : p[i] \in 1..n
  <2>1. DOMAIN s = 1..n
    BY <1>2
  <2>2. DOMAIN r = 1..n
    BY <1>3
  <2>3. p \in [1..n -> 1..n]
    BY <1>4 DEF IsPermutation
  <2>4. \A i \in 1..n : p[i] \in 1..n
    BY <2>3
  <2> QED BY <2>1, <2>2, <2>4
<1>6. Distinct(r)
  <2> SUFFICES ASSUME NEW i \in 1..n, NEW j \in 1..n, r[i].type = r[j].type PROVE i = j
    BY <1>5 DEF Distinct
  <2>1. p[i] = p[j]
    BY <1>2, <1>4, <1>5 DEF Distinct
  <2> QED BY <1>4, <2>1 DEF IsPermutation
<1>7. ASSUME NEW i \in DOMAIN r PROVE r[i].affinity > 0
  <2>1. p[i] \in DOMAIN s /\ r[i] = s[p[i]]
    BY <1>4, <1>5
  <2>2. r[i].affinity = f[s[p[i]].type] /\ s[p[i]].type \in DOMAIN f
    BY <1>2, <2>1
  <2> QED BY <1>1, <2>2 DEF Implementable
<1>8. JobList(r)
  BY <1>3, <1>6, <1>7 DEF JobList
<1> QED BY <1>3, <1>8 DEF r, s

LEMMA SumToStep ==
  ASSUME NEW msai, JobList(msai)
  PROVE  /\ SumTo(msai)[0] = 0
         /\ \A n \in Nat : /\ SumTo(msai)[n] \in Nat
                           /\ SumTo(msai)[n + 1] = SumTo(msai)[n] +
                                IF n + 1 \in Active(msai) THEN msai[n + 1].affinity ELSE 0
<1> DEFINE Term(n) == IF n \in Active(msai) THEN msai[n].affinity ELSE 0
           D == [p \in Nat \X Nat |-> p[2] + Term(p[1] + 1)]
           F == SumTo(msai)
<1>1. \A n \in Nat : Term(n) \in Nat
  <2> SUFFICES ASSUME NEW n \in Nat, n \in Active(msai) PROVE msai[n].affinity \in Nat
    OBVIOUS
  <2>1. n \in DOMAIN msai /\ msai \in Seq(Element)
    BY DEF Active, JobList
  <2> QED BY <2>1, ElementOf
<1> HIDE DEF Term
<1>2. D \in [Nat \X Nat -> Nat]
  <2> SUFFICES ASSUME NEW p \in Nat \X Nat PROVE p[2] + Term(p[1] + 1) \in Nat
    BY Zenon
  <2>1. p[1] + 1 \in Nat /\ p[2] \in Nat
    OBVIOUS
  <2> QED BY <1>1, <2>1
<1>3. PICK g : Iterates(Nat, 0, D, g)
  <2>1. 0 \in Nat
    OBVIOUS
  <2> HIDE DEF D, F
  <2> QED BY <1>2, <2>1, Recursion
<1>4. \A n \in Nat : g[n] \in Nat /\ g[n + 1] = g[n] + Term(n + 1)
  <2> SUFFICES ASSUME NEW n \in Nat PROVE g[n] \in Nat /\ g[n + 1] = g[n] + Term(n + 1)
    OBVIOUS
  <2>1. g[n] \in Nat /\ g[n + 1] = D[<<n, g[n]>>]
    BY <1>3 DEF Iterates
  <2>2. <<n, g[n]>> \in Nat \X Nat
    BY <2>1
  <2> QED BY <2>1, <2>2
<1>5. g = [n \in Nat |-> IF n = 0 THEN 0 ELSE g[n - 1] + Term(n)]
  <2>1. ASSUME NEW n \in Nat, n # 0 PROVE g[n] = g[n - 1] + Term(n)
    <3>1. n - 1 \in Nat /\ (n - 1) + 1 = n
      BY <2>1
    <3>2. g[(n - 1) + 1] = g[n - 1] + Term((n - 1) + 1)
      BY <1>4, <3>1
    <3> QED BY <3>1, <3>2
  <2> QED BY <2>1, <1>3 DEF Iterates
<1>6. F = [n \in Nat |-> IF n = 0 THEN 0 ELSE F[n - 1] + Term(n)]
  BY <1>5, Zenon DEF SumTo, Term
<1>7. F[0] = 0 /\ \A n \in Nat : F[n + 1] = F[n] + Term(n + 1)
  <2> HIDE DEF F
  <2>1. ASSUME NEW n \in Nat PROVE F[n + 1] = F[n] + Term(n + 1)
    <3>1. n + 1 \in Nat /\ n + 1 # 0 /\ (n + 1) - 1 = n
      OBVIOUS
    <3> QED BY <1>6, <3>1
  <2> QED BY <1>6, <2>1
<1>8. \A n \in Nat : F[n] \in Nat
  <2> DEFINE Done == {n \in Nat : F[n] \in Nat}
  <2>1. 0 \in Done
    BY <1>7
  <2>2. ASSUME NEW n \in Nat, n \in Done PROVE n + 1 \in Done
    <3>1. n + 1 \in Nat /\ Term(n + 1) \in Nat /\ F[n] \in Nat /\ F[n + 1] = F[n] + Term(n + 1)
      BY <1>1, <1>7, <2>2
    <3> HIDE DEF F
    <3> QED BY <3>1
  <2>3. Nat \subseteq Done
    <3> HIDE DEF Done
    <3> QED BY <2>1, <2>2, SetInduction
  <2> QED BY <2>3
<1> QED BY <1>7, <1>8 DEF Term

\* The sum is not zero where it is divided by.
LEMMA SumPositive ==
  ASSUME NEW msai, JobList(msai), Active(msai) # {}
  PROVE  Sum(msai) \in Nat \ {0}
<1>1. PICK i \in Active(msai) : TRUE
  OBVIOUS
<1> DEFINE F == SumTo(msai)
           Done == {n \in Nat : n >= i => F[n] > 0}
<1>2. i \in DOMAIN msai /\ msai \in Seq(Element) /\ i \in Nat /\ i > 0 /\ i <= Len(msai)
  BY DEF Active, JobList
<1>3. msai[i].affinity > 0 /\ msai[i].affinity \in Nat
  BY <1>2, ElementOf DEF JobList
<1>4. \A n \in Nat : F[n] \in Nat
  BY SumToStep
<1>5. 0 \in Done
  BY <1>2
<1>6. ASSUME NEW n \in Nat, n \in Done PROVE n + 1 \in Done
  <2>1. F[n + 1] = F[n] + IF n + 1 \in Active(msai) THEN msai[n + 1].affinity ELSE 0
    BY SumToStep
  <2>2. n + 1 \in Active(msai) => msai[n + 1].affinity \in Nat
    <3> SUFFICES ASSUME n + 1 \in Active(msai) PROVE msai[n + 1].affinity \in Nat
      OBVIOUS
    <3>1. n + 1 \in DOMAIN msai
      BY DEF Active
    <3> QED BY <1>2, <3>1, ElementOf
  <2> HIDE DEF F
  <2>3. CASE n + 1 = i
    <3>1. F[n + 1] = F[n] + msai[i].affinity
      BY <1>1, <2>1, <2>3
    <3>2. F[n] \in Nat /\ F[n + 1] > 0
      BY <1>3, <1>4, <3>1
    <3> QED BY <3>2
  <2>4. CASE n + 1 > i
    <3>1. F[n] > 0
      BY <1>2, <1>6, <2>4
    <3>2. F[n + 1] > 0
      BY <1>4, <2>1, <2>2, <3>1
    <3> QED BY <3>2
  <2>5. CASE n + 1 < i
    BY <1>2, <2>5
  <2> QED BY <1>2, <2>3, <2>4, <2>5
<1>7. F[Len(msai)] > 0 /\ F[Len(msai)] \in Nat
  <2>1. Nat \subseteq Done
    <3> HIDE DEF Done
    <3> QED BY <1>5, <1>6, SetInduction
  <2> HIDE DEF F
  <2> QED BY <1>2, <1>4, <2>1
<1> QED BY <1>7 DEF Sum

LEMMA ShareType ==
  ASSUME NEW msai, JobList(msai), NEW t
  PROVE  Share(msai, t) \in Int
<1>1. CASE \E i \in Active(msai) : msai[i].type = t
  <2>1. Active(msai) # {} /\ Implements(msai, t)
    BY <1>1 DEF Active, Implements
  <2>2. Scale * AffinityOf(msai, t) \in Nat /\ Sum(msai) \in Nat \ {0}
    <3>1. Scale \in Nat
      BY RunQueueAssumption
    <3> QED BY <2>1, <3>1, AffinityType, SumPositive
  <2>3. (Scale * AffinityOf(msai, t)) \div Sum(msai) \in Int
    BY <2>2
  <2> QED BY <1>1, <2>3 DEF Share
<1>2. CASE ~\E i \in Active(msai) : msai[i].type = t
  BY <1>2 DEF Share
<1> QED BY <1>1, <1>2

\* The mq of a new job.
LEMMA FirstTypeIs ==
  ASSUME NEW msai, JobList(msai), Active(msai) # {}
  PROVE  FirstType(msai) \in Types /\ Implements(msai, FirstType(msai))
<1>1. Active(msai) \in SUBSET Nat
  BY DEF Active, JobList
<1>2. Min(Active(msai)) \in Active(msai)
  BY <1>1, MinIs
<1> QED BY <1>2 DEF FirstType, Active, Implements

LEMMA Division ==
  ASSUME NEW a \in Nat, NEW b \in Nat \ {0}
  PROVE  a \div b \in Nat /\ a < b * ((a \div b) + 1)
OBVIOUS

\* One of the queues of a mq has no more than its share of the jobs.
LEMMA RoomExists ==
  ASSUME Typed, CountersMatchTrees, NEW t \in Types
  PROVE  WithRoom(t) # {} /\ BestRq(t) \in WithRoom(t) /\ BestRq(t) \in Rqs(t)
<1> DEFINE H == {h \in DOMAIN se : se[h].mq = t}
           B == [i \in Rqs(t) |-> tree[<<t, i>>]]
           d == nof_all[t] \div NofRq(t)
<1>1. IsFiniteSet(H) /\ nof_all[t] = Cardinality(H) /\ Cardinality(H) \in Nat
  <2>1. H \subseteq Handles
    BY DEF Typed
  <2>2. IsFiniteSet(H)
    BY <2>1, HandleFacts, FS_Subset
  <2> QED BY <2>2, FS_CardinalityType DEF CountersMatchTrees
<1>2. /\ IsFiniteSet(Rqs(t)) /\ NofRq(t) \in Nat \ {0} /\ Rqs(t) \subseteq 0..9
      /\ \A i \in Rqs(t) : <<t, i>> \in Queues
  BY QueueFacts
<1>3. \A i \in Rqs(t) : tree[<<t, i>>] = {h \in DOMAIN se : QueueOf(h) = <<t, i>>}
  BY <1>2 DEF CountersMatchTrees
<1>4. B \in [Rqs(t) -> SUBSET H] /\ \A i \in Rqs(t) : B[i] = tree[<<t, i>>]
  BY <1>3 DEF QueueOf
<1>5. \A i, j \in Rqs(t) : i # j => B[i] \cap B[j] = {}
  BY <1>3, <1>4 DEF QueueOf
<1>6. d \in Nat /\ nof_all[t] < NofRq(t) * (d + 1)
  <2>1. nof_all[t] \in Nat
    BY <1>1
  <2> QED BY <1>2, <2>1, Division
<1>7. \E i \in Rqs(t) : Cardinality(tree[<<t, i>>]) <= d
  <2> HIDE DEF H, B, d
  <2> SUFFICES ASSUME \A i \in Rqs(t) : ~(Cardinality(tree[<<t, i>>]) <= d) PROVE FALSE
    OBVIOUS
  <2>1. \A i \in Rqs(t) : Cardinality(B[i]) >= d + 1
    <3> SUFFICES ASSUME NEW i \in Rqs(t) PROVE Cardinality(B[i]) >= d + 1
      OBVIOUS
    <3>1. Cardinality(B[i]) \in Nat
      BY <1>1, <1>4, FS_Subset, FS_CardinalityType
    <3>2. ~(Cardinality(B[i]) <= d) /\ d \in Nat
      BY <1>4, <1>6
    <3> QED BY <3>1, <3>2
  <2>2. d + 1 \in Nat
    BY <1>6
  <2>3. Cardinality(Rqs(t)) * (d + 1) <= Cardinality(H)
    BY <1>1, <1>2, <1>4, <1>5, <2>1, <2>2, DisjointSets
  <2>4. NofRq(t) = Cardinality(Rqs(t)) /\ NofRq(t) * (d + 1) \in Nat
    BY <1>2, <1>6 DEF NofRq
  <2> QED BY <1>1, <1>6, <2>3, <2>4
<1>8. WithRoom(t) # {} /\ WithRoom(t) \in SUBSET Nat
  BY <1>2, <1>7 DEF WithRoom
<1>9. BestRq(t) \in WithRoom(t)
  BY <1>8, MinIs DEF BestRq
<1> QED BY <1>8, <1>9 DEF WithRoom

--------------------------------------------------------------------------------
(* Everything but the main thread's own state.                               *)

DataInv == Typed /\ Entities /\ CountersMatchTrees /\ ListsMatchPlaces /\ CurrentInv

dataVars == <<se, queueVars, curr, listVars, centerpoint, tokill_list, arrived, disp>>

\* The two lists of type t, job by job.
PushJobs(t) == {h \in DOMAIN se : Implements(se[h].msai, t) /\ se[h].mq = t}
PullJobs(t) == {h \in DOMAIN se : Implements(se[h].msai, t) /\ se[h].mq # t}
EntriesOf(S, t) == {<<AffinityOf(se[h].msai, t), h>> : h \in S}

ListsOf(t) == /\ best_to_push[t] = EntriesOf(PushJobs(t), t)
              /\ best_to_pull[t] = EntriesOf(PullJobs(t), t)

AllLists == \A t \in Types : ListsOf(t)

LEMMA ListsAre == ListsMatchPlaces <=> AllLists
<1>1. ASSUME NEW t \in Types
      PROVE  LET able == {h \in DOMAIN se : \E i \in DOMAIN se[h].msai : se[h].msai[i].type = t}
             IN  /\ {h \in able : se[h].mq = t} = PushJobs(t)
                 /\ {h \in able : se[h].mq # t} = PullJobs(t)
  BY DEF PushJobs, PullJobs, Implements
<1> QED BY <1>1, Zenon DEF ListsMatchPlaces, AllLists, ListsOf, EntriesOf

LEMMA ListsAreNext == ListsMatchPlaces' <=> AllLists'
BY ListsAre, PTL

\* A step that keeps all jobs where they are.
SamePlaces == /\ DOMAIN se' = DOMAIN se
              /\ \A h \in DOMAIN se : /\ se'[h].msai = se[h].msai
                                      /\ se'[h].mq = se[h].mq /\ se'[h].rq = se[h].rq

LEMMA SamePlacesKeepMatches ==
  ASSUME CountersMatchTrees, ListsMatchPlaces, SamePlaces, UNCHANGED <<queueVars, listVars>>
  PROVE  CountersMatchTrees' /\ ListsMatchPlaces'
<1>1. tree' = tree /\ length' = length /\ nof_all' = nof_all
  BY DEF queueVars
<1>2. best_to_push' = best_to_push /\ best_to_pull' = best_to_pull
  BY DEF listVars
<1>3. CountersMatchTrees'
  <2>1. ASSUME NEW q \in Queues
        PROVE  {h \in DOMAIN se : QueueOf(h) = q} = {h \in DOMAIN se' : QueueOf(h)' = q}
    BY DEF SamePlaces, QueueOf
  <2>2. ASSUME NEW t \in Types
        PROVE  {h \in DOMAIN se : se[h].mq = t} = {h \in DOMAIN se' : se'[h].mq = t}
    BY DEF SamePlaces
  <2> QED BY <1>1, <2>1, <2>2 DEF CountersMatchTrees
<1>4. ASSUME NEW t \in Types PROVE ListsOf(t)'
  <2>1. PushJobs(t)' = PushJobs(t) /\ PullJobs(t)' = PullJobs(t)
    BY DEF SamePlaces, PushJobs, PullJobs
  <2>2. ASSUME NEW S, S \subseteq DOMAIN se
        PROVE  EntriesOf(S, t) = {<<AffinityOf(se'[h].msai, t), h>> : h \in S}
    BY <2>2 DEF SamePlaces, EntriesOf
  <2>3. PushJobs(t) \subseteq DOMAIN se /\ PullJobs(t) \subseteq DOMAIN se
    BY DEF PushJobs, PullJobs
  <2>4. /\ EntriesOf(PushJobs(t), t)' = EntriesOf(PushJobs(t), t)
        /\ EntriesOf(PullJobs(t), t)' = EntriesOf(PullJobs(t), t)
    <3>1. /\ EntriesOf(PushJobs(t), t)' = {<<AffinityOf(se'[h].msai, t), h>> : h \in PushJobs(t)'}
          /\ EntriesOf(PullJobs(t), t)' = {<<AffinityOf(se'[h].msai, t), h>> : h \in PullJobs(t)'}
      BY DEF EntriesOf
    <3> QED BY <2>1, <2>2, <2>3, <3>1
  <2>5. ListsOf(t)
    BY ListsAre DEF AllLists
  <2> QED BY <1>2, <2>4, <2>5 DEF ListsOf
<1> QED BY <1>3, <1>4, ListsAreNext DEF AllLists

LEMMA DataUnchanged ==
  ASSUME DataInv, UNCHANGED dataVars, dexit' \in {"", "add_job", "remove_job"}
  PROVE  DataInv'
<1> USE DEF dataVars, queueVars, listVars
<1>1. Typed'
  BY DEF DataInv, Typed
<1>2. Entities'
  BY DEF DataInv, Entities, QueueOf
<1>3. CountersMatchTrees' /\ ListsMatchPlaces'
  BY SamePlacesKeepMatches DEF DataInv, SamePlaces
<1>4. CurrentInv'
  BY DEF DataInv, CurrentInv, QueueOf
<1> QED BY <1>1, <1>2, <1>3, <1>4 DEF DataInv

LEMMA InitData == Init => DataInv /\ MainInv
<1> SUFFICES ASSUME Init PROVE DataInv /\ MainInv
  OBVIOUS
<1>1. DOMAIN se = {}
  <2>1. se = <<>>
    BY DEF Init
  <2>2. DOMAIN <<>> = {}
    OBVIOUS
  <2> QED BY <2>1, <2>2
<1>2. Typed
  <2>1. Garbage \subseteq Int
    BY RunQueueAssumption
  <2>2. centerpoint \in [Types -> Int]
    BY <2>1 DEF Init
  <2>3. /\ dexit = "" /\ tree = [q \in Queues |-> {}] /\ length = [q \in Queues |-> 0]
        /\ nof_all = [t \in Types |-> 0] /\ curr = [q \in Queues |-> NoJob]
        /\ best_to_push = [t \in Types |-> {}] /\ best_to_pull = [t \in Types |-> {}]
        /\ tokill_list = {} /\ arrived = {} /\ disp = NoQueue
    BY DEF Init
  <2>4. dexit \in {"", "add_job", "remove_job"} /\ disp \in Queues \cup {NoQueue}
    BY <2>3
  <2>5. /\ arrived \subseteq Handles /\ DOMAIN se \subseteq arrived
        /\ tokill_list \subseteq DOMAIN se
    BY <1>1, <2>3
  <2>6. tree \in [Queues -> SUBSET Handles] /\ curr \in [Queues -> Handles \cup {NoJob}]
    BY <2>3
  <2>7. length \in [Queues -> Int] /\ nof_all \in [Types -> Int]
    <3>1. 0 \in Int
      OBVIOUS
    <3> QED BY <2>3, <3>1, Zenon
  <2>8. /\ best_to_push \in [Types -> SUBSET AffinityEntry]
        /\ best_to_pull \in [Types -> SUBSET AffinityEntry]
    BY <2>3
  <2> QED BY <2>2, <2>4, <2>5, <2>6, <2>7, <2>8 DEF Typed
<1>3. Entities
  BY <1>1 DEF Entities
<1>4. CountersMatchTrees
  <2>1. Cardinality({}) = 0
    BY FS_EmptySet
  <2>2. \A q \in Queues : {h \in DOMAIN se : QueueOf(h) = q} = {}
    BY <1>1
  <2>3. \A t \in Types : {h \in DOMAIN se : se[h].mq = t} = {}
    BY <1>1
  <2> QED BY <2>1, <2>2, <2>3 DEF Init, CountersMatchTrees
<1>5. ListsMatchPlaces
  <2>1. ASSUME NEW t \in Types PROVE ListsOf(t)
    BY <1>1 DEF Init, ListsOf, EntriesOf, PushJobs, PullJobs
  <2> QED BY <2>1, ListsAre DEF AllLists
<1>6. CurrentInv
  BY <1>1 DEF Init, CurrentInv, NoJob
<1>7. MainInv
  BY DEF Init, MainInv, MainState, Quiet, PullInv, PushInv
<1> QED BY <1>2, <1>3, <1>4, <1>5, <1>6, <1>7 DEF DataInv

--------------------------------------------------------------------------------
(* Steps that change the mode of one job: it becomes current, or cleans up.  *)

\* Job h gets mode m and the mark fin.
Marks(h, m, fin) == se' = [se EXCEPT ![h] = [@ EXCEPT !.mode = m, !.is_finished = fin]]

LEMMA MarksIs ==
  ASSUME Entities, NEW h \in DOMAIN se, NEW m \in Types \cup {IDLE}, NEW fin \in BOOLEAN,
         Marks(h, m, fin)
  PROVE  /\ SamePlaces /\ Entities'
         /\ se'[h].mode = m /\ se'[h].is_finished = fin
         /\ \A g \in DOMAIN se \ {h} : se'[g] = se[g]
<1>1. /\ DOMAIN se' = DOMAIN se /\ se'[h] = [se[h] EXCEPT !.mode = m, !.is_finished = fin]
      /\ \A g \in DOMAIN se \ {h} : se'[g] = se[g]
  BY DEF Marks
<1>2. se[h] \in Entity
  BY DEF Entities
<1>3. /\ se'[h].mode = m /\ se'[h].is_finished = fin /\ se'[h] \in Entity
      /\ se'[h].msai = se[h].msai /\ se'[h].mq = se[h].mq /\ se'[h].rq = se[h].rq
  BY <1>1, <1>2 DEF Entity
<1>4. SamePlaces
  BY <1>1, <1>3 DEF SamePlaces
<1>5. \A g \in DOMAIN se : se'[g] \in Entity /\ QueueOf(g)' = QueueOf(g)
  BY <1>1, <1>3 DEF Entities, QueueOf
<1>6. Entities'
  <2> SUFFICES ASSUME NEW g \in DOMAIN se'
               PROVE  /\ se'[g] \in Entity /\ JobList(se'[g].msai)
                      /\ QueueOf(g)' \in Queues /\ Implements(se'[g].msai, se'[g].mq)
    BY Zenon DEF Entities
  <2>1. g \in DOMAIN se
    BY <1>1
  <2>2. se'[g].msai = se[g].msai /\ se'[g].mq = se[g].mq
    BY <1>4, <2>1 DEF SamePlaces
  <2> QED BY <1>5, <2>1, <2>2 DEF Entities
<1> QED BY <1>1, <1>3, <1>4, <1>6

LEMMA InTree ==
  ASSUME DataInv, NEW q \in Queues, NEW h \in tree[q]
  PROVE  h \in DOMAIN se /\ QueueOf(h) = q /\ se[h].mq = q[1] /\ se[h].rq = q[2]
<1>1. h \in DOMAIN se /\ QueueOf(h) = q
  BY DEF DataInv, CountersMatchTrees
<1> QED BY <1>1 DEF QueueOf

LEMMA CurrentIs ==
  ASSUME DataInv, NEW q \in Queues, curr[q] # NoJob
  PROVE  curr[q] \in DOMAIN se /\ QueueOf(curr[q]) = q
BY InTree DEF DataInv, CurrentInv

LEMMA PickKeepsData ==
  ASSUME DataInv, NEW q \in Queues, NEW h \in Pickable(q), PickNext(q, h),
         (curr[q] = NoJob /\ disp' = disp) \/ (disp = q /\ disp' = NoQueue /\ q # NoQueue),
         UNCHANGED <<dexit, queueVars, listVars, centerpoint, tokill_list, arrived>>
  PROVE  DataInv' /\ SamePlaces
<1>1. /\ Typed /\ Entities /\ CountersMatchTrees /\ ListsMatchPlaces /\ CurrentInv
  BY DEF DataInv
<1>2. /\ h \in tree[q] /\ h \in DOMAIN se /\ QueueOf(h) = q /\ se[h].mq = q[1]
      /\ se[h].mode = IDLE /\ ~se[h].is_finished /\ se[h] \in Entity
  <2>1. h \in tree[q] /\ se[h].mode = IDLE /\ ~se[h].is_finished
    BY DEF Pickable
  <2> QED BY <1>1, <2>1, InTree DEF Entities
<1>3. q[1] \in Types
  BY QueueFacts
<1>4. Marks(h, q[1], FALSE)
  BY <1>2 DEF PickNext, Marks, Entity
<1>5. /\ SamePlaces /\ Entities' /\ se'[h].mode = q[1]
      /\ \A g \in DOMAIN se \ {h} : se'[g] = se[g]
  BY <1>1, <1>2, <1>3, <1>4, MarksIs
<1>6. DOMAIN se' = DOMAIN se /\ \A g \in DOMAIN se : QueueOf(g)' = QueueOf(g) /\ se'[g].mq = se[g].mq
  BY <1>5 DEF SamePlaces, QueueOf
<1>7. CountersMatchTrees' /\ ListsMatchPlaces'
  BY <1>1, <1>5, SamePlacesKeepMatches
<1>8. h \in Handles /\ curr \in [Queues -> Handles \cup {NoJob}] /\ DOMAIN se \subseteq Handles
  BY <1>1, <1>2 DEF Typed
<1>9. curr' = [curr EXCEPT ![q] = h] /\ curr'[q] = h /\ \A r \in Queues \ {q} : curr'[r] = curr[r]
  BY <1>8 DEF PickNext
<1>10. Typed'
  <2>1. curr' \in [Queues -> Handles \cup {NoJob}] /\ disp' \in Queues \cup {NoQueue}
    BY <1>1, <1>8, <1>9 DEF Typed
  <2> QED BY <1>1, <1>6, <2>1 DEF Typed, queueVars, listVars
<1>11. \A r \in Queues : curr'[r] # NoJob => curr'[r] \in tree'[r]
  BY <1>1, <1>2, <1>9 DEF CurrentInv, queueVars
<1>12. ASSUME NEW g \in DOMAIN se', se'[g].mode # IDLE
       PROVE  curr'[QueueOf(g)'] = g /\ se'[g].mode = se'[g].mq
  <2>1. CASE g = h
    BY <1>2, <1>5, <1>6, <1>9, <2>1
  <2>2. CASE g # h
    <3>1. g \in DOMAIN se \ {h} /\ se'[g] = se[g] /\ g # NoJob
      BY <1>5, <1>6, <1>8, <1>12, <2>2, HandleFacts
    <3>2. curr[QueueOf(g)] = g /\ se[g].mode = se[g].mq /\ se[g].mode # IDLE
      BY <1>1, <1>12, <3>1 DEF CurrentInv
    <3>3. QueueOf(g) # q
      BY <1>1, <3>1, <3>2 DEF CurrentInv
    <3>4. QueueOf(g) \in Queues
      BY <1>1, <3>1 DEF Entities
    <3> QED BY <1>6, <1>9, <3>1, <3>2, <3>3, <3>4
  <2> QED BY <2>1, <2>2
<1>13. disp' # NoQueue => curr'[disp'] # NoJob /\ se'[curr'[disp']].mode = IDLE
  <2> SUFFICES ASSUME disp' # NoQueue PROVE curr'[disp'] # NoJob /\ se'[curr'[disp']].mode = IDLE
    OBVIOUS
  <2>1. disp' = disp /\ curr[q] = NoJob /\ disp \in Queues
    BY <1>1 DEF Typed
  <2>2. curr[disp] # NoJob /\ se[curr[disp]].mode = IDLE /\ disp # q
    BY <1>1, <2>1 DEF CurrentInv
  <2>3. curr[disp] \in DOMAIN se /\ QueueOf(curr[disp]) = disp
    BY <2>1, <2>2, CurrentIs
  <2>4. curr[disp] # h
    BY <1>2, <2>2, <2>3
  <2> QED BY <1>5, <1>9, <2>1, <2>2, <2>3, <2>4
<1>14. CurrentInv'
  BY <1>11, <1>12, <1>13 DEF CurrentInv
<1> QED BY <1>5, <1>7, <1>10, <1>14 DEF DataInv

LEMMA CleanupKeepsData ==
  ASSUME DataInv, NEW q \in Queues, NEW finished \in BOOLEAN, HandleCleanup(q, finished)
  PROVE  DataInv' /\ SamePlaces
<1> DEFINE c == curr[q]
<1>1. /\ Typed /\ Entities /\ CountersMatchTrees /\ ListsMatchPlaces /\ CurrentInv
  BY DEF DataInv
<1>2. c # NoJob /\ c \in DOMAIN se /\ QueueOf(c) = q /\ disp = NoQueue /\ disp' = q
  BY CurrentIs DEF HandleCleanup
<1>3. /\ UNCHANGED <<dexit, queueVars, curr, listVars, centerpoint, arrived>>
      /\ tokill_list' = IF finished THEN tokill_list \cup {c} ELSE tokill_list
  BY DEF HandleCleanup
<1>4. Marks(c, IDLE, finished)
  BY DEF HandleCleanup, Marks
<1>5. /\ SamePlaces /\ Entities' /\ se'[c].mode = IDLE
      /\ \A g \in DOMAIN se \ {c} : se'[g] = se[g]
  BY <1>1, <1>2, <1>4, MarksIs
<1>6. DOMAIN se' = DOMAIN se /\ \A g \in DOMAIN se : QueueOf(g)' = QueueOf(g) /\ se'[g].mq = se[g].mq
  BY <1>5 DEF SamePlaces, QueueOf
<1>7. CountersMatchTrees' /\ ListsMatchPlaces'
  BY <1>1, <1>3, <1>5, SamePlacesKeepMatches
<1> HIDE DEF c
<1>8. Typed'
  <2>1. tokill_list' \subseteq DOMAIN se' /\ disp' \in Queues \cup {NoQueue}
    BY <1>1, <1>2, <1>3, <1>6 DEF Typed
  <2> QED BY <1>1, <1>3, <1>6, <2>1 DEF Typed, queueVars, listVars
<1>9. \A r \in Queues : curr'[r] # NoJob => curr'[r] \in tree'[r]
  BY <1>1, <1>3 DEF CurrentInv, queueVars
<1>10. ASSUME NEW g \in DOMAIN se', se'[g].mode # IDLE
       PROVE  curr'[QueueOf(g)'] = g /\ se'[g].mode = se'[g].mq
  <2>1. g \in DOMAIN se /\ se'[g] = se[g]
    BY <1>5, <1>6, <1>10
  <2> QED BY <1>1, <1>3, <1>6, <1>10, <2>1 DEF CurrentInv
<1>11. disp' # NoQueue => curr'[disp'] # NoJob /\ se'[curr'[disp']].mode = IDLE
  BY <1>2, <1>3, <1>5 DEF c
<1>12. CurrentInv'
  BY <1>9, <1>10, <1>11 DEF CurrentInv
<1> QED BY <1>5, <1>7, <1>8, <1>12 DEF DataInv

LEMMA DispatchKeepsData ==
  ASSUME DataInv, DispatchNext
  PROVE  DataInv' /\ SamePlaces
<1>1. /\ Typed /\ Entities /\ CountersMatchTrees /\ ListsMatchPlaces /\ CurrentInv
  BY DEF DataInv
<1>2. /\ disp # NoQueue /\ disp \in Queues /\ disp' = NoQueue
      /\ UNCHANGED <<dexit, queueVars, listVars, centerpoint, tokill_list, arrived>>
  BY <1>1 DEF DispatchNext, Typed
<1>3. CASE \E h \in Pickable(disp) : PickNext(disp, h)
  BY <1>2, <1>3, PickKeepsData
<1>4. CASE curr' = [curr EXCEPT ![disp] = NoJob] /\ se' = se
  <2>1. curr \in [Queues -> Handles \cup {NoJob}] /\ DOMAIN se \subseteq Handles
    BY <1>1 DEF Typed
  <2>2. curr'[disp] = NoJob /\ \A r \in Queues \ {disp} : curr'[r] = curr[r]
    BY <1>2, <1>4, <2>1
  <2>3. SamePlaces
    BY <1>4 DEF SamePlaces
  <2>4. CountersMatchTrees' /\ ListsMatchPlaces'
    BY <1>1, <1>2, <2>3, SamePlacesKeepMatches
  <2>5. Typed'
    <3>1. curr' \in [Queues -> Handles \cup {NoJob}]
      BY <1>4, <2>1
    <3> QED BY <1>1, <1>2, <1>4, <3>1 DEF Typed, queueVars, listVars
  <2>6. Entities' /\ \A g : QueueOf(g)' = QueueOf(g)
    BY <1>1, <1>4 DEF Entities, QueueOf
  <2>7. CurrentInv'
    <3>1. \A r \in Queues : curr'[r] # NoJob => curr'[r] \in tree'[r]
      BY <1>1, <1>2, <2>2 DEF CurrentInv, queueVars
    <3>2. ASSUME NEW g \in DOMAIN se', se'[g].mode # IDLE
          PROVE  curr'[QueueOf(g)'] = g /\ se'[g].mode = se'[g].mq
      <4>1. g \in DOMAIN se /\ curr[QueueOf(g)] = g /\ se[g].mode = se[g].mq /\ QueueOf(g) \in Queues
        BY <1>1, <1>4, <3>2 DEF CurrentInv, Entities
      <4>2. QueueOf(g) # disp
        BY <1>1, <1>2, <1>4, <3>2, <4>1 DEF CurrentInv
      <4> QED BY <1>4, <2>2, <2>6, <4>1, <4>2
    <3> QED BY <1>2, <3>1, <3>2 DEF CurrentInv
  <2> QED BY <2>3, <2>4, <2>5, <2>6, <2>7 DEF DataInv
<1> QED BY <1>3, <1>4 DEF DispatchNext

--------------------------------------------------------------------------------
(* move_to_rq.                                                               *)

\* Job h goes to queue q, nothing else happens to a job.
Moves(h, q) == /\ DOMAIN se' = DOMAIN se
               /\ \A g \in DOMAIN se \ {h} : se'[g] = se[g]
               /\ se'[h] = [se[h] EXCEPT !.mq = q[1], !.rq = q[2]]

LEMMA MovesIs ==
  ASSUME Entities, NEW h \in DOMAIN se, NEW q \in Queues, Implements(se[h].msai, q[1]),
         Moves(h, q)
  PROVE  /\ Entities' /\ QueueOf(h)' = q
         /\ se'[h].mq = q[1] /\ se'[h].msai = se[h].msai /\ se'[h].mode = se[h].mode
         /\ \A g \in DOMAIN se \ {h} : se'[g] = se[g] /\ QueueOf(g)' = QueueOf(g)
         /\ \A g \in DOMAIN se : se'[g].msai = se[g].msai
<1>1. /\ DOMAIN se' = DOMAIN se /\ se'[h] = [se[h] EXCEPT !.mq = q[1], !.rq = q[2]]
      /\ \A g \in DOMAIN se \ {h} : se'[g] = se[g] /\ QueueOf(g)' = QueueOf(g)
  BY DEF Moves, QueueOf
<1>2. se[h] \in Entity /\ JobList(se[h].msai)
  BY DEF Entities
<1>3. q[1] \in Types /\ q[2] \in 0..9 /\ q = <<q[1], q[2]>>
  BY QueueFacts
<1>4. /\ se'[h] \in Entity /\ se'[h].mq = q[1] /\ se'[h].rq = q[2]
      /\ se'[h].msai = se[h].msai /\ se'[h].mode = se[h].mode
  BY <1>1, <1>2, <1>3 DEF Entity
<1>5. QueueOf(h)' = q
  BY <1>3, <1>4 DEF QueueOf
<1>6. ASSUME NEW g \in DOMAIN se'
      PROVE  /\ se'[g] \in Entity /\ JobList(se'[g].msai)
             /\ QueueOf(g)' \in Queues /\ Implements(se'[g].msai, se'[g].mq)
  <2>1. CASE g = h
    BY <1>2, <1>4, <1>5, <2>1
  <2>2. CASE g # h
    BY <1>1, <2>2 DEF Entities
  <2> QED BY <2>1, <2>2
<1>7. Entities'
  BY <1>6, Zenon DEF Entities
<1> QED BY <1>1, <1>4, <1>5, <1>7

\* The sets that are counted are finite.
LEMMA CountedFinite ==
  ASSUME Typed, NEW S, S \subseteq DOMAIN se
  PROVE  IsFiniteSet(S) /\ Cardinality(S) \in Nat
<1>1. S \subseteq Handles
  BY DEF Typed
<1> QED BY <1>1, HandleFacts, FS_Subset, FS_CardinalityType

LEMMA MoveKeepsCounters ==
  ASSUME DataInv, NEW h \in DOMAIN se, NEW q \in Queues, Implements(se[h].msai, q[1]),
         se[h].mq # q[1], Moves(h, q),
         tree' = [tree EXCEPT ![QueueOf(h)] = @ \ {h}, ![q] = @ \cup {h}],
         length' = [length EXCEPT ![QueueOf(h)] = @ - 1, ![q] = @ + 1],
         nof_all' = MovedNofAll(QueueOf(h), q)
  PROVE  CountersMatchTrees'
<1> DEFINE p == QueueOf(h)
<1>1. Typed /\ Entities /\ CountersMatchTrees
  BY DEF DataInv
<1>2. /\ QueueOf(h)' = q /\ se'[h].mq = q[1] /\ DOMAIN se' = DOMAIN se
      /\ \A g \in DOMAIN se \ {h} : se'[g] = se[g] /\ QueueOf(g)' = QueueOf(g)
  BY <1>1, MovesIs DEF Moves
<1>3. p \in Queues /\ p[1] = se[h].mq /\ p # q /\ p[1] \in Types /\ q[1] \in Types
  <2>1. p \in Queues /\ p[1] = se[h].mq
    BY <1>1 DEF Entities, QueueOf
  <2> QED BY <2>1, QueueFacts
<1>4. \A r \in Queues : /\ tree[r] = {g \in DOMAIN se : QueueOf(g) = r}
                        /\ length[r] = Cardinality(tree[r])
                        /\ IsFiniteSet(tree[r]) /\ Cardinality(tree[r]) \in Nat
  BY <1>1, CountedFinite DEF CountersMatchTrees
<1>5. tree \in [Queues -> SUBSET Handles] /\ length \in [Queues -> Int]
  BY <1>1 DEF Typed
<1> HIDE DEF p
<1>6. /\ tree'[p] = tree[p] \ {h} /\ tree'[q] = tree[q] \cup {h}
      /\ \A r \in Queues \ {p, q} : tree'[r] = tree[r]
  BY <1>3, <1>5 DEF p
<1>7. /\ length'[p] = length[p] - 1 /\ length'[q] = length[q] + 1
      /\ \A r \in Queues \ {p, q} : length'[r] = length[r]
  BY <1>3, <1>5 DEF p
<1>8. h \in tree[p] /\ h \notin tree[q]
  BY <1>3, <1>4 DEF p
<1>9. ASSUME NEW r \in Queues
      PROVE  tree'[r] = {g \in DOMAIN se' : QueueOf(g)' = r} /\ length'[r] = Cardinality(tree'[r])
  <2>1. CASE r = p
    <3>1. tree'[r] = {g \in DOMAIN se' : QueueOf(g)' = r}
      <4> SUFFICES ASSUME NEW g
                   PROVE  g \in tree'[r] <=> g \in DOMAIN se /\ QueueOf(g)' = r
        BY <1>2
      <4>1. g \in tree[r] <=> g \in DOMAIN se /\ QueueOf(g) = r
        BY <1>4
      <4>2. CASE g = h
        BY <1>2, <1>3, <1>6, <2>1, <4>2
      <4>3. CASE g # h
        BY <1>2, <1>3, <1>6, <2>1, <4>1, <4>3
      <4> QED BY <4>2, <4>3
    <3>2. Cardinality(tree[p] \ {h}) = Cardinality(tree[p]) - 1
      BY <1>3, <1>4, <1>8, FS_RemoveElement
    <3> QED BY <1>3, <1>4, <1>6, <1>7, <2>1, <3>1, <3>2
  <2>2. CASE r = q
    <3>1. tree'[r] = {g \in DOMAIN se' : QueueOf(g)' = r}
      <4> SUFFICES ASSUME NEW g
                   PROVE  g \in tree'[r] <=> g \in DOMAIN se /\ QueueOf(g)' = r
        BY <1>2
      <4>1. g \in tree[r] <=> g \in DOMAIN se /\ QueueOf(g) = r
        BY <1>4
      <4>2. CASE g = h
        BY <1>2, <1>3, <1>6, <2>2, <4>2
      <4>3. CASE g # h
        <5>1. tree'[r] = tree[r] \cup {h}
          BY <1>6, <2>2
        <5>2. g \in tree'[r] <=> g \in tree[r]
          BY <4>3, <5>1
        <5>3. g \in DOMAIN se => QueueOf(g)' = QueueOf(g)
          BY <1>2, <4>3
        <5> QED BY <4>1, <5>2, <5>3
      <4> QED BY <4>2, <4>3
    <3>2. Cardinality(tree[q] \cup {h}) = Cardinality(tree[q]) + 1
      BY <1>3, <1>4, <1>8, FS_AddElement
    <3> QED BY <1>3, <1>4, <1>6, <1>7, <2>2, <3>1, <3>2
  <2>3. CASE r \in Queues \ {p, q}
    <3>1. {g \in DOMAIN se' : QueueOf(g)' = r} = {g \in DOMAIN se : QueueOf(g) = r}
      BY <1>2, <2>3 DEF p
    <3> QED BY <1>4, <1>6, <1>7, <2>3, <3>1
  <2> QED BY <2>1, <2>2, <2>3
<1>10. ASSUME NEW t \in Types
       PROVE  nof_all'[t] = Cardinality({g \in DOMAIN se' : se'[g].mq = t})
  <2> DEFINE A == {g \in DOMAIN se : se[g].mq = t}
             B == {g \in DOMAIN se' : se'[g].mq = t}
  <2>1. nof_all[t] = Cardinality(A) /\ IsFiniteSet(A) /\ Cardinality(A) \in Nat
    BY <1>1, CountedFinite DEF CountersMatchTrees
  <2>2. nof_all'[t] = nof_all[t] - (IF t = p[1] THEN 1 ELSE 0) + (IF t = q[1] THEN 1 ELSE 0)
    BY DEF MovedNofAll, p
  <2>3. CASE t = p[1]
    <3>1. B = A \ {h} /\ h \in A
      BY <1>2, <1>3, <2>3
    <3>2. Cardinality(B) = Cardinality(A) - 1
      BY <2>1, <3>1, FS_RemoveElement
    <3>3. t # q[1]
      BY <1>3, <2>3
    <3> HIDE DEF A, B
    <3>4. nof_all'[t] = Cardinality(B)
      BY <2>1, <2>2, <2>3, <3>2, <3>3
    <3> QED BY <3>4 DEF B
  <2>4. CASE t = q[1]
    <3>1. B = A \cup {h} /\ h \notin A
      BY <1>2, <1>3, <2>4
    <3>2. Cardinality(B) = Cardinality(A) + 1
      BY <2>1, <3>1, FS_AddElement
    <3>3. t # p[1]
      BY <1>3, <2>4
    <3> HIDE DEF A, B
    <3>4. nof_all'[t] = Cardinality(B)
      BY <2>1, <2>2, <2>4, <3>2, <3>3
    <3> QED BY <3>4 DEF B
  <2>5. CASE t # p[1] /\ t # q[1]
    <3>1. B = A
      BY <1>2, <1>3, <2>5
    <3> HIDE DEF A, B
    <3>2. nof_all'[t] = Cardinality(B)
      BY <2>1, <2>2, <2>5, <3>1
    <3> QED BY <3>2 DEF B
  <2> QED BY <2>3, <2>4, <2>5
<1> QED BY <1>9, <1>10, Zenon DEF CountersMatchTrees

LEMMA MoveKeepsLists ==
  ASSUME DataInv, NEW h \in DOMAIN se, NEW q \in Queues, Implements(se[h].msai, q[1]),
         se[h].mq # q[1], Moves(h, q),
         best_to_push' = UpdatedPush(h, se[h].mq, q[1]),
         best_to_pull' = UpdatedPull(h, se[h].mq, q[1])
  PROVE  ListsMatchPlaces'
<1> DEFINE u == q[1]
           e(t) == <<AffinityOf(se[h].msai, t), h>>
<1>0. PICK s : s = se[h].mq
  OBVIOUS
<1>1. Typed /\ Entities /\ \A t \in Types : ListsOf(t)
  BY ListsAre DEF DataInv, AllLists
<1>2. /\ se'[h].mq = u /\ DOMAIN se' = DOMAIN se
      /\ \A g \in DOMAIN se \ {h} : se'[g] = se[g]
      /\ \A g \in DOMAIN se : se'[g].msai = se[g].msai
  BY <1>1, MovesIs DEF Moves
<1>3. /\ s \in Types /\ u \in Types /\ s # u
      /\ Implements(se[h].msai, s) /\ Implements(se[h].msai, u)
  BY <1>0, <1>1, QueueFacts DEF Entities, Entity
<1>4. /\ best_to_push \in [Types -> SUBSET AffinityEntry]
      /\ best_to_pull \in [Types -> SUBSET AffinityEntry]
  BY <1>1 DEF Typed
<1>5. /\ best_to_push'[s] = best_to_push[s] \ {e(s)}
      /\ best_to_push'[u] = best_to_push[u] \cup {e(u)}
      /\ \A t \in Types \ {s, u} : best_to_push'[t] = best_to_push[t]
  BY <1>0, <1>3, <1>4 DEF UpdatedPush
<1>6. /\ best_to_pull'[s] = best_to_pull[s] \cup {e(s)}
      /\ best_to_pull'[u] = best_to_pull[u] \ {e(u)}
      /\ \A t \in Types \ {s, u} : best_to_pull'[t] = best_to_pull[t]
  BY <1>0, <1>3, <1>4 DEF UpdatedPull
<1> HIDE DEF u
<1>7. /\ \A t : \A g \in DOMAIN se \ {h} : (g \in PushJobs(t)' <=> g \in PushJobs(t))
                                           /\ (g \in PullJobs(t)' <=> g \in PullJobs(t))
      /\ \A t : /\ PushJobs(t) \subseteq DOMAIN se /\ PullJobs(t) \subseteq DOMAIN se
                /\ PushJobs(t)' \subseteq DOMAIN se /\ PullJobs(t)' \subseteq DOMAIN se
      /\ \A t \in Types : /\ h \in PushJobs(t) <=> t = s
                          /\ h \in PushJobs(t)' <=> t = u
                          /\ h \in PullJobs(t) <=> t # s /\ Implements(se[h].msai, t)
                          /\ h \in PullJobs(t)' <=> t # u /\ Implements(se[h].msai, t)
  <2>1. ASSUME NEW t, NEW g \in DOMAIN se \ {h}
        PROVE  (g \in PushJobs(t)' <=> g \in PushJobs(t)) /\ (g \in PullJobs(t)' <=> g \in PullJobs(t))
    BY <1>2 DEF PushJobs, PullJobs
  <2>2. ASSUME NEW t
        PROVE  /\ PushJobs(t) \subseteq DOMAIN se /\ PullJobs(t) \subseteq DOMAIN se
               /\ PushJobs(t)' \subseteq DOMAIN se /\ PullJobs(t)' \subseteq DOMAIN se
    BY <1>2 DEF PushJobs, PullJobs
  <2>3. ASSUME NEW t \in Types
        PROVE  /\ h \in PushJobs(t) <=> t = s
               /\ h \in PushJobs(t)' <=> t = u
               /\ h \in PullJobs(t) <=> t # s /\ Implements(se[h].msai, t)
               /\ h \in PullJobs(t)' <=> t # u /\ Implements(se[h].msai, t)
    <3>1. se'[h].msai = se[h].msai /\ h \in DOMAIN se'
      BY <1>2
    <3> QED BY <1>0, <1>2, <1>3, <3>1 DEF PushJobs, PullJobs
  <2> QED BY <2>1, <2>2, <2>3
<1>8. /\ PushJobs(s)' = PushJobs(s) \ {h} /\ PushJobs(u)' = PushJobs(u) \cup {h}
      /\ PullJobs(s)' = PullJobs(s) \cup {h} /\ PullJobs(u)' = PullJobs(u) \ {h}
      /\ \A t \in Types \ {s, u} : PushJobs(t)' = PushJobs(t) /\ PullJobs(t)' = PullJobs(t)
  BY <1>3, <1>7
<1>9. ASSUME NEW t \in Types
      PROVE  /\ EntriesOf(PushJobs(t), t)' = EntriesOf(PushJobs(t)', t)
             /\ EntriesOf(PullJobs(t), t)' = EntriesOf(PullJobs(t)', t)
  <2>1. PushJobs(t)' \subseteq DOMAIN se /\ PullJobs(t)' \subseteq DOMAIN se
    BY <1>2 DEF PushJobs, PullJobs
  <2> QED BY <1>2, <2>1 DEF EntriesOf
<1>10. ASSUME NEW S, NEW t
       PROVE  /\ EntriesOf(S \cup {h}, t) = EntriesOf(S, t) \cup {e(t)}
              /\ EntriesOf(S \ {h}, t) = EntriesOf(S, t) \ {e(t)}
  BY DEF EntriesOf
<1> HIDE DEF e
<1>11. ASSUME NEW t \in Types PROVE ListsOf(t)'
  <2>1. best_to_push[t] = EntriesOf(PushJobs(t), t) /\ best_to_pull[t] = EntriesOf(PullJobs(t), t)
    BY <1>1 DEF ListsOf
  <2>2. CASE t = s
    <3>1. /\ best_to_push'[t] = EntriesOf(PushJobs(t) \ {h}, t)
          /\ best_to_pull'[t] = EntriesOf(PullJobs(t) \cup {h}, t)
      <4>1. /\ best_to_push'[t] = best_to_push[t] \ {e(t)}
            /\ best_to_pull'[t] = best_to_pull[t] \cup {e(t)}
        BY <1>5, <1>6, <2>2
      <4> QED BY <1>10, <2>1, <4>1
    <3>2. PushJobs(t)' = PushJobs(t) \ {h} /\ PullJobs(t)' = PullJobs(t) \cup {h}
      BY <1>8, <2>2
    <3> QED BY <1>9, <3>1, <3>2 DEF ListsOf
  <2>3. CASE t = u
    <3>1. /\ best_to_push'[t] = EntriesOf(PushJobs(t) \cup {h}, t)
          /\ best_to_pull'[t] = EntriesOf(PullJobs(t) \ {h}, t)
      <4>1. /\ best_to_push'[t] = best_to_push[t] \cup {e(t)}
            /\ best_to_pull'[t] = best_to_pull[t] \ {e(t)}
        BY <1>5, <1>6, <2>3
      <4>2. /\ EntriesOf(PushJobs(t) \cup {h}, t) = EntriesOf(PushJobs(t), t) \cup {e(t)}
            /\ EntriesOf(PullJobs(t) \ {h}, t) = EntriesOf(PullJobs(t), t) \ {e(t)}
        BY <1>10, Zenon
      <4> QED BY <2>1, <4>1, <4>2, Zenon
    <3>2. PushJobs(t)' = PushJobs(t) \cup {h} /\ PullJobs(t)' = PullJobs(t) \ {h}
      BY <1>8, <2>3
    <3> QED BY <1>9, <3>1, <3>2 DEF ListsOf
  <2>4. CASE t \in Types \ {s, u}
    BY <1>5, <1>6, <1>8, <1>9, <2>1, <2>4 DEF ListsOf
  <2> QED BY <2>2, <2>3, <2>4
<1> QED BY <1>11, ListsAreNext DEF AllLists

LEMMA EntryOf ==
  ASSUME DataInv, NEW h \in DOMAIN se, NEW t, Implements(se[h].msai, t)
  PROVE  <<AffinityOf(se[h].msai, t), h>> \in AffinityEntry
<1>1. JobList(se[h].msai) /\ h \in Handles
  BY DEF DataInv, Entities, Typed
<1> QED BY <1>1, AffinityType DEF AffinityEntry

LEMMA MoveKeepsData ==
  ASSUME DataInv, NEW h \in DOMAIN se, NEW q \in Queues, Implements(se[h].msai, q[1]),
         se[h].mq # q[1], Movable(h), MoveToRq(h, q),
         UNCHANGED <<dexit, curr, centerpoint, tokill_list, arrived, disp>>
  PROVE  DataInv' /\ DOMAIN se' = DOMAIN se /\ \A g \in DOMAIN se : se[g].mode # IDLE => se'[g] = se[g]
<1>1. Typed /\ Entities /\ CurrentInv
  BY DEF DataInv
<1>2. Moves(h, q)
  <2>1. se' = [se EXCEPT ![h].mq = q[1], ![h].rq = q[2]]
    BY DEF MoveToRq
  <2>2. /\ DOMAIN se' = DOMAIN se /\ \A g \in DOMAIN se \ {h} : se'[g] = se[g]
        /\ se'[h] = [[se[h] EXCEPT !.mq = q[1]] EXCEPT !.rq = q[2]]
    BY <2>1
  <2> QED BY <2>2 DEF Moves
<1>3. /\ Entities' /\ QueueOf(h)' = q /\ se'[h].mode = se[h].mode /\ DOMAIN se' = DOMAIN se
      /\ \A g \in DOMAIN se \ {h} : se'[g] = se[g] /\ QueueOf(g)' = QueueOf(g)
  BY <1>1, <1>2, MovesIs DEF Moves
<1>4. /\ QueueOf(h) \in Queues /\ QueueOf(h)[1] = se[h].mq /\ curr[QueueOf(h)] # h
      /\ Implements(se[h].msai, se[h].mq) /\ se[h].mq \in Types /\ q[1] \in Types
  BY <1>1, QueueFacts DEF Entities, Entity, QueueOf, Movable
<1>5. CountersMatchTrees'
  BY <1>2, MoveKeepsCounters DEF MoveToRq
<1>6. ListsMatchPlaces'
  BY <1>2, <1>4, MoveKeepsLists DEF MoveToRq
<1>7. /\ tree' = [tree EXCEPT ![QueueOf(h)] = @ \ {h}, ![q] = @ \cup {h}]
      /\ length' = [length EXCEPT ![QueueOf(h)] = @ - 1, ![q] = @ + 1]
      /\ nof_all' = MovedNofAll(QueueOf(h), q)
      /\ best_to_push' = UpdatedPush(h, se[h].mq, q[1])
      /\ best_to_pull' = UpdatedPull(h, se[h].mq, q[1])
  BY <1>4 DEF MoveToRq
<1>8. tree' \in [Queues -> SUBSET Handles] /\ length' \in [Queues -> Int]
  <2>1. h \in Handles /\ tree \in [Queues -> SUBSET Handles] /\ length \in [Queues -> Int]
    BY <1>1 DEF Typed
  <2>2. tree' \in [Queues -> SUBSET Handles]
    BY <1>7, <2>1
  <2>3. length' \in [Queues -> Int]
    BY <1>7, <2>1
  <2> QED BY <2>2, <2>3
<1>9. nof_all' \in [Types -> Int]
  <2>1. nof_all \in [Types -> Int]
    BY <1>1 DEF Typed
  <2> QED BY <1>7, <2>1 DEF MovedNofAll
<1>10. /\ best_to_push' \in [Types -> SUBSET AffinityEntry]
       /\ best_to_pull' \in [Types -> SUBSET AffinityEntry]
  <2>1. /\ best_to_push \in [Types -> SUBSET AffinityEntry]
        /\ best_to_pull \in [Types -> SUBSET AffinityEntry]
    BY <1>1 DEF Typed
  <2>2. /\ <<AffinityOf(se[h].msai, q[1]), h>> \in AffinityEntry
        /\ <<AffinityOf(se[h].msai, se[h].mq), h>> \in AffinityEntry
    BY <1>4, EntryOf
  <2>3. best_to_push' \in [Types -> SUBSET AffinityEntry]
    BY <1>4, <1>7, <2>1, <2>2 DEF UpdatedPush
  <2>4. best_to_pull' \in [Types -> SUBSET AffinityEntry]
    BY <1>4, <1>7, <2>1, <2>2 DEF UpdatedPull
  <2> QED BY <2>3, <2>4
<1>11. Typed'
  BY <1>1, <1>3, <1>8, <1>9, <1>10 DEF Typed
<1>12. se[h].mode = IDLE
  BY <1>1, <1>4 DEF CurrentInv
<1>13. ASSUME NEW r \in Queues, curr'[r] # NoJob PROVE curr'[r] \in tree'[r]
  <2>1. curr[r] \in tree[r] /\ curr'[r] = curr[r]
    BY <1>1, <1>13 DEF CurrentInv
  <2>2. curr[r] # h
    <3>1. QueueOf(curr[r]) = r
      BY <1>13, <2>1, CurrentIs
    <3> QED BY <1>4, <3>1
  <2>3. tree[r] \ {h} \subseteq tree'[r]
    BY <1>4, <1>7, <1>1 DEF Typed
  <2> QED BY <2>1, <2>2, <2>3
<1>14. ASSUME NEW g \in DOMAIN se', se'[g].mode # IDLE
       PROVE  curr'[QueueOf(g)'] = g /\ se'[g].mode = se'[g].mq
  <2>1. g \in DOMAIN se \ {h}
    BY <1>3, <1>12, <1>14
  <2> QED BY <1>1, <1>3, <1>14, <2>1 DEF CurrentInv
<1>15. disp' # NoQueue => curr'[disp'] # NoJob /\ se'[curr'[disp']].mode = IDLE
  <2> SUFFICES ASSUME disp # NoQueue PROVE curr[disp] # NoJob /\ se'[curr[disp]].mode = IDLE
    OBVIOUS
  <2>1. curr[disp] # NoJob /\ se[curr[disp]].mode = IDLE /\ disp \in Queues
    BY <1>1 DEF CurrentInv, Typed
  <2>2. curr[disp] \in DOMAIN se
    BY <2>1, CurrentIs
  <2> QED BY <1>3, <2>1, <2>2
<1>16. CurrentInv'
  BY <1>13, <1>14, <1>15 DEF CurrentInv
<1> QED BY <1>3, <1>5, <1>6, <1>11, <1>12, <1>16 DEF DataInv

--------------------------------------------------------------------------------
(* add_job and remove_job.                                                   *)

\* The entries of a list of affinities for one type.
LEMMA EntriesAre ==
  ASSUME NEW msai, JobList(msai), NEW t, NEW h
  PROVE  {<<msai[i].affinity, h>> : i \in {j \in DOMAIN msai : msai[j].type = t}}
           = IF Implements(msai, t) THEN {<<AffinityOf(msai, t), h>>} ELSE {}
<1> DEFINE S == {<<msai[i].affinity, h>> : i \in {j \in DOMAIN msai : msai[j].type = t}}
<1>1. CASE Implements(msai, t)
  <2>1. PICK k \in DOMAIN msai : msai[k].type = t
    BY <1>1 DEF Implements
  <2>2. AffinityOf(msai, t) = msai[k].affinity
    BY <2>1, AffinityIs
  <2>3. {j \in DOMAIN msai : msai[j].type = t} = {k}
    BY <2>1 DEF JobList, Distinct
  <2>4. S = {<<msai[k].affinity, h>>}
    BY <2>3
  <2> QED BY <1>1, <2>2, <2>4
<1>2. CASE ~Implements(msai, t)
  <2>1. {j \in DOMAIN msai : msai[j].type = t} = {}
    BY <1>2 DEF Implements
  <2> QED BY <1>2, <2>1
<1> QED BY <1>1, <1>2

\* Job h is new, with entity e.
Enters(h, e) == /\ h \notin DOMAIN se /\ DOMAIN se' = DOMAIN se \cup {h}
                /\ se'[h] = e /\ \A g \in DOMAIN se : se'[g] = se[g]

LEMMA EntersKeepsCounters ==
  ASSUME DataInv, NEW h, NEW e, Enters(h, e), NEW q \in Queues, e.mq = q[1], e.rq = q[2],
         tree' = [tree EXCEPT ![q] = @ \cup {h}], length' = [length EXCEPT ![q] = @ + 1],
         nof_all' = [nof_all EXCEPT ![q[1]] = @ + 1]
  PROVE  CountersMatchTrees'
<1>1. Typed /\ q[1] \in Types /\ q = <<q[1], q[2]>>
  BY QueueFacts DEF DataInv
<1>2. /\ h \notin DOMAIN se /\ DOMAIN se' = DOMAIN se \cup {h} /\ se'[h].mq = q[1] /\ QueueOf(h)' = q
      /\ \A g \in DOMAIN se : se'[g] = se[g] /\ QueueOf(g)' = QueueOf(g)
  BY <1>1 DEF Enters, QueueOf
<1>3. \A r \in Queues : /\ tree[r] = {g \in DOMAIN se : QueueOf(g) = r}
                        /\ length[r] = Cardinality(tree[r])
                        /\ IsFiniteSet(tree[r]) /\ Cardinality(tree[r]) \in Nat
  BY <1>1, CountedFinite DEF DataInv, CountersMatchTrees
<1>4. /\ tree'[q] = tree[q] \cup {h} /\ \A r \in Queues \ {q} : tree'[r] = tree[r]
      /\ length'[q] = length[q] + 1 /\ \A r \in Queues \ {q} : length'[r] = length[r]
      /\ nof_all'[q[1]] = nof_all[q[1]] + 1
      /\ \A t \in Types \ {q[1]} : nof_all'[t] = nof_all[t]
  BY <1>1 DEF Typed
<1>5. ASSUME NEW r \in Queues
      PROVE  tree'[r] = {g \in DOMAIN se' : QueueOf(g)' = r} /\ length'[r] = Cardinality(tree'[r])
  <2>1. tree'[r] = {g \in DOMAIN se' : QueueOf(g)' = r}
    <3> SUFFICES ASSUME NEW g PROVE g \in tree'[r] <=> g \in DOMAIN se' /\ QueueOf(g)' = r
      OBVIOUS
    <3>1. g \in tree[r] <=> g \in DOMAIN se /\ QueueOf(g) = r
      BY <1>3
    <3>2. g \in tree'[r] <=> g \in tree[r] \/ (r = q /\ g = h)
      BY <1>4
    <3>3. CASE g = h
      BY <1>2, <3>1, <3>2, <3>3
    <3>4. CASE g # h
      BY <1>2, <3>1, <3>2, <3>4
    <3> QED BY <3>3, <3>4
  <2>2. CASE r = q
    <3>1. h \notin tree[q]
      BY <1>2, <1>3
    <3>2. Cardinality(tree[q] \cup {h}) = Cardinality(tree[q]) + 1
      BY <1>3, <3>1, FS_AddElement
    <3> QED BY <1>3, <1>4, <2>1, <2>2, <3>2
  <2>3. CASE r # q
    BY <1>3, <1>4, <2>1, <2>3
  <2> QED BY <2>2, <2>3
<1>6. ASSUME NEW t \in Types
      PROVE  nof_all'[t] = Cardinality({g \in DOMAIN se' : se'[g].mq = t})
  <2> DEFINE A == {g \in DOMAIN se : se[g].mq = t}
             B == {g \in DOMAIN se' : se'[g].mq = t}
  <2>1. nof_all[t] = Cardinality(A) /\ IsFiniteSet(A)
    BY <1>1, CountedFinite DEF DataInv, CountersMatchTrees
  <2>2. CASE t = q[1]
    <3>1. B = A \cup {h} /\ h \notin A
      BY <1>2, <2>2
    <3>2. Cardinality(B) = Cardinality(A) + 1
      BY <2>1, <3>1, FS_AddElement
    <3> QED BY <1>4, <2>1, <2>2, <3>2
  <2>3. CASE t # q[1]
    <3>1. B = A
      BY <1>2, <2>3
    <3> QED BY <1>4, <2>1, <2>3, <3>1
  <2> QED BY <2>2, <2>3
<1> QED BY <1>5, <1>6, Zenon DEF CountersMatchTrees

LEMMA EntersKeepsLists ==
  ASSUME DataInv, NEW h, NEW e, Enters(h, e), JobList(e.msai), Implements(e.msai, e.mq),
         e.mq \in Types,
         \A t \in Types : best_to_push'[t] =
           best_to_push[t] \cup IF t = e.mq THEN {<<AffinityOf(e.msai, t), h>>} ELSE {},
         \A t \in Types : best_to_pull'[t] =
           best_to_pull[t] \cup IF t # e.mq /\ Implements(e.msai, t)
                                THEN {<<AffinityOf(e.msai, t), h>>} ELSE {}
  PROVE  ListsMatchPlaces'
<1>1. /\ h \notin DOMAIN se /\ DOMAIN se' = DOMAIN se \cup {h} /\ se'[h] = e
      /\ \A g \in DOMAIN se : se'[g] = se[g]
  BY DEF Enters
<1>2. ASSUME NEW t \in Types PROVE ListsOf(t)'
  <2>1. best_to_push[t] = EntriesOf(PushJobs(t), t) /\ best_to_pull[t] = EntriesOf(PullJobs(t), t)
    BY ListsAre DEF DataInv, AllLists, ListsOf
  <2>2. /\ PushJobs(t)' = PushJobs(t) \cup IF t = e.mq THEN {h} ELSE {}
        /\ PullJobs(t)' = PullJobs(t) \cup IF t # e.mq /\ Implements(e.msai, t) THEN {h} ELSE {}
    BY <1>1 DEF PushJobs, PullJobs
  <2>3. ASSUME NEW S \in SUBSET DOMAIN se
        PROVE  /\ {<<AffinityOf(se'[g].msai, t), g>> : g \in S} = EntriesOf(S, t)
               /\ {<<AffinityOf(se'[g].msai, t), g>> : g \in S \cup {h}}
                    = EntriesOf(S, t) \cup {<<AffinityOf(e.msai, t), h>>}
    <3>1. {<<AffinityOf(se'[g].msai, t), g>> : g \in S} = EntriesOf(S, t)
      BY <1>1 DEF EntriesOf
    <3>2. {<<AffinityOf(se'[g].msai, t), g>> : g \in S \cup {h}}
            = {<<AffinityOf(se'[g].msai, t), g>> : g \in S} \cup {<<AffinityOf(se'[h].msai, t), h>>}
      OBVIOUS
    <3> QED BY <1>1, <3>1, <3>2
  <2>4. PushJobs(t) \in SUBSET DOMAIN se /\ PullJobs(t) \in SUBSET DOMAIN se
    BY DEF PushJobs, PullJobs
  <2>5. EntriesOf(PushJobs(t), t)' = best_to_push'[t]
    <3>1. EntriesOf(PushJobs(t), t)' = {<<AffinityOf(se'[g].msai, t), g>> : g \in PushJobs(t)'}
      BY DEF EntriesOf
    <3>2. CASE t = e.mq
      <4>1. /\ PushJobs(t)' = PushJobs(t) \cup {h}
            /\ best_to_push'[t] = best_to_push[t] \cup {<<AffinityOf(e.msai, t), h>>}
        BY <2>2, <3>2
      <4> QED BY <2>1, <2>3, <2>4, <3>1, <4>1
    <3>3. CASE t # e.mq
      <4>1. PushJobs(t)' = PushJobs(t) /\ best_to_push'[t] = best_to_push[t]
        <5>1. /\ PushJobs(t)' = PushJobs(t) \cup {}
              /\ best_to_push'[t] = best_to_push[t] \cup {}
          BY <2>2, <3>3, Zenon
        <5> QED BY <5>1, Zenon
      <4> QED BY <2>1, <2>3, <2>4, <3>1, <4>1
    <3> QED BY <3>2, <3>3
  <2>6. EntriesOf(PullJobs(t), t)' = best_to_pull'[t]
    <3>1. EntriesOf(PullJobs(t), t)' = {<<AffinityOf(se'[g].msai, t), g>> : g \in PullJobs(t)'}
      BY DEF EntriesOf
    <3>2. CASE t # e.mq /\ Implements(e.msai, t)
      <4>1. /\ PullJobs(t)' = PullJobs(t) \cup {h}
            /\ best_to_pull'[t] = best_to_pull[t] \cup {<<AffinityOf(e.msai, t), h>>}
        BY <2>2, <3>2
      <4> QED BY <2>1, <2>3, <2>4, <3>1, <4>1
    <3>3. CASE ~(t # e.mq /\ Implements(e.msai, t))
      <4>1. PullJobs(t)' = PullJobs(t) /\ best_to_pull'[t] = best_to_pull[t]
        BY <2>2, <3>3
      <4> QED BY <2>1, <2>3, <2>4, <3>1, <4>1
    <3> QED BY <3>2, <3>3
  <2> QED BY <2>5, <2>6 DEF ListsOf
<1> QED BY <1>2, ListsAreNext DEF AllLists

LEMMA AddKeepsData ==
  ASSUME DataInv, NEW h \in Handles, NEW f \in Implemented, AddJob(h, f)
  PROVE  DataInv' /\ DOMAIN se \subseteq DOMAIN se' /\ \A g \in DOMAIN se : se'[g] = se[g]
<1> DEFINE msai == Sorted(Filled(f))
<1>1. PICK t : t = FirstType(msai)
  OBVIOUS
<1>2. PICK i : i = BestRq(t)
  OBVIOUS
<1> DEFINE q == <<t, i>>
           e == [msai |-> msai, mq |-> t, rq |-> i, mode |-> IDLE, is_finished |-> FALSE]
<1>3. Typed /\ Entities /\ CountersMatchTrees /\ ListsMatchPlaces /\ CurrentInv
  BY DEF DataInv
<1>4. JobList(msai) /\ Active(msai) # {} /\ h \notin arrived
  BY NewList DEF AddJob
<1>5. t \in Types /\ Implements(msai, t)
  BY <1>1, <1>4, FirstTypeIs
<1>6. i \in Rqs(t)
  BY <1>2, <1>3, <1>5, RoomExists
<1>7. q \in Queues /\ q[1] = t /\ q[2] = i /\ i \in 0..9
  BY <1>5, <1>6, QueueFacts
<1>8. /\ arrived' = arrived \cup {h}
      /\ se' = Insert(se, h, e)
      /\ tree' = [tree EXCEPT ![q] = @ \cup {h}]
      /\ length' = [length EXCEPT ![q] = @ + 1]
      /\ nof_all' = [nof_all EXCEPT ![t] = @ + 1]
      /\ best_to_push' = [best_to_push EXCEPT ![t] = @ \cup {<<AffinityOf(msai, t), h>>}]
      /\ best_to_pull' = [u \in Types |-> best_to_pull[u] \cup IF u = t THEN {} ELSE
           {<<msai[j].affinity, h>> : j \in {k \in DOMAIN msai : msai[k].type = u}}]
      /\ centerpoint' = [u \in Types |-> centerpoint[u] + Share(msai, u)]
      /\ UNCHANGED <<dexit, curr, tokill_list, disp>>
  BY <1>1, <1>2, Zenon DEF AddJob
<1> HIDE DEF msai
<1>9. Enters(h, e)
  <2>1. h \notin DOMAIN se
    BY <1>3, <1>4 DEF Typed
  <2>2. /\ DOMAIN se' = DOMAIN se \cup {h} /\ se'[h] = e
        /\ \A g \in DOMAIN se : se'[g] = se[g]
    BY <1>8, <2>1 DEF Insert
  <2> QED BY <2>1, <2>2 DEF Enters
<1>10. /\ DOMAIN se' = DOMAIN se \cup {h} /\ h \notin DOMAIN se /\ se'[h] = e
       /\ \A g \in DOMAIN se : se'[g] = se[g]
  BY <1>9 DEF Enters
<1>11. /\ e.msai = msai /\ e.mq = t /\ e.rq = i /\ e.mode = IDLE
       /\ e \in Entity
  BY <1>4, <1>5, <1>7 DEF Entity, JobList
<1> HIDE DEF e, q
<1>12. CountersMatchTrees'
  BY <1>7, <1>8, <1>9, <1>11, EntersKeepsCounters
<1>13. ASSUME NEW u \in Types
       PROVE  /\ best_to_push'[u] =
                   best_to_push[u] \cup IF u = t THEN {<<AffinityOf(msai, u), h>>} ELSE {}
              /\ best_to_pull'[u] =
                   best_to_pull[u] \cup IF u # t /\ Implements(msai, u)
                                        THEN {<<AffinityOf(msai, u), h>>} ELSE {}
  <2>1. best_to_push \in [Types -> SUBSET AffinityEntry]
    BY <1>3 DEF Typed
  <2>2. best_to_push'[u] = best_to_push[u] \cup IF u = t THEN {<<AffinityOf(msai, u), h>>} ELSE {}
    BY <1>5, <1>8, <2>1
  <2>3. best_to_pull'[u] = best_to_pull[u] \cup IF u = t THEN {} ELSE
          {<<msai[j].affinity, h>> : j \in {k \in DOMAIN msai : msai[k].type = u}}
    BY <1>8
  <2>4. {<<msai[j].affinity, h>> : j \in {k \in DOMAIN msai : msai[k].type = u}}
          = IF Implements(msai, u) THEN {<<AffinityOf(msai, u), h>>} ELSE {}
    BY <1>4, EntriesAre
  <2> QED BY <2>2, <2>3, <2>4
<1>14. ListsMatchPlaces'
  BY <1>4, <1>5, <1>9, <1>11, <1>13, EntersKeepsLists
<1>15. \A g \in DOMAIN se : QueueOf(g)' = QueueOf(g)
  BY <1>10 DEF QueueOf
<1>16. Entities'
  <2> SUFFICES ASSUME NEW g \in DOMAIN se'
               PROVE  /\ se'[g] \in Entity /\ JobList(se'[g].msai)
                      /\ QueueOf(g)' \in Queues /\ Implements(se'[g].msai, se'[g].mq)
    BY Zenon DEF Entities
  <2>1. CASE g = h
    <3>1. QueueOf(g)' = q
      BY <1>10, <1>11, <2>1 DEF QueueOf, q
    <3> QED BY <1>4, <1>5, <1>7, <1>10, <1>11, <2>1, <3>1
  <2>2. CASE g \in DOMAIN se
    BY <1>3, <1>10, <1>15, <2>2 DEF Entities
  <2> QED BY <1>10, <2>1, <2>2
<1>17. Typed'
  <2>1. /\ tree \in [Queues -> SUBSET Handles] /\ length \in [Queues -> Int]
        /\ nof_all \in [Types -> Int] /\ centerpoint \in [Types -> Int]
        /\ best_to_push \in [Types -> SUBSET AffinityEntry]
        /\ best_to_pull \in [Types -> SUBSET AffinityEntry]
    BY <1>3 DEF Typed
  <2>2. tree' \in [Queues -> SUBSET Handles]
    BY <1>8, <2>1
  <2>3. length' \in [Queues -> Int] /\ nof_all' \in [Types -> Int]
    <3>1. length' \in [Queues -> Int]
      BY <1>7, <1>8, <2>1
    <3>2. nof_all' \in [Types -> Int]
      BY <1>5, <1>8, <2>1
    <3> QED BY <3>1, <3>2
  <2>4. \A u : Implements(msai, u) => <<AffinityOf(msai, u), h>> \in AffinityEntry
    BY <1>4, AffinityType DEF AffinityEntry
  <2>5. best_to_push' \in [Types -> SUBSET AffinityEntry]
    BY <1>5, <1>8, <2>1, <2>4
  <2>6. best_to_pull' \in [Types -> SUBSET AffinityEntry]
    <3>1. \A u \in Types : best_to_pull'[u] \in SUBSET AffinityEntry
      BY <1>13, <2>1, <2>4
    <3>2. best_to_pull' = [u \in Types |-> best_to_pull'[u]]
      BY <1>8
    <3> QED BY <3>1, <3>2
  <2>7. centerpoint' \in [Types -> Int]
    BY <1>4, <1>8, <2>1, ShareType
  <2>8. /\ arrived' \subseteq Handles /\ DOMAIN se' \subseteq arrived'
        /\ tokill_list' \subseteq DOMAIN se'
    BY <1>3, <1>8, <1>10 DEF Typed
  <2> QED BY <1>3, <1>8, <2>2, <2>3, <2>5, <2>6, <2>7, <2>8 DEF Typed
<1>18. ASSUME NEW r \in Queues, curr'[r] # NoJob PROVE curr'[r] \in tree'[r]
  <2>1. tree[r] \subseteq tree'[r] /\ curr'[r] = curr[r]
    BY <1>3, <1>7, <1>8 DEF Typed
  <2> QED BY <1>3, <1>18, <2>1 DEF CurrentInv
<1>19. ASSUME NEW g \in DOMAIN se', se'[g].mode # IDLE
       PROVE  curr'[QueueOf(g)'] = g /\ se'[g].mode = se'[g].mq
  <2>1. g \in DOMAIN se
    BY <1>10, <1>11, <1>19
  <2> QED BY <1>3, <1>8, <1>10, <1>15, <1>19, <2>1 DEF CurrentInv
<1>20. disp' # NoQueue => curr'[disp'] # NoJob /\ se'[curr'[disp']].mode = IDLE
  <2> SUFFICES ASSUME disp # NoQueue PROVE curr[disp] # NoJob /\ se'[curr[disp]].mode = IDLE
    BY <1>8
  <2>1. curr[disp] # NoJob /\ se[curr[disp]].mode = IDLE /\ disp \in Queues
    BY <1>3 DEF CurrentInv, Typed
  <2>2. curr[disp] \in DOMAIN se
    BY <2>1, CurrentIs
  <2> QED BY <1>10, <2>1, <2>2
<1>21. CurrentInv'
  BY <1>18, <1>19, <1>20 DEF CurrentInv
<1> QED BY <1>10, <1>12, <1>14, <1>16, <1>17, <1>21 DEF DataInv

\* Job h goes away.
Leaves(h) == /\ h \in DOMAIN se /\ DOMAIN se' = DOMAIN se \ {h}
             /\ \A g \in DOMAIN se \ {h} : se'[g] = se[g]

LEMMA LeavesKeepsCounters ==
  ASSUME DataInv, NEW h, Leaves(h), NEW q \in Queues, q = QueueOf(h),
         tree' = [tree EXCEPT ![q] = @ \ {h}], length' = [length EXCEPT ![q] = @ - 1],
         nof_all' = [nof_all EXCEPT ![q[1]] = @ - 1]
  PROVE  CountersMatchTrees'
<1>1. Typed /\ q[1] \in Types /\ se[h].mq = q[1]
  BY QueueFacts DEF DataInv, QueueOf
<1>2. /\ h \in DOMAIN se /\ DOMAIN se' = DOMAIN se \ {h} /\ QueueOf(h) = q
      /\ \A g \in DOMAIN se \ {h} : se'[g] = se[g] /\ QueueOf(g)' = QueueOf(g)
  BY DEF Leaves, QueueOf
<1>3. \A r \in Queues : /\ tree[r] = {g \in DOMAIN se : QueueOf(g) = r}
                        /\ length[r] = Cardinality(tree[r])
                        /\ IsFiniteSet(tree[r]) /\ Cardinality(tree[r]) \in Nat
  BY <1>1, CountedFinite DEF DataInv, CountersMatchTrees
<1>4. /\ tree'[q] = tree[q] \ {h} /\ \A r \in Queues \ {q} : tree'[r] = tree[r]
      /\ length'[q] = length[q] - 1 /\ \A r \in Queues \ {q} : length'[r] = length[r]
      /\ nof_all'[q[1]] = nof_all[q[1]] - 1
      /\ \A t \in Types \ {q[1]} : nof_all'[t] = nof_all[t]
  BY <1>1 DEF Typed
<1>5. ASSUME NEW r \in Queues
      PROVE  tree'[r] = {g \in DOMAIN se' : QueueOf(g)' = r} /\ length'[r] = Cardinality(tree'[r])
  <2>1. tree'[r] = {g \in DOMAIN se' : QueueOf(g)' = r}
    <3> SUFFICES ASSUME NEW g PROVE g \in tree'[r] <=> g \in DOMAIN se' /\ QueueOf(g)' = r
      OBVIOUS
    <3>1. g \in tree[r] <=> g \in DOMAIN se /\ QueueOf(g) = r
      BY <1>3
    <3>2. g \in tree'[r] <=> g \in tree[r] /\ ~(r = q /\ g = h)
      BY <1>4
    <3>3. CASE g = h
      BY <1>2, <3>1, <3>2, <3>3
    <3>4. CASE g # h
      BY <1>2, <3>1, <3>2, <3>4
    <3> QED BY <3>3, <3>4
  <2>2. CASE r = q
    <3>1. h \in tree[q]
      BY <1>2, <1>3
    <3>2. Cardinality(tree[q] \ {h}) = Cardinality(tree[q]) - 1
      BY <1>3, <3>1, FS_RemoveElement
    <3> QED BY <1>3, <1>4, <2>1, <2>2, <3>2
  <2>3. CASE r # q
    BY <1>3, <1>4, <2>1, <2>3
  <2> QED BY <2>2, <2>3
<1>6. ASSUME NEW t \in Types
      PROVE  nof_all'[t] = Cardinality({g \in DOMAIN se' : se'[g].mq = t})
  <2> DEFINE A == {g \in DOMAIN se : se[g].mq = t}
             B == {g \in DOMAIN se' : se'[g].mq = t}
  <2>1. nof_all[t] = Cardinality(A) /\ IsFiniteSet(A)
    BY <1>1, CountedFinite DEF DataInv, CountersMatchTrees
  <2>2. CASE t = q[1]
    <3>1. B = A \ {h} /\ h \in A
      BY <1>1, <1>2, <2>2
    <3>2. Cardinality(B) = Cardinality(A) - 1
      BY <2>1, <3>1, FS_RemoveElement
    <3> QED BY <1>4, <2>1, <2>2, <3>2
  <2>3. CASE t # q[1]
    <3>1. B = A
      BY <1>1, <1>2, <2>3
    <3> QED BY <1>4, <2>1, <2>3, <3>1
  <2> QED BY <2>2, <2>3
<1> QED BY <1>5, <1>6, Zenon DEF CountersMatchTrees

LEMMA LeavesKeepsLists ==
  ASSUME DataInv, NEW h, Leaves(h),
         \A t \in Types : best_to_push'[t] =
           best_to_push[t] \ IF t = se[h].mq THEN {<<AffinityOf(se[h].msai, t), h>>} ELSE {},
         \A t \in Types : best_to_pull'[t] =
           best_to_pull[t] \ IF Implements(se[h].msai, t)
                             THEN {<<AffinityOf(se[h].msai, t), h>>} ELSE {}
  PROVE  ListsMatchPlaces'
<1>1. /\ h \in DOMAIN se /\ DOMAIN se' = DOMAIN se \ {h} /\ \A g \in DOMAIN se \ {h} : se'[g] = se[g]
      /\ Implements(se[h].msai, se[h].mq)
  BY DEF Leaves, DataInv, Entities
<1>2. ASSUME NEW t \in Types PROVE ListsOf(t)'
  <2> DEFINE e == <<AffinityOf(se[h].msai, t), h>>
  <2>1. best_to_push[t] = EntriesOf(PushJobs(t), t) /\ best_to_pull[t] = EntriesOf(PullJobs(t), t)
    BY ListsAre DEF DataInv, AllLists, ListsOf
  <2>2. /\ PushJobs(t)' = PushJobs(t) \ {h} /\ PullJobs(t)' = PullJobs(t) \ {h}
        /\ h \in PushJobs(t) => t = se[h].mq
        /\ h \in PullJobs(t) => Implements(se[h].msai, t)
        /\ PushJobs(t) \in SUBSET DOMAIN se /\ PullJobs(t) \in SUBSET DOMAIN se
    BY <1>1 DEF PushJobs, PullJobs
  <2>3. ASSUME NEW S \in SUBSET DOMAIN se
        PROVE  /\ {<<AffinityOf(se'[g].msai, t), g>> : g \in S \ {h}} = EntriesOf(S, t) \ {e}
               /\ h \notin S => EntriesOf(S, t) = EntriesOf(S, t) \ {e}
    <3>1. {<<AffinityOf(se'[g].msai, t), g>> : g \in S \ {h}} = EntriesOf(S \ {h}, t)
      BY <1>1 DEF EntriesOf
    <3>2. EntriesOf(S \ {h}, t) = EntriesOf(S, t) \ {e}
      BY DEF EntriesOf
    <3>3. h \notin S => S \ {h} = S
      OBVIOUS
    <3> QED BY <3>1, <3>2, <3>3
  <2> HIDE DEF e
  <2>4. EntriesOf(PushJobs(t), t)' = best_to_push'[t]
    <3>1. EntriesOf(PushJobs(t), t)' = {<<AffinityOf(se'[g].msai, t), g>> : g \in PushJobs(t)'}
      BY DEF EntriesOf
    <3>2. EntriesOf(PushJobs(t), t)' = best_to_push[t] \ {e}
      BY <2>1, <2>2, <2>3, <3>1
    <3>3. CASE t = se[h].mq
      BY <3>2, <3>3 DEF e
    <3>4. CASE t # se[h].mq
      <4>1. best_to_push'[t] = best_to_push[t]
        BY <3>4
      <4> QED BY <2>1, <2>2, <2>3, <3>2, <3>4, <4>1
    <3> QED BY <3>3, <3>4
  <2>5. EntriesOf(PullJobs(t), t)' = best_to_pull'[t]
    <3>1. EntriesOf(PullJobs(t), t)' = {<<AffinityOf(se'[g].msai, t), g>> : g \in PullJobs(t)'}
      BY DEF EntriesOf
    <3>2. EntriesOf(PullJobs(t), t)' = best_to_pull[t] \ {e}
      BY <2>1, <2>2, <2>3, <3>1
    <3>3. CASE Implements(se[h].msai, t)
      BY <3>2, <3>3 DEF e
    <3>4. CASE ~Implements(se[h].msai, t)
      <4>1. best_to_pull'[t] = best_to_pull[t]
        BY <3>4
      <4> QED BY <2>1, <2>2, <2>3, <3>2, <3>4, <4>1
    <3> QED BY <3>3, <3>4
  <2> QED BY <2>4, <2>5 DEF ListsOf
<1> QED BY <1>2, ListsAreNext DEF AllLists

\* The job that is removed, and where it is.
LEMMA KilledIs ==
  ASSUME DataInv, tokill_list # {}
  PROVE  LET h == Min(tokill_list)
         IN  /\ h \in DOMAIN se /\ QueueOf(h) \in Queues /\ QueueOf(h)[1] = se[h].mq
             /\ h \in tree[QueueOf(h)] /\ se[h].mq \in Types
<1> DEFINE h == Min(tokill_list)
<1>1. h \in DOMAIN se
  <2>1. tokill_list \in SUBSET Nat /\ tokill_list \subseteq DOMAIN se
    BY HandleFacts DEF DataInv, Typed
  <2> QED BY <2>1, MinIs
<1> HIDE DEF h
<1>2. QueueOf(h) \in Queues /\ se[h] \in Entity
  BY <1>1 DEF DataInv, Entities
<1>3. h \in tree[QueueOf(h)]
  BY <1>1, <1>2 DEF DataInv, CountersMatchTrees
<1> QED BY <1>1, <1>2, <1>3 DEF h, QueueOf, Entity

LEMMA RemoveKeepsData ==
  ASSUME DataInv, RemoveJob
  PROVE  DataInv' /\ \A g \in DOMAIN se' : g \in DOMAIN se /\ se'[g] = se[g]
<1>1. PICK h : h = Min(tokill_list)
  OBVIOUS
<1>2. PICK q : q = QueueOf(h)
  OBVIOUS
<1> DEFINE msai == se[h].msai
<1>3. Typed /\ Entities /\ CountersMatchTrees /\ ListsMatchPlaces /\ CurrentInv
  BY DEF DataInv
<1>4. /\ tokill_list # {} /\ curr[q] # h
      /\ tree' = [tree EXCEPT ![q] = @ \ {h}]
      /\ length' = [length EXCEPT ![q] = @ - 1]
      /\ nof_all' = [nof_all EXCEPT ![q[1]] = @ - 1]
      /\ best_to_push' = [best_to_push EXCEPT ![q[1]] = @ \ {<<AffinityOf(msai, q[1]), h>>}]
      /\ best_to_pull' = [t \in Types |-> best_to_pull[t]
           \ {<<msai[i].affinity, h>> : i \in {j \in DOMAIN msai : msai[j].type = t}}]
      /\ centerpoint' = [t \in Types |-> centerpoint[t] - Share(msai, t)]
      /\ se' = Erase(se, h)
      /\ tokill_list' = tokill_list \ {h}
      /\ UNCHANGED <<dexit, curr, arrived, main, disp>>
  BY <1>1, <1>2, Zenon DEF RemoveJob
<1>5. h \in DOMAIN se /\ q \in Queues /\ q[1] = se[h].mq /\ h \in tree[q] /\ se[h].mq \in Types
  BY <1>1, <1>2, <1>4, KilledIs
<1>6. JobList(msai) /\ Implements(msai, se[h].mq)
  BY <1>3, <1>5 DEF Entities
<1> HIDE DEF msai
<1>7. /\ Leaves(h) /\ DOMAIN se' = DOMAIN se \ {h}
      /\ \A g \in DOMAIN se \ {h} : se'[g] = se[g] /\ QueueOf(g)' = QueueOf(g)
  <2>1. DOMAIN se' = DOMAIN se \ {h} /\ \A g \in DOMAIN se \ {h} : se'[g] = se[g]
    BY <1>4 DEF Erase
  <2> QED BY <1>5, <2>1 DEF Leaves, QueueOf
<1>8. CountersMatchTrees'
  BY <1>2, <1>4, <1>5, <1>7, LeavesKeepsCounters
<1>9. ASSUME NEW t \in Types
      PROVE  /\ best_to_push'[t] =
                   best_to_push[t] \ IF t = se[h].mq THEN {<<AffinityOf(msai, t), h>>} ELSE {}
             /\ best_to_pull'[t] =
                   best_to_pull[t] \ IF Implements(msai, t) THEN {<<AffinityOf(msai, t), h>>} ELSE {}
  <2>1. best_to_push \in [Types -> SUBSET AffinityEntry]
    BY <1>3 DEF Typed
  <2>2. best_to_push'[t] = best_to_push[t] \ IF t = se[h].mq THEN {<<AffinityOf(msai, t), h>>} ELSE {}
    BY <1>4, <1>5, <2>1
  <2>3. best_to_pull'[t] = best_to_pull[t]
           \ {<<msai[i].affinity, h>> : i \in {j \in DOMAIN msai : msai[j].type = t}}
    BY <1>4
  <2>4. {<<msai[i].affinity, h>> : i \in {j \in DOMAIN msai : msai[j].type = t}}
          = IF Implements(msai, t) THEN {<<AffinityOf(msai, t), h>>} ELSE {}
    BY <1>6, EntriesAre
  <2> QED BY <2>2, <2>3, <2>4
<1>10. ListsMatchPlaces'
  BY <1>7, <1>9, LeavesKeepsLists DEF msai
<1>11. Entities'
  <2> SUFFICES ASSUME NEW g \in DOMAIN se'
               PROVE  /\ se'[g] \in Entity /\ JobList(se'[g].msai)
                      /\ QueueOf(g)' \in Queues /\ Implements(se'[g].msai, se'[g].mq)
    BY Zenon DEF Entities
  <2> QED BY <1>3, <1>7 DEF Entities
<1>12. Typed'
  <2>1. /\ tree \in [Queues -> SUBSET Handles] /\ length \in [Queues -> Int]
        /\ nof_all \in [Types -> Int] /\ centerpoint \in [Types -> Int]
        /\ best_to_push \in [Types -> SUBSET AffinityEntry]
        /\ best_to_pull \in [Types -> SUBSET AffinityEntry]
    BY <1>3 DEF Typed
  <2>2. tree' \in [Queues -> SUBSET Handles]
    BY <1>4, <2>1
  <2>3. length' \in [Queues -> Int]
    BY <1>4, <1>5, <2>1
  <2>4. nof_all' \in [Types -> Int]
    BY <1>4, <1>5, <2>1
  <2>5. best_to_push' \in [Types -> SUBSET AffinityEntry]
    BY <1>4, <1>5, <2>1
  <2>6. best_to_pull' \in [Types -> SUBSET AffinityEntry]
    BY <1>4, <2>1
  <2>7. centerpoint' \in [Types -> Int]
    BY <1>4, <1>6, <2>1, ShareType
  <2>8. /\ arrived' \subseteq Handles /\ DOMAIN se' \subseteq arrived'
        /\ tokill_list' \subseteq DOMAIN se'
    BY <1>3, <1>4, <1>7 DEF Typed
  <2> QED BY <1>3, <1>4, <2>2, <2>3, <2>4, <2>5, <2>6, <2>7, <2>8 DEF Typed
<1>13. ASSUME NEW r \in Queues, curr'[r] # NoJob PROVE curr'[r] \in tree'[r]
  <2>1. curr[r] \in tree[r] /\ curr'[r] = curr[r]
    BY <1>3, <1>4, <1>13 DEF CurrentInv
  <2>2. curr[r] # h
    <3>1. QueueOf(curr[r]) = r
      BY <1>4, <1>13, CurrentIs
    <3> QED BY <1>2, <1>4, <3>1
  <2>3. tree[r] \ {h} \subseteq tree'[r]
    BY <1>3, <1>4 DEF Typed
  <2> QED BY <2>1, <2>2, <2>3
<1>14. ASSUME NEW g \in DOMAIN se', se'[g].mode # IDLE
       PROVE  curr'[QueueOf(g)'] = g /\ se'[g].mode = se'[g].mq
  <2>1. g \in DOMAIN se \ {h}
    BY <1>7
  <2> QED BY <1>3, <1>4, <1>7, <1>14, <2>1 DEF CurrentInv
<1>15. disp' # NoQueue => curr'[disp'] # NoJob /\ se'[curr'[disp']].mode = IDLE
  <2> SUFFICES ASSUME disp # NoQueue PROVE curr[disp] # NoJob /\ se'[curr[disp]].mode = IDLE
    BY <1>4
  <2>1. curr[disp] # NoJob /\ se[curr[disp]].mode = IDLE /\ disp \in Queues
    BY <1>3 DEF CurrentInv, Typed
  <2>2. curr[disp] \in DOMAIN se /\ QueueOf(curr[disp]) = disp
    BY <2>1, CurrentIs
  <2>3. curr[disp] # h
    BY <1>2, <1>4, <2>2
  <2> QED BY <1>7, <2>1, <2>2, <2>3
<1>16. CurrentInv'
  BY <1>13, <1>14, <1>15 DEF CurrentInv
<1> QED BY <1>7, <1>8, <1>10, <1>11, <1>12, <1>16 DEF DataInv

--------------------------------------------------------------------------------
(* The main thread.  What load_balancing knows of the lists while it works.  *)

mainVars == <<dexit, se, queueVars, curr, listVars, centerpoint, tokill_list, arrived, disp>>

\* What a step has to do: keep the invariant, leave the place of a job that has an
\* accelerator alone, and start a new job on the best type for it.
KeepsRunning ==
  \A h \in DOMAIN se \cap DOMAIN se' :
    se[h].mode # IDLE => se'[h].mq = se[h].mq /\ se'[h].rq = se[h].rq

StartsAtBest ==
  \A h \in DOMAIN se' \ DOMAIN se :
    \A i \in Active(se'[h].msai) :
      se'[h].msai[i].affinity <= AffinityOf(se'[h].msai, se'[h].mq)

RightStep == DataInv' /\ MainInv' /\ KeepsRunning /\ StartsAtBest

LEMMA QuietKeepsMain ==
  ASSUME NEW pc \in {"poll", "newtick", "tick", "pull", "retick", "push", "remove"},
         NEW mqs \in SUBSET Types, main' = [Quiet(pc) EXCEPT !.mqs = mqs]
  PROVE  MainInv'
<1>1. PICK m : m = main'
  OBVIOUS
<1>2. m = [pc |-> pc, mqs |-> mqs, rqs |-> {}, at |-> NoQueue, tries |-> {},
           min |-> 0, left |-> 0, targets |-> {}]
  BY <1>1 DEF Quiet
<1>3. m \in MainState
  BY <1>2, SMT DEF MainState
<1>4. m.rqs = {} /\ m.tries = {} /\ m.targets = {}
  BY <1>2
<1> QED BY <1>1, <1>3, <1>4 DEF MainInv, PullInv, PushInv

\* Outside of pull and push the main thread has no reading to rely on.
LEMMA OutsideKeepsMain ==
  ASSUME main' \in MainState, main'.pc \notin {"pull", "push"}
  PROVE  MainInv'
BY DEF MainInv, PullInv, PushInv

\* The job that is next in the pull list, and the one next in the push list.
LEMMA PullTryIs ==
  ASSUME DataInv, MainInv, main.pc = "pull", main.tries # {},
         NEW e, e = Highest(main.tries)
  PROVE  /\ e \in main.tries /\ main.at \in Queues
         /\ e[2] \in DOMAIN se /\ Implements(se[e[2]].msai, main.at[1])
         /\ se[e[2]].mq # main.at[1] /\ MayMove(e[2], main.at)
<1>1. /\ main.at \in Queues /\ main.at[1] \in Types
      /\ main.tries \subseteq best_to_pull[main.at[1]]
  BY QueueFacts DEF MainInv, PullInv
<1> DEFINE t == main.at[1]
<1>2. best_to_pull[t] = EntriesOf(PullJobs(t), t)
  BY <1>1, ListsAre DEF DataInv, AllLists, ListsOf
<1>3. main.tries \in SUBSET AffinityEntry
  BY DEF MainInv, MainState
<1>4. IsFiniteSet(main.tries)
  <2> DEFINE S == PullJobs(t)
             f == [h \in S |-> <<AffinityOf(se[h].msai, t), h>>]
             T == EntriesOf(S, t)
  <2>1. IsFiniteSet(S)
    BY CountedFinite DEF DataInv, PullJobs
  <2>2. f \in Surjection(S, T)
    <3>1. f \in [S -> T]
      BY DEF EntriesOf
    <3>2. \A e2 \in T : \E h \in S : f[h] = e2
      BY DEF EntriesOf
    <3> QED BY <3>1, <3>2 DEF Surjection
  <2>3. IsFiniteSet(T)
    <3> HIDE DEF f, S, T
    <3> QED BY <2>1, <2>2, FS_Surjection
  <2> QED BY <1>1, <1>2, <2>3, FS_Subset
<1>5. e \in main.tries
  BY <1>3, <1>4, HighestIs
<1>6. e[2] \in PullJobs(t)
  BY <1>1, <1>2, <1>5 DEF EntriesOf
<1>7. e[2] \in DOMAIN se /\ Implements(se[e[2]].msai, t) /\ se[e[2]].mq # t
  BY <1>6 DEF PullJobs
<1>8. MayMove(e[2], main.at)
  <2>1. QueueOf(e[2]) # main.at
    BY <1>7 DEF QueueOf
  <2>2. e[2] \notin tree[main.at]
    BY <1>1, <1>7, InTree
  <2> QED BY <1>7, <2>1, <2>2 DEF MayMove
<1> QED BY <1>1, <1>5, <1>7, <1>8

LEMMA PushTryIs ==
  ASSUME DataInv, MainInv, main.pc = "push", main.tries # {},
         NEW e, e = Lowest(main.tries)
  PROVE  /\ e \in main.tries /\ main.at \in Queues /\ main.left > 0
         /\ e[2] \in DOMAIN se /\ se[e[2]].mq = main.at[1]
<1>1. /\ main.at \in Queues /\ main.at[1] \in Types /\ main.left > 0
      /\ main.tries \subseteq best_to_push[main.at[1]]
  BY QueueFacts DEF MainInv, PushInv
<1>2. best_to_push[main.at[1]] = EntriesOf(PushJobs(main.at[1]), main.at[1])
  BY <1>1, ListsAre DEF DataInv, AllLists, ListsOf
<1>3. e \in main.tries
  <2>1. main.tries \in SUBSET AffinityEntry
    BY DEF MainInv, MainState
  <2> QED BY <2>1, LowestIs
<1>4. e[2] \in PushJobs(main.at[1])
  BY <1>1, <1>2, <1>3 DEF EntriesOf
<1> QED BY <1>1, <1>3, <1>4 DEF PushJobs

\* The first type it may be pushed to, and the queue there.
LEMMA FirstTargetIs ==
  ASSUME DataInv, MainInv, main.pc = "push", main.targets # {},
         NEW h, h = Lowest(main.tries)[2], NEW q, q = <<FirstTarget[2], BestRq(FirstTarget[2])>>
  PROVE  /\ main.tries # {} /\ FirstTarget \in main.targets
         /\ h \in DOMAIN se /\ q \in Queues /\ se[h].mq # q[1]
         /\ Implements(se[h].msai, q[1]) /\ MayMove(h, q)
         /\ WithRoom(FirstTarget[2]) # {}
<1>1. main.targets \in SUBSET (Nat \X Types) /\ main.tries # {}
  BY DEF MainInv, MainState, PushInv
<1>2. FirstTarget \in main.targets
  <2> DEFINE I == {r[1] : r \in main.targets}
  <2>1. PICK i \in I : \A j \in I : i <= j
    <3>1. I \in SUBSET Nat /\ I # {}
      BY <1>1
    <3> HIDE DEF I
    <3> QED BY <3>1, LeastNatural
  <2>2. \E p \in main.targets : \A r \in main.targets : p[1] <= r[1]
    BY <2>1
  <2> QED BY <2>2 DEF FirstTarget
<1> DEFINE t == FirstTarget[2]
<1>3. t \in Types /\ TargetOf(h, FirstTarget)
  BY <1>1, <1>2 DEF MainInv, PushInv
<1>4. h \in DOMAIN se /\ se[h].mq = main.at[1]
  BY <1>1, PushTryIs
<1>5. WithRoom(t) # {} /\ BestRq(t) \in Rqs(t)
  BY <1>3, RoomExists DEF DataInv
<1>6. q \in Queues /\ q[1] = t
  BY <1>3, <1>5, QueueFacts
<1>7. se[h].mq # t /\ Implements(se[h].msai, t)
  BY <1>3, <1>4 DEF TargetOf, Implements
<1>8. MayMove(h, q)
  <2>1. QueueOf(h) # q
    BY <1>6, <1>7 DEF QueueOf
  <2>2. h \notin tree[q]
    BY <1>6, <1>7, InTree
  <2> QED BY <1>4, <2>1, <2>2 DEF MayMove
<1> QED BY <1>1, <1>2, <1>4, <1>5, <1>6, <1>7, <1>8

\* The dispatcher leaves alone what load_balancing has read.
LEMMA SamePlacesKeepMain ==
  ASSUME DataInv, MainInv, SamePlaces, UNCHANGED <<listVars, main>>
  PROVE  MainInv'
<1>1. best_to_push' = best_to_push /\ best_to_pull' = best_to_pull /\ main' = main
  BY DEF listVars
<1>2. main' \in MainState
  BY <1>1 DEF MainInv
<1>3. PullInv'
  BY <1>1 DEF MainInv, PullInv
<1>4. PushInv'
  <2> SUFFICES ASSUME main.pc = "push", NEW p \in main.targets
               PROVE  TargetOf(Lowest(main.tries)[2], p)'
    BY <1>1 DEF MainInv, PushInv
  <2>1. PICK h : h = Lowest(main.tries)[2]
    OBVIOUS
  <2>2. TargetOf(h, p) /\ main.tries # {}
    BY <2>1 DEF MainInv, PushInv
  <2>3. h \in DOMAIN se
    BY <2>1, <2>2, PushTryIs
  <2>4. se'[h].msai = se[h].msai
    BY <2>3 DEF SamePlaces
  <2>5. TargetOf(h, p)'
    BY <1>1, <2>2, <2>4 DEF TargetOf
  <2> QED BY <1>1, <2>1, <2>5
<1> QED BY <1>2, <1>3, <1>4 DEF MainInv

--------------------------------------------------------------------------------
(* The steps of the main thread.                                             *)

\* A step that changes nothing but what the main thread knows.
LEMMA MainOnly ==
  ASSUME DataInv, UNCHANGED mainVars, MainInv'
  PROVE  RightStep
<1>1. UNCHANGED dataVars /\ dexit' = dexit /\ se' = se
  BY DEF mainVars, dataVars, queueVars, listVars
<1>2. dexit' \in {"", "add_job", "remove_job"}
  BY <1>1 DEF DataInv, Typed
<1>3. DataInv'
  BY <1>1, <1>2, DataUnchanged
<1>4. KeepsRunning /\ StartsAtBest
  BY <1>1 DEF KeepsRunning, StartsAtBest
<1> QED BY <1>3, <1>4 DEF RightStep

\* A step that ends the daemon for one of the two known reasons.
LEMMA KnownExit ==
  ASSUME DataInv, MainInv, NEW why \in {"add_job", "remove_job"}, Dexit(why)
  PROVE  RightStep
<1>1. UNCHANGED dataVars /\ dexit' = why /\ se' = se
      /\ UNCHANGED <<listVars, main>>
  BY DEF Dexit, dataVars, queueVars, listVars
<1>2. DataInv'
  BY <1>1, DataUnchanged
<1>3. MainInv'
  <2>1. SamePlaces
    BY <1>1 DEF SamePlaces
  <2> QED BY <1>1, <2>1, SamePlacesKeepMain
<1>4. KeepsRunning /\ StartsAtBest
  BY <1>1 DEF KeepsRunning, StartsAtBest
<1> QED BY <1>2, <1>3, <1>4 DEF RightStep

LEMMA QuietSteps ==
  ASSUME DataInv, NoNewReg \/ EndTick \/ EndPull \/ EndPush \/ EndRemove
  PROVE  RightStep
<1>1. UNCHANGED mainVars
  BY DEF NoNewReg, EndTick, EndPull, EndPush, EndRemove, mainVars
<1>2. \E pc \in {"poll", "newtick", "tick", "pull", "retick", "push", "remove"},
        mqs \in SUBSET Types : main' = [Quiet(pc) EXCEPT !.mqs = mqs]
  <2>1. \A pc : Quiet(pc) = [Quiet(pc) EXCEPT !.mqs = {}]
    BY DEF Quiet
  <2>2. CASE EndTick
    <3>1. main' = AfterTick
      BY <2>2 DEF EndTick
    <3>2. main.pc \in {"newtick", "tick", "retick"}
      BY <2>2 DEF EndTick
    <3>3. CASE main.pc = "newtick"
      <4>1. main' = Quiet("poll")
        BY <3>1, <3>3 DEF AfterTick
      <4> QED BY <2>1, <4>1, Zenon
    <3>4. CASE main.pc = "retick"
      <4>1. main' = [Quiet("push") EXCEPT !.mqs = Types]
        BY <3>1, <3>4 DEF AfterTick
      <4> QED BY <4>1, Zenon
    <3>5. CASE main.pc = "tick" /\ Balancing
      <4>1. main' = [Quiet("pull") EXCEPT !.mqs = Types]
        BY <3>1, <3>5 DEF AfterTick
      <4> QED BY <4>1, Zenon
    <3>6. CASE main.pc = "tick" /\ ~Balancing
      <4>1. main' = Quiet("remove")
        BY <3>1, <3>6 DEF AfterTick
      <4> QED BY <2>1, <4>1, Zenon
    <3> QED BY <3>2, <3>3, <3>4, <3>5, <3>6
  <2>3. CASE NoNewReg
    <3>1. main' = Quiet("tick")
      BY <2>3 DEF NoNewReg
    <3> QED BY <2>1, <3>1, Zenon
  <2>4. CASE EndPull
    <3>1. main' = Quiet("retick")
      BY <2>4 DEF EndPull
    <3> QED BY <2>1, <3>1, Zenon
  <2>5. CASE EndPush
    <3>1. main' = Quiet("remove")
      BY <2>5 DEF EndPush
    <3> QED BY <2>1, <3>1, Zenon
  <2>6. CASE EndRemove
    <3>1. main' = Quiet("poll")
      BY <2>6 DEF EndRemove
    <3> QED BY <2>1, <3>1, Zenon
  <2> QED BY <2>2, <2>3, <2>4, <2>5, <2>6
<1>3. MainInv'
  BY <1>2, QuietKeepsMain
<1> QED BY <1>1, <1>3, MainOnly

LEMMA Ceil ==
  ASSUME NEW c \in Int, NEW s \in Nat \ {0}
  PROVE  -((-c) \div s) \in Int
OBVIOUS

LEMMA ExcessType ==
  ASSUME Typed, NEW t \in Types
  PROVE  Excess(t) \in Int
<1>1. Scale \in Nat \ {0} /\ nof_all[t] \in Int /\ centerpoint[t] \in Int
  BY RunQueueAssumption DEF Typed
<1>2. Ceiling(centerpoint[t]) \in Int
  BY <1>1, Ceil DEF Ceiling
<1> QED BY <1>1, <1>2 DEF Excess

LEMMA MinPushType == \A x \in Nat : MinPushAffinity(x) \in Nat
<1> SUFFICES ASSUME NEW x \in Nat PROVE MinPushAffinity(x) \in Nat
  OBVIOUS
<1>1. \A y \in 0..19 : PushCurve[y] \in Nat
  BY DEF PushCurve
<1>2. DOMAIN PushCurve = 0..19 /\ 19 \in 0..19
  BY DEF PushCurve
<1> QED BY <1>1, <1>2 DEF MinPushAffinity

\* The mq that load_balancing looks at next.
LEMMA NextMq ==
  ASSUME MainInv, main.mqs # {}, NEW t, t = Min(main.mqs)
  PROVE  t \in Types /\ <<t, Min(Rqs(t))>> \in Queues
<1>1. t \in main.mqs /\ main.mqs \in SUBSET Types
  <2>1. main.mqs \in SUBSET Types /\ main.mqs \in SUBSET Nat
    BY QueueFacts DEF MainInv, MainState
  <2> QED BY <2>1, MinIs
<1>2. Min(Rqs(t)) \in Rqs(t)
  <2>1. Rqs(t) \in SUBSET Nat /\ Rqs(t) # {}
    BY <1>1, QueueFacts
  <2> QED BY <2>1, MinIs
<1> QED BY <1>1, <1>2, QueueFacts

LEMMA PullMqStep ==
  ASSUME DataInv, MainInv, PullMq
  PROVE  RightStep
<1>1. PICK t : t = Min(main.mqs)
  OBVIOUS
<1>2. PICK q : q = <<t, Min(Rqs(t))>>
  OBVIOUS
<1>3. PICK rqs : rqs = IF HasEmptyRq(t) THEN Rqs(t) ELSE {}
  OBVIOUS
<1>4. /\ main.pc = "pull" /\ main.mqs # {} /\ main.tries = {} /\ UNCHANGED mainVars
      /\ main' = [main EXCEPT !.mqs = @ \ {t}, !.at = q, !.rqs = rqs]
  BY <1>1, <1>2, <1>3 DEF PullMq, mainVars
<1>5. t \in Types /\ q \in Queues /\ q[1] = t /\ rqs \subseteq Rqs(t) /\ rqs \in SUBSET (0..9)
  BY <1>1, <1>2, <1>3, <1>4, NextMq, QueueFacts
<1>6. main \in MainState
  BY DEF MainInv
<1>7. main' \in MainState
  BY <1>4, <1>5, <1>6 DEF MainState
<1>8. main'.pc = "pull" /\ main'.tries = {} /\ main'.at = q /\ main'.rqs = rqs
  BY <1>4, <1>6 DEF MainState
<1>9. MainInv'
  BY <1>5, <1>7, <1>8 DEF MainInv, PullInv, PushInv
<1> QED BY <1>4, <1>9, MainOnly

LEMMA PullRqStep ==
  ASSUME DataInv, MainInv, PullRq
  PROVE  RightStep
<1>1. PICK q : q = <<main.at[1], Min(main.rqs)>>
  OBVIOUS
<1>2. PICK tries : tries = IF length[q] = 0 THEN best_to_pull[q[1]] ELSE {}
  OBVIOUS
<1>3. /\ main.pc = "pull" /\ main.rqs # {} /\ UNCHANGED mainVars
      /\ main' = [main EXCEPT !.rqs = @ \ {q[2]}, !.at = q, !.tries = tries]
  BY <1>1, <1>2 DEF PullRq, mainVars
<1>4. main \in MainState /\ main.at \in Queues /\ main.rqs \subseteq Rqs(main.at[1])
  BY <1>3 DEF MainInv, PullInv
<1>5. q \in Queues /\ q[1] = main.at[1] /\ q[1] \in Types
  <2>1. Min(main.rqs) \in main.rqs
    <3>1. main.rqs \in SUBSET Nat
      BY <1>4, QueueFacts
    <3> QED BY <1>3, <3>1, MinIs
  <2> QED BY <1>1, <1>4, <2>1, QueueFacts
<1>6. tries \subseteq best_to_pull[q[1]] /\ tries \in SUBSET AffinityEntry
  BY <1>2, <1>5 DEF DataInv, Typed
<1>7. main' \in MainState
  BY <1>3, <1>4, <1>5, <1>6 DEF MainState
<1>8. /\ main'.pc = "pull" /\ main'.tries = tries /\ main'.at = q
      /\ main'.rqs = main.rqs \ {q[2]} /\ best_to_pull' = best_to_pull
  BY <1>3, <1>4 DEF MainState, mainVars, listVars
<1>9. MainInv'
  BY <1>4, <1>5, <1>6, <1>7, <1>8 DEF MainInv, PullInv, PushInv
<1> QED BY <1>3, <1>9, MainOnly

\* A job that load_balancing moves is in its old queue when it is moved, and
\* nobody runs it.
LEMMA MoveStep ==
  ASSUME DataInv, NEW h \in DOMAIN se, NEW q \in Queues, Implements(se[h].msai, q[1]),
         se[h].mq # q[1], Movable(h), MoveToRq(h, q), MainInv',
         UNCHANGED <<dexit, curr, centerpoint, tokill_list, arrived, disp>>
  PROVE  RightStep
<1>1. /\ DataInv' /\ DOMAIN se' = DOMAIN se
      /\ \A g \in DOMAIN se : se[g].mode # IDLE => se'[g] = se[g]
  BY MoveKeepsData
<1>2. KeepsRunning /\ StartsAtBest
  BY <1>1 DEF KeepsRunning, StartsAtBest
<1> QED BY <1>1, <1>2 DEF RightStep

LEMMA PullTryStep ==
  ASSUME DataInv, MainInv, PullTry
  PROVE  RightStep
<1>1. PICK e : e = Highest(main.tries)
  OBVIOUS
<1>2. PICK h : h = e[2]
  OBVIOUS
<1>3. main.pc = "pull" /\ main.tries # {} /\ main \in MainState
  BY DEF PullTry, MainInv
<1>4. /\ e \in main.tries /\ main.at \in Queues /\ h \in DOMAIN se
      /\ Implements(se[h].msai, main.at[1]) /\ se[h].mq # main.at[1] /\ MayMove(h, main.at)
  BY <1>1, <1>2, <1>3, PullTryIs
<1>5. ASSUME NEW S \in SUBSET main.tries, main' = [main EXCEPT !.tries = S],
             S # {} => UNCHANGED listVars
      PROVE  MainInv'
  <2>1. main' \in MainState
    BY <1>3, <1>5 DEF MainState
  <2>2. main'.pc = "pull" /\ main'.tries = S /\ main'.at = main.at /\ main'.rqs = main.rqs
    BY <1>3, <1>5 DEF MainState
  <2>3. /\ main.rqs \subseteq Rqs(main.at[1]) /\ main.tries \subseteq best_to_pull[main.at[1]]
    BY <1>3 DEF MainInv, PullInv
  <2>4. S \subseteq best_to_pull'[main.at[1]]
    BY <1>5, <2>3 DEF listVars
  <2> QED BY <1>4, <2>1, <2>2, <2>3, <2>4 DEF MainInv, PullInv, PushInv
<1>6. CASE /\ MayMove(h, main.at) /\ Movable(h) /\ MoveToRq(h, main.at)
           /\ main' = [main EXCEPT !.tries = {}]
           /\ UNCHANGED <<dexit, curr, centerpoint, tokill_list, arrived, disp>>
  <2>1. MainInv'
    BY <1>5, <1>6
  <2> QED BY <1>4, <1>6, <2>1, MoveStep
<1>7. CASE main' = [main EXCEPT !.tries = @ \ {e}] /\ UNCHANGED mainVars
  <2>1. main' = [main EXCEPT !.tries = main.tries \ {e}] /\ UNCHANGED listVars
    BY <1>7 DEF mainVars
  <2>2. MainInv'
    BY <1>5, <2>1
  <2> QED BY <1>7, <2>2, MainOnly
<1>8. ~MoveFails(h, main.at)
  BY <1>4 DEF MoveFails, MayMove
<1> QED BY <1>1, <1>2, <1>6, <1>7, <1>8 DEF PullTry, mainVars

LEMMA PushMqStep ==
  ASSUME DataInv, MainInv, PushMq
  PROVE  RightStep
<1>1. PICK t : t = Min(main.mqs)
  OBVIOUS
<1>2. PICK q : q = <<t, Min(Rqs(t))>>
  OBVIOUS
<1>3. PICK x : x = Excess(t)
  OBVIOUS
<1>4. /\ main.pc = "push" /\ main.mqs # {} /\ main.tries = {} /\ UNCHANGED mainVars
      /\ main' = IF MustPush(t)
                 THEN [[main EXCEPT !.mqs = @ \ {t}, !.at = q]
                         EXCEPT !.tries = best_to_push[t], !.min = MinPushAffinity(x), !.left = x]
                 ELSE [main EXCEPT !.mqs = @ \ {t}, !.at = q]
  BY <1>1, <1>2, <1>3 DEF PushMq, mainVars
<1>5. t \in Types /\ q \in Queues /\ q[1] = t
  BY <1>1, <1>2, <1>4, NextMq
<1>6. main \in MainState /\ main.targets = {}
  BY <1>4 DEF MainInv, PushInv
<1>7. CASE MustPush(t)
  <2>1. x \in Nat /\ x > 0
    <3>1. x \in Int /\ x > 0
      BY <1>3, <1>5, <1>7, ExcessType DEF MustPush, DataInv
    <3> QED BY <3>1
  <2>2. MinPushAffinity(x) \in Nat /\ best_to_push[t] \in SUBSET AffinityEntry
    BY <1>5, <2>1, MinPushType DEF DataInv, Typed
  <2>3. main' = [main EXCEPT !.mqs = @ \ {t}, !.at = q, !.tries = best_to_push[t],
                             !.min = MinPushAffinity(x), !.left = x]
    BY <1>4, <1>6, <1>7 DEF MainState
  <2>4. main' \in MainState
    BY <1>5, <1>6, <2>1, <2>2, <2>3 DEF MainState
  <2>5. /\ main'.pc = "push" /\ main'.at = q /\ main'.tries = best_to_push[t]
        /\ main'.left = x /\ main'.targets = {} /\ best_to_push' = best_to_push
    BY <1>4, <1>6, <2>3 DEF MainState, mainVars, listVars
  <2>6. MainInv'
    BY <1>5, <2>1, <2>4, <2>5 DEF MainInv, PullInv, PushInv
  <2> QED BY <1>4, <2>6, MainOnly
<1>8. CASE ~MustPush(t)
  <2>1. main' = [main EXCEPT !.mqs = @ \ {t}, !.at = q]
    BY <1>4, <1>8
  <2>2. main' \in MainState
    BY <1>5, <1>6, <2>1 DEF MainState
  <2>3. main'.pc = "push" /\ main'.tries = {} /\ main'.targets = {}
    BY <1>4, <1>6, <2>1 DEF MainState
  <2>4. MainInv'
    BY <2>2, <2>3 DEF MainInv, PullInv, PushInv
  <2> QED BY <1>4, <2>4, MainOnly
<1> QED BY <1>7, <1>8

\* On to the next job of the list: it was read from the list as well.
LEMMA NextTryKeepsMain ==
  ASSUME DataInv, MainInv, main.pc = "push", main.tries # {},
         NEW e, main' = NextTry(e), UNCHANGED mainVars
  PROVE  MainInv'
<1>1. main \in MainState /\ main.left \in Nat /\ main.left > 0 /\ main.at \in Queues
      /\ main.tries \subseteq best_to_push[main.at[1]]
  BY DEF MainInv, PushInv, MainState
<1>2. PICK S : S = IF main.left = 1 THEN {} ELSE main.tries \ {e}
  OBVIOUS
<1>3. main' = [main EXCEPT !.tries = S, !.left = main.left - 1, !.targets = {}]
  BY <1>1, <1>2 DEF NextTry, MainState
<1>4. S \subseteq main.tries /\ main.left - 1 \in Nat /\ (S # {} => main.left - 1 > 0)
  BY <1>1, <1>2
<1>5. main' \in MainState
  BY <1>1, <1>3, <1>4 DEF MainState
<1>6. /\ main'.pc = "push" /\ main'.tries = S /\ main'.targets = {} /\ main'.at = main.at
      /\ main'.left = main.left - 1 /\ best_to_push' = best_to_push
  BY <1>1, <1>3 DEF MainState, mainVars, listVars
<1> QED BY <1>1, <1>4, <1>5, <1>6 DEF MainInv, PullInv, PushInv

LEMMA PushCheckStep ==
  ASSUME DataInv, MainInv, PushCheck
  PROVE  RightStep
<1>1. PICK e : e = Lowest(main.tries)
  OBVIOUS
<1>2. PICK h : h = e[2]
  OBVIOUS
<1>3. main.pc = "push" /\ main.tries # {} /\ main \in MainState
  BY DEF PushCheck, MainInv
<1>4. h \in DOMAIN se /\ main.at \in Queues /\ main.left > 0
  BY <1>1, <1>2, <1>3, PushTryIs
<1>5. /\ UNCHANGED mainVars
      /\ main' = [main EXCEPT !.targets = PushTargets(h)] \/ main' = NextTry(e)
  BY <1>1, <1>2, <1>4 DEF PushCheck, mainVars
<1>6. CASE main' = [main EXCEPT !.targets = PushTargets(h)]
  <2>1. \A p \in PushTargets(h) : TargetOf(h, p) /\ p \in Nat \X Types
    <3> SUFFICES ASSUME NEW i \in Active(se[h].msai), se[h].msai[i].type # main.at[1]
                 PROVE  /\ TargetOf(h, <<i, se[h].msai[i].type>>)
                        /\ <<i, se[h].msai[i].type>> \in Nat \X Types
      BY DEF PushTargets
    <3>1. i \in DOMAIN se[h].msai /\ se[h].msai[i].type \in Types
      BY DEF Active
    <3>2. i \in Nat
      BY <1>4, <3>1 DEF DataInv, Entities, JobList
    <3> QED BY <3>1, <3>2 DEF TargetOf
  <2>2. PICK P : P = PushTargets(h)
    OBVIOUS
  <2>3. main' \in MainState
    <3>1. P \in SUBSET (Nat \X Types)
      BY <2>1, <2>2
    <3> QED BY <1>3, <1>6, <2>2, <3>1 DEF MainState
  <2>4. /\ main'.pc = "push" /\ main'.tries = main.tries /\ main'.targets = P
        /\ main'.at = main.at /\ main'.left = main.left
        /\ best_to_push' = best_to_push /\ se' = se
    BY <1>3, <1>5, <1>6, <2>2 DEF MainState, mainVars, listVars
  <2>5. \A p \in P : TargetOf(h, p)'
    BY <2>1, <2>2, <2>4 DEF TargetOf
  <2>6. \A p \in main'.targets : TargetOf(Lowest(main.tries)[2], p)'
    BY <1>1, <1>2, <2>4, <2>5
  <2>7. main.tries \subseteq best_to_push[main.at[1]]
    BY <1>3 DEF MainInv, PushInv
  <2>8. PushInv'
    BY <1>3, <1>4, <2>4, <2>6, <2>7 DEF PushInv
  <2>9. MainInv'
    BY <2>3, <2>4, <2>8 DEF MainInv, PullInv
  <2> QED BY <1>5, <2>9, MainOnly
<1>7. CASE main' = NextTry(e)
  <2>1. MainInv'
    BY <1>3, <1>5, <1>7, NextTryKeepsMain
  <2> QED BY <1>5, <2>1, MainOnly
<1> QED BY <1>5, <1>6, <1>7

LEMMA PushTryStep ==
  ASSUME DataInv, MainInv, PushTry
  PROVE  RightStep
<1>1. PICK e : e = Lowest(main.tries)
  OBVIOUS
<1>2. PICK h : h = e[2]
  OBVIOUS
<1>3. PICK q : q = <<FirstTarget[2], BestRq(FirstTarget[2])>>
  OBVIOUS
<1>4. main.pc = "push" /\ main.targets # {} /\ main \in MainState
  BY DEF PushTry, MainInv
<1>5. /\ main.tries # {} /\ FirstTarget \in main.targets
      /\ h \in DOMAIN se /\ q \in Queues /\ se[h].mq # q[1]
      /\ Implements(se[h].msai, q[1]) /\ MayMove(h, q) /\ WithRoom(FirstTarget[2]) # {}
  BY <1>1, <1>2, <1>3, <1>4, FirstTargetIs
<1>6. CASE /\ Movable(h) /\ MoveToRq(h, q)
           /\ main' = [main EXCEPT !.tries = {}, !.targets = {}]
           /\ UNCHANGED <<dexit, curr, centerpoint, tokill_list, arrived, disp>>
  <2>1. main' \in MainState
    BY <1>4, <1>6 DEF MainState
  <2>2. main'.pc = "push" /\ main'.tries = {} /\ main'.targets = {}
    BY <1>4, <1>6 DEF MainState
  <2>3. MainInv'
    BY <2>1, <2>2 DEF MainInv, PullInv, PushInv
  <2> QED BY <1>5, <1>6, <2>3, MoveStep
<1>7. CASE main' = NextTry(e) /\ UNCHANGED mainVars
  <2>1. MainInv'
    BY <1>4, <1>5, <1>7, NextTryKeepsMain
  <2> QED BY <1>7, <2>1, MainOnly
<1>8. CASE main' = [main EXCEPT !.targets = @ \ {FirstTarget}] /\ UNCHANGED mainVars
  <2>1. PICK P : P = main.targets \ {FirstTarget}
    OBVIOUS
  <2>2. main' = [main EXCEPT !.targets = P]
    BY <1>8, <2>1
  <2>3. main' \in MainState
    BY <1>4, <2>1, <2>2 DEF MainState
  <2>4. /\ main'.pc = "push" /\ main'.tries = main.tries /\ main'.targets = P
        /\ main'.at = main.at /\ main'.left = main.left
        /\ best_to_push' = best_to_push /\ se' = se
    BY <1>4, <1>8, <2>2 DEF MainState, mainVars, listVars
  <2>5. \A p \in P : TargetOf(h, p)
    BY <1>1, <1>2, <1>4, <2>1 DEF MainInv, PushInv
  <2>6. \A p \in main'.targets : TargetOf(Lowest(main.tries)[2], p)'
    BY <1>1, <1>2, <2>4, <2>5 DEF TargetOf
  <2>7. /\ main.at \in Queues /\ main.left > 0
        /\ main.tries \subseteq best_to_push[main.at[1]]
    BY <1>4, <1>5 DEF MainInv, PushInv
  <2>8. PushInv'
    BY <1>5, <2>4, <2>6, <2>7 DEF PushInv
  <2>9. MainInv'
    BY <2>3, <2>4, <2>8 DEF MainInv, PullInv
  <2> QED BY <1>8, <2>9, MainOnly
<1>9. ~MoveFails(h, q)
  BY <1>5 DEF MoveFails, MayMove
<1> QED
  <2>1. \/ /\ Movable(h) /\ MoveToRq(h, q)
           /\ main' = [main EXCEPT !.tries = {}, !.targets = {}]
           /\ UNCHANGED <<dexit, curr, centerpoint, tokill_list, arrived, disp>>
        \/ main' = NextTry(e) /\ UNCHANGED mainVars
        \/ main' = [main EXCEPT !.targets = @ \ {FirstTarget}] /\ UNCHANGED mainVars
    BY <1>1, <1>2, <1>3, <1>5, <1>9 DEF PushTry, mainVars
  <2> QED BY <1>6, <1>7, <1>8, <2>1

LEMMA AddStep ==
  ASSUME DataInv, MainInv, NEW h \in Handles, NEW f \in Implemented, AddJob(h, f)
  PROVE  RightStep
<1>1. PICK msai : msai = Sorted(Filled(f))
  OBVIOUS
<1>2. PICK t : t = FirstType(msai)
  OBVIOUS
<1>3. JobList(msai) /\ Descending(msai) /\ Active(msai) # {}
  BY <1>1, NewList DEF AddJob
<1>4. /\ DataInv' /\ DOMAIN se \subseteq DOMAIN se'
      /\ \A g \in DOMAIN se : se'[g] = se[g]
  BY AddKeepsData
<1>5. MainInv'
  <2>1. main' = Quiet("newtick")
    BY DEF AddJob
  <2>2. Quiet("newtick") = [Quiet("newtick") EXCEPT !.mqs = {}]
    BY DEF Quiet
  <2>3. main' = [Quiet("newtick") EXCEPT !.mqs = {}]
    BY <2>1, <2>2, Zenon
  <2> QED BY <2>3, QuietKeepsMain
<1>6. KeepsRunning
  BY <1>4 DEF KeepsRunning
<1>7. ASSUME NEW i \in Active(msai) PROVE msai[i].affinity <= AffinityOf(msai, t)
  <2>1. PICK m : m = Min(Active(msai))
    OBVIOUS
  <2>2. Active(msai) \in SUBSET Nat /\ Active(msai) \subseteq DOMAIN msai
    BY <1>3 DEF Active, JobList
  <2>3. m \in Active(msai) /\ m <= i
    BY <1>3, <2>1, <2>2, MinIs
  <2>4. t = msai[m].type /\ m \in DOMAIN msai
    BY <1>2, <2>1, <2>2, <2>3 DEF FirstType
  <2>5. AffinityOf(msai, t) = msai[m].affinity
    BY <1>3, <2>4, AffinityIs
  <2>6. CASE m = i
    <3>1. msai[i].affinity \in Nat
      BY <1>3, <2>2, ElementOf DEF JobList
    <3> QED BY <2>5, <2>6, <3>1
  <2>7. CASE m # i
    <3>1. m < i /\ i \in DOMAIN msai
      BY <2>2, <2>3, <2>7
    <3>2. msai[i].affinity <= msai[m].affinity
      BY <1>3, <2>4, <3>1 DEF Descending, HeadSorted, JobList
    <3> QED BY <2>5, <3>2
  <2> QED BY <2>6, <2>7
<1>8. StartsAtBest
  <2>1. /\ DOMAIN se' = DOMAIN se \cup {h} /\ se'[h].msai = msai /\ se'[h].mq = t
    <3>1. se' = Insert(se, h, [msai |-> msai, mq |-> t, rq |-> BestRq(t), mode |-> IDLE,
                               is_finished |-> FALSE])
      BY <1>1, <1>2 DEF AddJob
    <3> QED BY <3>1 DEF Insert
  <2> QED BY <1>7, <2>1 DEF StartsAtBest
<1> QED BY <1>4, <1>5, <1>6, <1>8 DEF RightStep

LEMMA AddFailsStep ==
  ASSUME DataInv, MainInv, NEW h \in Handles, NEW f \in Implemented, AddJobFails(h, f)
  PROVE  RightStep
<1>1. PICK msai : msai = Sorted(Filled(f))
  OBVIOUS
<1>2. CASE Dexit("add_job")
  BY <1>2, KnownExit
<1>3. CASE Active(msai) # {} /\ WithRoom(FirstType(msai)) = {}
  <2>1. FirstType(msai) \in Types
    BY <1>1, <1>3, NewList, FirstTypeIs
  <2> QED BY <1>3, <2>1, RoomExists DEF DataInv
<1> QED BY <1>1, <1>2, <1>3 DEF AddJobFails

LEMMA RemoveSteps ==
  ASSUME DataInv, MainInv, RemoveJob \/ RemoveJobFails
  PROVE  RightStep
<1>1. CASE RemoveJob
  <2>1. DataInv' /\ \A g \in DOMAIN se' : g \in DOMAIN se /\ se'[g] = se[g]
    BY <1>1, RemoveKeepsData
  <2>2. MainInv'
    <3>1. main' = main /\ main.pc = "remove"
      BY <1>1 DEF RemoveJob
    <3> QED BY <3>1, OutsideKeepsMain DEF MainInv
  <2>3. KeepsRunning /\ StartsAtBest
    BY <2>1 DEF KeepsRunning, StartsAtBest
  <2> QED BY <2>1, <2>2, <2>3 DEF RightStep
<1>2. CASE RemoveJobFails
  <2>1. tokill_list # {}
    BY <1>2 DEF RemoveJobFails
  <2>2. PICK h : h = Min(tokill_list)
    OBVIOUS
  <2>3. h \in tree[QueueOf(h)]
    BY <2>1, <2>2, KilledIs
  <2>4. Dexit("remove_job")
    BY <1>2, <2>2, <2>3 DEF RemoveJobFails
  <2> QED BY <2>4, KnownExit
<1> QED BY <1>1, <1>2

\* The periodic tick and the dispatcher only change the modes of jobs.
LEMMA PlacesKept ==
  ASSUME DataInv, MainInv, DataInv', SamePlaces, UNCHANGED <<listVars, main>>
  PROVE  RightStep
<1>1. MainInv'
  BY SamePlacesKeepMain
<1>2. KeepsRunning /\ StartsAtBest
  BY DEF SamePlaces, KeepsRunning, StartsAtBest
<1> QED BY <1>1, <1>2 DEF RightStep

LEMMA DispatchSteps ==
  ASSUME DataInv, MainInv, TickPick \/ Dispatcher
  PROVE  RightStep
<1>1. CASE TickPick
  <2>1. PICK q \in Queues : \E h \in Pickable(q) : curr[q] = NoJob /\ PickNext(q, h)
    BY <1>1 DEF TickPick
  <2>2. UNCHANGED <<dexit, queueVars, listVars, centerpoint, tokill_list, arrived, main, disp>>
    BY <1>1 DEF TickPick
  <2>3. DataInv' /\ SamePlaces
    BY <2>1, <2>2, PickKeepsData
  <2> QED BY <2>2, <2>3, PlacesKept
<1>2. CASE \E q \in Queues, finished \in BOOLEAN : HandleCleanup(q, finished)
  <2>1. PICK q \in Queues, finished \in BOOLEAN : HandleCleanup(q, finished)
    BY <1>2
  <2>2. DataInv' /\ SamePlaces
    BY <2>1, CleanupKeepsData
  <2>3. UNCHANGED <<listVars, main>>
    BY <2>1 DEF HandleCleanup
  <2> QED BY <2>2, <2>3, PlacesKept
<1>3. CASE DispatchNext
  <2>1. DataInv' /\ SamePlaces
    BY <1>3, DispatchKeepsData
  <2>2. UNCHANGED <<listVars, main>>
    BY <1>3 DEF DispatchNext
  <2> QED BY <2>1, <2>2, PlacesKept
<1> QED BY <1>1, <1>2, <1>3 DEF Dispatcher

LEMMA NextIsRight ==
  ASSUME IInv, [Next]_vars
  PROVE  RightStep
<1>1. DataInv /\ MainInv
  BY DEF IInv, DataInv
<1>2. CASE UNCHANGED vars
  <2>1. UNCHANGED mainVars /\ main' = main
    BY <1>2 DEF vars, mainVars
  <2>2. MainInv'
    <3>1. SamePlaces
      BY <2>1 DEF mainVars, SamePlaces
    <3> QED BY <1>1, <2>1, <3>1, SamePlacesKeepMain DEF mainVars
  <2> QED BY <1>1, <2>1, <2>2, MainOnly
<1>3. CASE Registration
  BY <1>1, <1>3, AddStep, AddFailsStep DEF Registration
<1>4. CASE NoNewReg \/ EndTick \/ EndPull \/ EndPush \/ EndRemove
  BY <1>1, <1>4, QuietSteps
<1>5. CASE PullMq \/ PullRq \/ PullTry
  BY <1>1, <1>5, PullMqStep, PullRqStep, PullTryStep
<1>6. CASE PushMq \/ PushCheck \/ PushTry
  BY <1>1, <1>6, PushMqStep, PushCheckStep, PushTryStep
<1>7. CASE RemoveJob \/ RemoveJobFails
  BY <1>1, <1>7, RemoveSteps
<1>8. CASE TickPick \/ Dispatcher
  BY <1>1, <1>8, DispatchSteps
<1> QED BY <1>2, <1>3, <1>4, <1>5, <1>6, <1>7, <1>8 DEF Next

--------------------------------------------------------------------------------
(* The theorems.                                                             *)

\* The inductive invariant: types, the entities of jobs, counters, lists and
\* current jobs, and what load_balancing has read of the lists.
THEOREM Invariance == Spec => []IInv
<1>1. Init => IInv
  BY InitData DEF IInv, DataInv
<1>2. IInv /\ [Next]_vars => IInv'
  BY NextIsRight DEF RightStep, DataInv, IInv
<1> QED BY <1>1, <1>2, PTL DEF Spec

\* Every variable keeps its type: the counters stay integers, the lists hold
\* pairs of an affinity and a handle, and finished jobs are known handles.
THEOREM TypeCorrect == Spec => []TypeOK
<1>1. IInv => TypeOK
  <2> SUFFICES ASSUME IInv PROVE TypeOK
    OBVIOUS
  <2>1. Typed /\ main \in MainState /\ \A h \in DOMAIN se : se[h] \in Entity
    BY DEF IInv, MainInv, Entities
  <2>2. tokill_list \subseteq Handles /\ dexit \in Exits
    BY <2>1 DEF Typed, Exits
  <2>3. \A t \in Types : best_to_push[t] \subseteq AffinityEntry
                         /\ best_to_pull[t] \subseteq AffinityEntry
    BY <2>1 DEF Typed
  <2> QED BY <2>1, <2>2, <2>3 DEF Typed, TypeOK
<1> QED BY <1>1, Invariance, PTL

\* insert_to_rq, remove_from_rq and move_to_rq change tree, length and
\* nof_all_handles one after the other: together they always count the jobs.
THEOREM CountersRight == Spec => []CountersMatchTrees
<1>1. IInv => CountersMatchTrees
  BY DEF IInv
<1> QED BY <1>1, Invariance, PTL

\* The lists of load_balancing hold the jobs of a mq, and those that other mqs
\* could give to it, with the right affinities.
THEOREM ListsRight == Spec => []ListsMatchPlaces
<1>1. IInv => ListsMatchPlaces
  BY DEF IInv
<1> QED BY <1>1, Invariance, PTL

\* The daemon ends for no other reason than a job without accelerator, or one
\* that is removed while it is current: get_best_rq_of_mq finds a queue for
\* every distribution of jobs, and move_to_rq never locks one queue twice.
THEOREM ExitsKnown == Spec => []OnlyKnownExits
<1>1. IInv => OnlyKnownExits
  BY DEF IInv, Typed, OnlyKnownExits
<1> QED BY <1>1, Invariance, PTL

\* Load balancing never moves the job that has the accelerator.
THEOREM RunningStaysPut == Spec => RunningJobStaysPut
<1>1. IInv /\ [Next]_vars =>
        [\A h \in DOMAIN se \cap DOMAIN se' :
           se[h].mode # IDLE => /\ curr[QueueOf(h)] = h /\ se[h].mode = se[h].mq
                                /\ se'[h].mq = se[h].mq /\ se'[h].rq = se[h].rq]_vars
  <2> SUFFICES ASSUME IInv, [Next]_vars, NEW h \in DOMAIN se \cap DOMAIN se', se[h].mode # IDLE
               PROVE  /\ curr[QueueOf(h)] = h /\ se[h].mode = se[h].mq
                      /\ se'[h].mq = se[h].mq /\ se'[h].rq = se[h].rq
    OBVIOUS
  <2>1. KeepsRunning
    BY NextIsRight DEF RightStep
  <2>2. curr[QueueOf(h)] = h /\ se[h].mode = se[h].mq
    BY DEF IInv, CurrentInv
  <2> QED BY <2>1, <2>2 DEF KeepsRunning
<1> QED BY <1>1, Invariance, PTL DEF Spec, RunningJobStaysPut

\* For every list a client may send, add_job puts the job on a type with the
\* highest affinity among those that the daemon has.
THEOREM StartsAtBestType == Spec => JobStartsAtBestType
<1>1. IInv /\ [Next]_vars =>
        [\A h \in DOMAIN se' \ DOMAIN se :
           \A i \in Active(se'[h].msai) :
             se'[h].msai[i].affinity <= AffinityOf(se'[h].msai, se'[h].mq)]_vars
  BY NextIsRight DEF RightStep, StartsAtBest
<1> QED BY <1>1, Invariance, PTL DEF Spec, JobStartsAtBestType
================================================================================
