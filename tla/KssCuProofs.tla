------------------------------ MODULE KssCuProofs ------------------------------
(***************************************************************************)
(* Proofs about KssCu: the counting locks of the computing units are       *)
(* intact for every number of threads, processors, units and slots.        *)
(*                                                                         *)
(* The argument goes from the parts to the whole: the trees of waiting     *)
(* threads as sequences; the lock of one unit between the steps of a       *)
(* section (LockInv: n slots are counted that nobody holds yet, and UnitInv*)
(* when the section is over), which cu_up, tidying and set keep; then the  *)
(* inductive invariant IInv, what a section leaves alone (Within), and one *)
(* lemma per action, <Action>Keeps.                                        *)
(*                                                                         *)
(* `lost' is the set of threads that computing_unit_set has taken out of a *)
(* tree without waking them up: the invariant says nothing of where those  *)
(* sleep, and of nr_running only that it is right while there are none.    *)
(* It holds for lost = forgotten up to the first release that hits another *)
(* unit than the one where the thread is counted (astray).                 *)
(***************************************************************************)
EXTENDS KssCu, NaturalRecursion, SequenceTheorems, FiniteSetTheorems, TLAPS

Injective(s) == \A i, j \in DOMAIN s : s[i] = s[j] => i = j

-----------------------------------------------------------------------------
(* The trees of waiting threads.                                           *)

\* Min of the library.
LEMMA LeastOf ==
    ASSUME NEW I \in SUBSET Nat, I # {}
    PROVE  Min(I) \in I /\ \A i \in I : Min(I) <= i
BY LeastNatural DEF Min

\* A tree and the set of who is in it.
LEMMA SeqFacts ==
    ASSUME NEW S, NEW s \in Seq(S)
    PROVE  /\ Len(s) \in Nat /\ DOMAIN s = 1 .. Len(s) /\ ToSet(s) \subseteq S
           /\ \A i \in 1 .. Len(s) : s[i] \in S /\ s[i] \in ToSet(s)
           /\ \A x \in ToSet(s) : \E i \in 1 .. Len(s) : s[i] = x
           /\ ToSet(s) = {} <=> s = <<>>
           /\ s = <<>> <=> Len(s) = 0
<1>1. Len(s) \in Nat /\ DOMAIN s = 1 .. Len(s) /\ \A i \in 1 .. Len(s) : s[i] \in S
    OBVIOUS
<1>2. s = <<>> <=> Len(s) = 0
    OBVIOUS
<1>3. /\ ToSet(s) \subseteq S
      /\ \A i \in 1 .. Len(s) : s[i] \in ToSet(s)
      /\ \A x \in ToSet(s) : \E i \in 1 .. Len(s) : s[i] = x
    BY <1>1, Zenon DEF ToSet
<1>4. 1 \in 1 .. Len(s) \/ Len(s) = 0
    BY <1>1
<1>5. ToSet(s) = {} <=> s = <<>>
    <2>1. CASE s = <<>>
        <3>1. 1 .. Len(s) = {}
            BY <1>2, <2>1
        <3> QED BY <1>3, <2>1, <3>1
    <2>2. CASE s # <<>>
        BY <1>2, <1>3, <1>4, <2>2
    <2> QED BY <2>1, <2>2
<1> QED BY <1>1, <1>2, <1>3, <1>5

LEMMA NoPrefix == \A s : SubSeq(s, 1, 1 - 1) = <<>>
<1>1. 1 \in Int /\ 1 - 1 \in Int /\ 1 - 1 < 1
    OBVIOUS
<1> QED BY <1>1, SubSeqEmpty, Zenon

\* InsertAt of the library, of a thread that is not in the tree yet.
LEMMA InsertedIs ==
    ASSUME NEW S, NEW s \in Seq(S), NEW i \in 1 .. Len(s) + 1, NEW x \in S \ ToSet(s),
           Injective(s)
    PROVE  /\ InsertAt(s, i, x) \in Seq(S) /\ Injective(InsertAt(s, i, x))
           /\ Len(InsertAt(s, i, x)) = Len(s) + 1
           /\ ToSet(InsertAt(s, i, x)) = ToSet(s) \cup {x}
<1> DEFINE r == InsertAt(s, i, x)
           a == SubSeq(s, 1, i - 1)
           b == a \o <<x>>
           c == SubSeq(s, i, Len(s))
<1>1. /\ a \in Seq(S) /\ Len(a) = i - 1 /\ \A j \in 1 .. i - 1 : a[j] = s[j]
    OBVIOUS
<1>2. /\ c \in Seq(S) /\ Len(c) = Len(s) - i + 1
      /\ \A j \in 1 .. Len(s) - i + 1 : c[j] = s[i + j - 1]
    OBVIOUS
<1> HIDE DEF a, c
<1>3. /\ b \in Seq(S) /\ Len(b) = i /\ b[i] = x /\ \A j \in 1 .. i - 1 : b[j] = s[j]
    BY <1>1, SMTT(30)
<1>4. r = b \o c
    BY DEF InsertAt, a, c
<1> HIDE DEF b, r
<1>5. /\ r \in Seq(S) /\ Len(r) = Len(s) + 1
      /\ \A j \in 1 .. i : r[j] = b[j]
      /\ \A j \in i + 1 .. Len(s) + 1 : r[j] = c[j - i]
    BY <1>2, <1>3, <1>4
<1>6. r[i] = x /\ \A j \in 1 .. i - 1 : r[j] = s[j]
    BY <1>3, <1>5
<1>7. \A j \in i + 1 .. Len(s) + 1 : r[j] = s[j - 1]
    BY <1>2, <1>5
<1>8. DOMAIN r = 1 .. Len(s) + 1 /\ DOMAIN s = 1 .. Len(s)
    BY <1>5
<1>9. \A j \in DOMAIN r : \/ j < i /\ j \in DOMAIN s /\ r[j] = s[j]
                          \/ j = i /\ r[j] = x
                          \/ j > i /\ j - 1 \in DOMAIN s /\ r[j] = s[j - 1]
    BY <1>6, <1>7, <1>8
<1>10. \A j \in DOMAIN s : s[j] # x
    BY DEF ToSet
<1>11. Injective(r)
    BY <1>8, <1>9, <1>10 DEF Injective
<1>12. \A j \in DOMAIN s : \E k \in DOMAIN r : r[k] = s[j]
    <2> SUFFICES ASSUME NEW j \in DOMAIN s PROVE \E k \in DOMAIN r : r[k] = s[j]
        OBVIOUS
    <2>1. CASE j < i
        BY <1>6, <1>8, <2>1
    <2>2. CASE j >= i
        <3>1. j + 1 \in i + 1 .. Len(s) + 1 /\ (j + 1) - 1 = j
            BY <1>8, <2>2
        <3> QED BY <1>7, <1>8, <3>1
    <2> QED BY <1>8, <2>1, <2>2
<1>13. ToSet(r) = ToSet(s) \cup {x}
    BY <1>6, <1>8, <1>9, <1>12 DEF ToSet
<1> QED BY <1>5, <1>11, <1>13 DEF r

\* RemoveAt of the library.
LEMMA RemovedAtIs ==
    ASSUME NEW S, NEW s \in Seq(S), NEW i \in 1 .. Len(s), Injective(s)
    PROVE  /\ RemoveAt(s, i) \in Seq(S) /\ Injective(RemoveAt(s, i))
           /\ Len(RemoveAt(s, i)) = Len(s) - 1
           /\ ToSet(RemoveAt(s, i)) = ToSet(s) \ {s[i]}
<1> DEFINE r == RemoveAt(s, i)
           a == SubSeq(s, 1, i - 1)
           c == SubSeq(s, i + 1, Len(s))
<1>1. /\ a \in Seq(S) /\ Len(a) = i - 1 /\ \A j \in 1 .. i - 1 : a[j] = s[j]
    OBVIOUS
<1>2. /\ c \in Seq(S) /\ Len(c) = Len(s) - i
      /\ \A j \in 1 .. Len(s) - i : c[j] = s[i + j]
    OBVIOUS
<1> HIDE DEF a, c
<1>3. r = a \o c
    BY DEF RemoveAt, a, c
<1> HIDE DEF r
<1>4. /\ r \in Seq(S) /\ Len(r) = Len(s) - 1
      /\ \A j \in 1 .. i - 1 : r[j] = s[j]
      /\ \A j \in i .. Len(s) - 1 : r[j] = c[j - i + 1]
    <2>1. r \in Seq(S) /\ Len(r) = Len(s) - 1
        BY <1>1, <1>2, <1>3
    <2>2. \A j \in 1 .. Len(s) - 1 : r[j] = IF j <= i - 1 THEN a[j] ELSE c[j - (i - 1)]
        BY <1>1, <1>2, <1>3
    <2>3. \A j \in i .. Len(s) - 1 : r[j] = c[j - i + 1]
        <3> SUFFICES ASSUME NEW j \in i .. Len(s) - 1 PROVE r[j] = c[j - i + 1]
            OBVIOUS
        <3>1. j \in 1 .. Len(s) - 1 /\ ~(j <= i - 1) /\ j - (i - 1) = j - i + 1
            OBVIOUS
        <3> QED BY <2>2, <3>1
    <2>4. \A j \in 1 .. i - 1 : r[j] = s[j]
        <3> SUFFICES ASSUME NEW j \in 1 .. i - 1 PROVE r[j] = s[j]
            OBVIOUS
        <3>1. j \in 1 .. Len(s) - 1 /\ j <= i - 1
            OBVIOUS
        <3> QED BY <1>1, <2>2, <3>1
    <2> QED BY <2>1, <2>3, <2>4
<1>5. \A j \in i .. Len(s) - 1 : r[j] = s[j + 1]
    <2> SUFFICES ASSUME NEW j \in i .. Len(s) - 1 PROVE r[j] = s[j + 1]
        OBVIOUS
    <2>1. j - i + 1 \in 1 .. Len(s) - i /\ i + (j - i + 1) = j + 1
        OBVIOUS
    <2>2. c[j - i + 1] = s[i + (j - i + 1)]
        BY <1>2, <2>1
    <2> QED BY <1>4, <2>1, <2>2
<1>6. DOMAIN r = 1 .. Len(s) - 1 /\ DOMAIN s = 1 .. Len(s)
    BY <1>4
<1>7. \A j \in DOMAIN r : \/ j < i /\ j \in DOMAIN s /\ r[j] = s[j]
                          \/ j >= i /\ j + 1 \in DOMAIN s /\ r[j] = s[j + 1]
    BY <1>4, <1>5, <1>6
<1>8. Injective(r)
    BY <1>6, <1>7 DEF Injective
<1>9. \A j \in DOMAIN s \ {i} : \E k \in DOMAIN r : r[k] = s[j]
    <2> SUFFICES ASSUME NEW j \in DOMAIN s \ {i} PROVE \E k \in DOMAIN r : r[k] = s[j]
        OBVIOUS
    <2>1. CASE j < i
        BY <1>4, <1>6, <2>1
    <2>2. CASE j > i
        <3>1. j - 1 \in i .. Len(s) - 1 /\ (j - 1) + 1 = j
            BY <1>6, <2>2
        <3> QED BY <1>5, <1>6, <3>1
    <2> QED BY <1>6, <2>1, <2>2
<1>10. \A j \in DOMAIN r : r[j] # s[i]
    BY <1>6, <1>7 DEF Injective
<1>11. ToSet(r) = ToSet(s) \ {s[i]}
    BY <1>6, <1>7, <1>9, <1>10 DEF ToSet
<1> QED BY <1>4, <1>8, <1>11 DEF r

\* RemoveFirst of the library.
LEMMA FirstAt ==
    ASSUME NEW S, NEW s \in Seq(S), NEW x \in ToSet(s)
    PROVE  \E i \in 1 .. Len(s) : s[i] = x /\ RemoveFirst(s, x) = RemoveAt(s, i)
<1> DEFINE I == {i \in 1 .. Len(s) : s[i] = x}
<1>1. I \in SUBSET Nat /\ I # {}
    BY SeqFacts
<1>2. Min(I) \in I
    BY <1>1, LeastOf
<1>3. RemoveFirst(s, x) = RemoveAt(s, Min(I))
    BY <1>1 DEF RemoveFirst, SelectInSeq
<1> QED BY <1>2, <1>3

\* A thread leaves the tree, wherever it is in it.
LEMMA RemovedIs ==
    ASSUME NEW S, NEW s \in Seq(S), NEW x \in ToSet(s), Injective(s)
    PROVE  /\ RemoveFirst(s, x) \in Seq(S) /\ Injective(RemoveFirst(s, x))
           /\ Len(RemoveFirst(s, x)) = Len(s) - 1
           /\ ToSet(RemoveFirst(s, x)) = ToSet(s) \ {x}
<1>1. PICK i \in 1 .. Len(s) : s[i] = x /\ RemoveFirst(s, x) = RemoveAt(s, i)
    BY FirstAt
<1>2. /\ RemoveAt(s, i) \in Seq(S) /\ Injective(RemoveAt(s, i))
      /\ Len(RemoveAt(s, i)) = Len(s) - 1
      /\ ToSet(RemoveAt(s, i)) = ToSet(s) \ {s[i]}
    BY RemovedAtIs, Zenon
<1> QED BY <1>1, <1>2

\* A thread that finds room leaves the tree as it was.
LEMMA InsertedRemoved ==
    ASSUME NEW S, NEW s \in Seq(S), NEW x \in S \ ToSet(s)
    PROVE  RemoveFirst(InsertAt(s, 1, x), x) = s
<1> DEFINE r == InsertAt(s, 1, x)
<1>1. r = <<x>> \o s
    <2>1. SubSeq(s, 1, 1 - 1) = <<>>
        BY NoPrefix, Zenon
    <2>2. SubSeq(s, 1, Len(s)) = s
        BY SubSeqFull
    <2>3. r = SubSeq(s, 1, 1 - 1) \o <<x>> \o SubSeq(s, 1, Len(s))
        BY DEF InsertAt
    <2>4. <<>> \o <<x>> = <<x>>
        OBVIOUS
    <2> QED BY <2>1, <2>2, <2>3, <2>4
<1> HIDE DEF r
<1>2. /\ r \in Seq(S) /\ Len(r) = Len(s) + 1 /\ r[1] = x
      /\ \A j \in 1 .. Len(s) : r[j + 1] = s[j]
    BY <1>1
<1>3. x \in ToSet(r)
    BY <1>2, SeqFacts
<1>4. PICK i \in 1 .. Len(r) : r[i] = x /\ RemoveFirst(r, x) = RemoveAt(r, i)
    BY <1>2, <1>3, FirstAt
<1>5. i = 1
    <2> SUFFICES ASSUME i # 1 PROVE FALSE
        OBVIOUS
    <2>1. i - 1 \in 1 .. Len(s) /\ (i - 1) + 1 = i
        BY <1>2
    <2>2. s[i - 1] = x
        BY <1>2, <1>4, <2>1
    <2> QED BY <2>1, <2>2, SeqFacts
<1>6. RemoveAt(r, 1) = s
    <2>1. RemoveAt(r, 1) = SubSeq(r, 1, 1 - 1) \o SubSeq(r, 1 + 1, Len(r))
        BY DEF RemoveAt
    <2>2. SubSeq(r, 1, 1 - 1) = <<>>
        BY NoPrefix, Zenon
    <2>3. SubSeq(r, 2, Len(r)) = s
        <3> DEFINE q == SubSeq(r, 2, Len(r))
        <3>1. q \in Seq(S) /\ Len(q) = Len(s) /\ \A j \in 1 .. Len(s) : q[j] = r[j + 1]
            BY <1>2
        <3>2. \A j \in 1 .. Len(s) : q[j] = s[j]
            BY <1>2, <3>1
        <3> HIDE DEF q
        <3>3. q = s
            BY <3>1, <3>2
        <3> QED BY <3>3 DEF q
    <2>4. <<>> \o s = s
        OBVIOUS
    <2> QED BY <2>1, <2>2, <2>3, <2>4, SMTT(30)
<1> QED BY <1>4, <1>5, <1>6 DEF r

\* The tree without its leftmost threads.
LEMMA RestIs ==
    ASSUME NEW S, NEW s \in Seq(S), s # <<>>, Injective(s)
    PROVE  LET r == SubSeq(s, 1 + 1, Len(s))
           IN  /\ r \in Seq(S) /\ Injective(r) /\ Len(r) = Len(s) - 1
               /\ s[1] \in ToSet(s) /\ ToSet(r) = ToSet(s) \ {s[1]}
<1> DEFINE r == SubSeq(s, 1 + 1, Len(s))
<1>1. Len(s) \in Nat \ {0} /\ 1 \in 1 .. Len(s) /\ s[1] \in ToSet(s)
    BY SeqFacts
<1>2. RemoveAt(s, 1) = r
    <2>1. SubSeq(s, 1, 1 - 1) = <<>>
        BY NoPrefix, Zenon
    <2>2. r \in Seq(S)
        BY <1>1
    <2>3. <<>> \o r = r
        BY <2>2
    <2> QED BY <2>1, <2>3, Zenon DEF RemoveAt
<1>3. /\ RemoveAt(s, 1) \in Seq(S) /\ Injective(RemoveAt(s, 1))
      /\ Len(RemoveAt(s, 1)) = Len(s) - 1
      /\ ToSet(RemoveAt(s, 1)) = ToSet(s) \ {s[1]}
    BY <1>1, RemovedAtIs, Zenon
<1> QED BY <1>1, <1>2, <1>3

-----------------------------------------------------------------------------
(* The lock of one unit: what its count stands for.                        *)

\* A unit and the kernel in the proof: as in TypeOK, but for the two counters.
LaxUnit ==
    [type : Types, online : BOOLEAN, listed : BOOLEAN,
     count : Int, maxcount : 0 .. UintMax,
     tree : Seq(Tasks), nr_running : Int,
     tasks : SUBSET Tasks, curr : Tasks \cup {NoTask},
     offers_outstanding : Int]

KernelState ==
    [cui : [Ids -> LaxUnit], hwse : [Tasks -> Entity],
     active : SUBSET Cpus, nr_devices : Int]

\* Who has a slot of unit c for which the threads S sleep.
Holders(c, hwse, S) == c.tasks \cup {t \in S : hwse[t].semaphore_up}

\* The state of unit c between two steps of a section under its lock: n slots are
\* counted that nobody holds, and who sleeps for it is in the tree, or was woken up,
\* or is `lost'.
LockInv(c, hwse, S, n, lost) ==
    /\ c \in LaxUnit
    /\ Injective(c.tree) /\ ToSet(c.tree) \subseteq S
    /\ \A t \in ToSet(c.tree) : ~hwse[t].semaphore_up /\ ~hwse[t].need_migrate
    /\ c.curr \notin ToSet(c.tree)
    /\ c.tasks \cap S = {}
    /\ c.count = Cardinality(Holders(c, hwse, S)) + n
    /\ \A t \in S : ~(hwse[t].semaphore_up /\ hwse[t].need_migrate)
    /\ lost = {} => c.nr_running = Len(c.tree)
    /\ \A t \in S \ ToSet(c.tree) :
            hwse[t].semaphore_up \/ hwse[t].need_migrate \/ t \in lost

UnitInv(c, hwse, S, n, lost) ==
    /\ LockInv(c, hwse, S, n, lost)
    /\ c.tree # <<>> => c.count >= c.maxcount

\* What giving slots to the threads that wait for unit u does to the rest.
Serves(s, r, u) ==
    /\ \A v \in Ids \ {u} : r.cui[v] = s.cui[v]
    /\ r.cui[u].type = s.cui[u].type
    /\ r.cui[u].online = s.cui[u].online
    /\ r.cui[u].listed = s.cui[u].listed
    /\ r.cui[u].maxcount = s.cui[u].maxcount
    /\ r.cui[u].tasks = s.cui[u].tasks
    /\ ToSet(r.cui[u].tree) \subseteq ToSet(s.cui[u].tree)
    /\ r.cui[u].curr \in {s.cui[u].curr} \cup ToSet(s.cui[u].tree)
    /\ \A t \in Tasks :
        \/ r.hwse[t] = s.hwse[t]
        \/ /\ t \in ToSet(s.cui[u].tree)
           /\ r.hwse[t] = [s.hwse[t] EXCEPT !.semaphore_up = TRUE]

\* There are finitely many of them,
LEMMA HoldersFinite ==
    ASSUME NEW c, c \in LaxUnit, NEW hwse, NEW S \in SUBSET Tasks
    PROVE  /\ Holders(c, hwse, S) \subseteq Tasks
           /\ IsFiniteSet(Holders(c, hwse, S))
           /\ Cardinality(Holders(c, hwse, S)) \in Nat
<1>1. c.tasks \subseteq Tasks
    BY DEF LaxUnit
<1>2. Holders(c, hwse, S) \subseteq Tasks
    BY <1>1 DEF Holders
<1> QED BY <1>2, UnitsAssumption, FS_Subset, FS_CardinalityType, Zenon

\* and not too many to count.
LEMMA HoldersBound ==
    ASSUME NEW c, c \in LaxUnit, NEW hwse, NEW S \in SUBSET Tasks
    PROVE  /\ Cardinality(Holders(c, hwse, S)) <= UintMax
           /\ \A t \in Tasks \ Holders(c, hwse, S) :
                Cardinality(Holders(c, hwse, S)) < UintMax
<1> DEFINE H == Holders(c, hwse, S)
<1>1. H \subseteq Tasks /\ IsFiniteSet(H) /\ Cardinality(H) \in Nat
    BY HoldersFinite, Zenon
<1> HIDE DEF H
<1>2. IsFiniteSet(Tasks) /\ Cardinality(Tasks) <= UintMax /\ Cardinality(Tasks) \in Nat
    BY UnitsAssumption, FS_CardinalityType
<1>3. UintMax \in Nat
    BY UnitsAssumption
<1>4. Cardinality(H) <= Cardinality(Tasks)
    BY <1>1, <1>2, FS_Subset
<1>5. ASSUME NEW t \in Tasks \ H PROVE Cardinality(H) < UintMax
    <2>1. H \cup {t} \subseteq Tasks
        BY <1>1, <1>5
    <2>2. Cardinality(H \cup {t}) = Cardinality(H) + 1
        BY <1>1, <1>5, FS_AddElement
    <2>3. Cardinality(H \cup {t}) <= Cardinality(Tasks)
        BY <1>2, <2>1, FS_Subset
    <2> QED BY <1>1, <1>2, <1>3, <2>2, <2>3
<1>6. Cardinality(H) <= UintMax
    BY <1>1, <1>2, <1>3, <1>4
<1> QED BY <1>5, <1>6 DEF H

\* Several such steps, one after the other.
LEMMA ServesTransitive ==
    ASSUME NEW s, NEW r, NEW q, NEW u \in Ids, Serves(s, r, u), Serves(r, q, u),
           s.hwse \in [Tasks -> Entity]
    PROVE  Serves(s, q, u)
<1>1. /\ \A v \in Ids \ {u} : q.cui[v] = s.cui[v]
      /\ q.cui[u].type = s.cui[u].type
      /\ q.cui[u].online = s.cui[u].online
      /\ q.cui[u].listed = s.cui[u].listed
      /\ q.cui[u].maxcount = s.cui[u].maxcount
      /\ q.cui[u].tasks = s.cui[u].tasks
      /\ ToSet(q.cui[u].tree) \subseteq ToSet(s.cui[u].tree)
      /\ q.cui[u].curr \in {s.cui[u].curr} \cup ToSet(s.cui[u].tree)
    BY DEF Serves
<1>2. ASSUME NEW t \in Tasks
      PROVE  \/ q.hwse[t] = s.hwse[t]
             \/ /\ t \in ToSet(s.cui[u].tree)
                /\ q.hwse[t] = [s.hwse[t] EXCEPT !.semaphore_up = TRUE]
    <2>1. \/ r.hwse[t] = s.hwse[t]
          \/ /\ t \in ToSet(s.cui[u].tree)
             /\ r.hwse[t] = [s.hwse[t] EXCEPT !.semaphore_up = TRUE]
        BY DEF Serves
    <2>2. \/ q.hwse[t] = r.hwse[t]
          \/ /\ t \in ToSet(r.cui[u].tree)
             /\ q.hwse[t] = [r.hwse[t] EXCEPT !.semaphore_up = TRUE]
        BY DEF Serves
    <2>3. ToSet(r.cui[u].tree) \subseteq ToSet(s.cui[u].tree)
        BY DEF Serves
    <2>4. s.hwse[t] \in Entity
        OBVIOUS
    <2>5. [[s.hwse[t] EXCEPT !.semaphore_up = TRUE] EXCEPT !.semaphore_up = TRUE]
            = [s.hwse[t] EXCEPT !.semaphore_up = TRUE]
        BY <2>4 DEF Entity
    <2> QED BY <2>1, <2>2, <2>3, <2>5
<1> QED BY <1>1, <1>2 DEF Serves

-----------------------------------------------------------------------------
(* cu_up                                                                   *)

\* set_next_entity_hw, the only change of several fields of a unit.
LEMMA SetNextIs ==
    ASSUME NEW c \in LaxUnit, NEW n \in 1 .. Len(c.tree)
    PROVE  LET d == SetNextEntity(c, n)
           IN  /\ d \in LaxUnit
               /\ d.tree = SubSeq(c.tree, n + 1, Len(c.tree))
               /\ d.nr_running = c.nr_running - n /\ d.curr = c.tree[n]
               /\ d.type = c.type /\ d.online = c.online /\ d.listed = c.listed
               /\ d.count = c.count /\ d.maxcount = c.maxcount /\ d.tasks = c.tasks
               /\ d.offers_outstanding = c.offers_outstanding
<1>1. PICK r : r = SubSeq(c.tree, n + 1, Len(c.tree))
    OBVIOUS
<1>2. PICK m : m = c.nr_running - n
    OBVIOUS
<1>3. PICK k : k = c.tree[n]
    OBVIOUS
<1>4. c.tree \in Seq(Tasks) /\ Len(c.tree) \in Nat /\ n \in Nat /\ c.nr_running \in Int
    BY DEF LaxUnit
<1>5. r \in Seq(Tasks) /\ m \in Int /\ k \in Tasks
    BY <1>1, <1>2, <1>3, <1>4
<1>6. SetNextEntity(c, n) = [c EXCEPT !.tree = r, !.nr_running = m, !.curr = k]
    BY <1>1, <1>2, <1>3, Zenon DEF SetNextEntity
<1>7. PICK d : d = [c EXCEPT !.tree = r]
    OBVIOUS
<1>8. d \in LaxUnit
    BY <1>5, <1>7 DEF LaxUnit
<1>9. PICK e : e = [d EXCEPT !.nr_running = m]
    OBVIOUS
<1>10. e \in LaxUnit
    BY <1>5, <1>8, <1>9 DEF LaxUnit
<1>11. SetNextEntity(c, n) = [e EXCEPT !.curr = k]
    BY <1>6, <1>7, <1>9, Zenon
<1>12. SetNextEntity(c, n) \in LaxUnit
    BY <1>5, <1>10, <1>11 DEF LaxUnit
<1>13. LET f == [c EXCEPT !.tree = r, !.nr_running = m, !.curr = k]
       IN  /\ f.tree = r /\ f.nr_running = m /\ f.curr = k
           /\ f.type = c.type /\ f.online = c.online /\ f.listed = c.listed
           /\ f.count = c.count /\ f.maxcount = c.maxcount /\ f.tasks = c.tasks
           /\ f.offers_outstanding = c.offers_outstanding
    BY DEF LaxUnit
<1> QED BY <1>1, <1>2, <1>3, <1>6, <1>12, <1>13

\* Whoever is skipped, the next thread comes from the tree.
LEMMA PickedIs ==
    ASSUME NEW c \in LaxUnit, NEW dead
    PROVE  LET p == PickNext(c, dead)
           IN  p.unit \in LaxUnit /\ p.next \in Tasks \cup {NoTask}
<1> DEFINE I == {i \in 1 .. Len(c.tree) : c.tree[i] \notin dead}
           taken == IF I # {} THEN Min(I) ELSE 0
           drop == IF taken = 0 THEN Len(c.tree) ELSE taken
<1>1. PickNext(c, dead) =
        [next |-> IF taken = 0 THEN NoTask ELSE c.tree[taken],
         unit |-> IF drop = 0 THEN c ELSE SetNextEntity(c, drop)]
    BY DEF PickNext, SelectInSeq
<1>2. c.tree \in Seq(Tasks) /\ Len(c.tree) \in Nat
    BY DEF LaxUnit
<1>3. taken \in 0 .. Len(c.tree)
    <2>1. CASE I # {}
        <3>1. I \in SUBSET Nat
            BY <1>2
        <3>2. Min(I) \in I
            BY <2>1, <3>1, LeastOf
        <3> QED BY <1>2, <2>1, <3>2
    <2> QED BY <1>2, <2>1
<1> HIDE DEF taken
<1>4. drop \in 0 .. Len(c.tree)
    BY <1>2, <1>3
<1> HIDE DEF drop
<1>5. ASSUME drop # 0 PROVE SetNextEntity(c, drop) \in LaxUnit
    BY <1>2, <1>4, <1>5, SetNextIs
<1>6. taken # 0 => c.tree[taken] \in Tasks
    BY <1>2, <1>3
<1> QED BY <1>1, <1>5, <1>6

\* Nobody is skipped as long as the threads in the tree are alive.
LEMMA PickedFirst ==
    ASSUME NEW c \in LaxUnit, NEW dead, ToSet(c.tree) \cap dead = {}
    PROVE  PickNext(c, dead) =
            IF c.tree = <<>> THEN [next |-> NoTask, unit |-> c]
            ELSE [next |-> c.tree[1], unit |-> SetNextEntity(c, 1)]
<1> DEFINE I == {i \in 1 .. Len(c.tree) : c.tree[i] \notin dead}
           taken == IF I # {} THEN Min(I) ELSE 0
           drop == IF taken = 0 THEN Len(c.tree) ELSE taken
<1>1. PickNext(c, dead) =
        [next |-> IF taken = 0 THEN NoTask ELSE c.tree[taken],
         unit |-> IF drop = 0 THEN c ELSE SetNextEntity(c, drop)]
    BY DEF PickNext, SelectInSeq
<1>2. c.tree \in Seq(Tasks) /\ Len(c.tree) \in Nat
    BY DEF LaxUnit
<1>3. CASE c.tree = <<>>
    <2>1. Len(c.tree) = 0 /\ I = {}
        BY <1>2, <1>3
    <2> QED BY <1>1, <1>3, <2>1
<1>4. CASE c.tree # <<>>
    <2>1. I = 1 .. Len(c.tree) /\ Len(c.tree) >= 1
        BY <1>2, <1>4, SeqFacts
    <2>2. I \in SUBSET Nat /\ 1 \in I /\ I # {}
        BY <2>1, <1>2
    <2>3. Min(I) \in I /\ \A i \in I : Min(I) <= i
        BY <2>2, LeastOf
    <2>4. Min(I) = 1
        BY <2>1, <2>2, <2>3
    <2>5. taken = 1 /\ drop = 1
        BY <2>2, <2>4
    <2> HIDE DEF I, taken, drop
    <2>6. PickNext(c, dead) = [next |-> c.tree[1], unit |-> SetNextEntity(c, 1)]
        BY <1>1, <2>5
    <2> QED BY <1>4, <2>6
<1> QED BY <1>3, <1>4

\* A release does not leave the type, whoever is dead.
LEMMA CuUpTyped ==
    ASSUME NEW s \in KernelState, NEW u \in Ids, NEW dead
    PROVE  /\ CuUp(s, u, dead) \in KernelState
           /\ CuUp(s, u, dead).active = s.active
           /\ CuUp(s, u, dead).nr_devices = s.nr_devices
<1>1. PICK c : c = s.cui[u]
    OBVIOUS
<1>2. PICK p : p = PickNext(c, dead)
    OBVIOUS
<1>3. c \in LaxUnit /\ s.cui \in [Ids -> LaxUnit] /\ s.hwse \in [Tasks -> Entity]
    BY <1>1 DEF KernelState
<1>4. p.unit \in LaxUnit /\ p.next \in Tasks \cup {NoTask}
    BY <1>2, <1>3, PickedIs, Zenon
<1>5. ASSUME NEW d \in LaxUnit PROVE [d EXCEPT !.count = Down(@)] \in LaxUnit
    <2>1. Down(d.count) \in Int
        BY UnitsAssumption DEF Down, LaxUnit
    <2> QED BY <2>1 DEF LaxUnit
<1>6. ASSUME NEW d \in LaxUnit
      PROVE  /\ [s EXCEPT !.cui[u] = d] \in KernelState
             /\ [s EXCEPT !.cui[u] = d].active = s.active
             /\ [s EXCEPT !.cui[u] = d].nr_devices = s.nr_devices
    <2>1. [s.cui EXCEPT ![u] = d] \in [Ids -> LaxUnit]
        BY <1>3
    <2> QED BY <2>1 DEF KernelState
<1>7. CASE c.count > c.maxcount
    <2>1. CuUp(s, u, dead) = [s EXCEPT !.cui[u].count = Down(@)]
        BY <1>1, <1>7, Zenon DEF CuUp
    <2>2. PICK d : d = [c EXCEPT !.count = Down(@)]
        OBVIOUS
    <2>3. CuUp(s, u, dead) = [s EXCEPT !.cui[u] = d]
        BY <1>1, <2>1, <2>2, Zenon
    <2> QED BY <1>3, <1>5, <1>6, <2>2, <2>3
<1>8. CASE ~(c.count > c.maxcount) /\ p.next = NoTask
    <2>1. PICK d : d = [p.unit EXCEPT !.count = Down(@)]
        OBVIOUS
    <2>2. CuUp(s, u, dead) = [s EXCEPT !.cui[u] = d]
        BY <1>1, <1>2, <1>8, <2>1, Zenon DEF CuUp
    <2> QED BY <1>4, <1>5, <1>6, <2>1, <2>2
<1>9. CASE ~(c.count > c.maxcount) /\ p.next # NoTask
    <2>1. PICK r : r = [s EXCEPT !.cui[u] = p.unit]
        OBVIOUS
    <2>2. CuUp(s, u, dead) = [r EXCEPT !.hwse[p.next].semaphore_up = TRUE]
        BY <1>1, <1>2, <1>9, <2>1, Zenon DEF CuUp
    <2>3. r \in KernelState /\ r.active = s.active /\ r.nr_devices = s.nr_devices
        BY <1>4, <1>6, <2>1
    <2>4. PICK h : h = [r.hwse EXCEPT ![p.next].semaphore_up = TRUE]
        OBVIOUS
    <2>5. h \in [Tasks -> Entity]
        <3>1. r.hwse \in [Tasks -> Entity] /\ p.next \in Tasks
            BY <1>4, <1>9, <2>3 DEF KernelState
        <3>2. [r.hwse[p.next] EXCEPT !.semaphore_up = TRUE] \in Entity
            BY <3>1 DEF Entity
        <3> QED BY <2>4, <3>1, <3>2
    <2>6. CuUp(s, u, dead) = [r EXCEPT !.hwse = h]
        BY <2>2, <2>4, Zenon
    <2> QED BY <2>3, <2>5, <2>6 DEF KernelState
<1> QED BY <1>7, <1>8, <1>9

\* Thread t is given a slot.
Raised(hwse, h, t) ==
    /\ h[t] = [hwse[t] EXCEPT !.semaphore_up = TRUE]
    /\ \A x \in Tasks \ {t} : h[x] = hwse[x]
    /\ h[t].semaphore_up /\ h[t].need_migrate = hwse[t].need_migrate

\* A sleeping thread is told that it has a slot.
LEMMA SemaphoreUp ==
    ASSUME NEW hwse \in [Tasks -> Entity], NEW t \in Tasks
    PROVE  LET h == [hwse EXCEPT ![t].semaphore_up = TRUE]
           IN  h \in [Tasks -> Entity] /\ Raised(hwse, h, t)
<1> DEFINE h == [hwse EXCEPT ![t].semaphore_up = TRUE]
<1>1. PICK e : e = [hwse[t] EXCEPT !.semaphore_up = TRUE]
    OBVIOUS
<1>2. e \in Entity /\ e.semaphore_up = TRUE /\ e.need_migrate = hwse[t].need_migrate
    <2>1. hwse[t] \in Entity
        OBVIOUS
    <2> QED BY <1>1, <2>1 DEF Entity
<1>3. h = [hwse EXCEPT ![t] = e]
    BY <1>1, Zenon
<1> HIDE DEF h
<1>4. h \in [Tasks -> Entity] /\ h[t] = e /\ \A x \in Tasks \ {t} : h[x] = hwse[x]
    BY <1>2, <1>3
<1> QED BY <1>1, <1>2, <1>4 DEF h, Raised

\* The first thread leaves the tree of unit c with a slot: c, of which n slots are
\* counted too much, becomes d, of which m are.
Hands(c, hwse, S, n, d, h, t, m, lost) ==
    /\ c \in LaxUnit /\ d \in LaxUnit
    /\ hwse \in [Tasks -> Entity] /\ h \in [Tasks -> Entity] /\ S \in SUBSET Tasks
    /\ n \in Nat /\ m \in Nat /\ lost \in SUBSET Tasks
    /\ LockInv(c, hwse, S, n, lost) /\ c.tree # <<>>
    /\ d.tree = SubSeq(c.tree, 1 + 1, Len(c.tree)) /\ d.curr = c.tree[1]
    /\ d.nr_running = c.nr_running - 1 /\ d.tasks = c.tasks
    /\ d.count = Cardinality(Holders(c, hwse, S)) + 1 + m
    /\ t = c.tree[1] /\ Raised(hwse, h, t)

\* A counted slot that nobody holds goes to the leftmost thread.
LEMMA HandedOver ==
    ASSUME NEW c, NEW hwse, NEW S, NEW n, NEW d, NEW h, NEW t, NEW m, NEW lost,
           Hands(c, hwse, S, n, d, h, t, m, lost)
    PROVE  /\ LockInv(d, h, S, m, lost)
           /\ t \in S /\ t \in ToSet(c.tree) /\ ToSet(d.tree) \subseteq ToSet(c.tree)
<1>1. /\ c \in LaxUnit /\ d \in LaxUnit
      /\ hwse \in [Tasks -> Entity] /\ h \in [Tasks -> Entity] /\ S \in SUBSET Tasks
      /\ n \in Nat /\ m \in Nat /\ lost \in SUBSET Tasks
      /\ LockInv(c, hwse, S, n, lost) /\ c.tree # <<>>
      /\ t = c.tree[1] /\ Raised(hwse, h, t)
    BY Zenon DEF Hands
<1>2. /\ d.tree = SubSeq(c.tree, 1 + 1, Len(c.tree)) /\ d.curr = c.tree[1]
      /\ d.nr_running = c.nr_running - 1 /\ d.tasks = c.tasks
      /\ d.count = Cardinality(Holders(c, hwse, S)) + 1 + m
    BY Zenon DEF Hands
<1>3. c.tree \in Seq(Tasks) /\ c.tasks \subseteq Tasks /\ c.count \in Int /\ d.count \in Int
    BY <1>1 DEF LaxUnit
<1>4. /\ t \in ToSet(c.tree)
      /\ d.tree \in Seq(Tasks) /\ Injective(d.tree)
      /\ Len(d.tree) = Len(c.tree) - 1 /\ ToSet(d.tree) = ToSet(c.tree) \ {t}
    <2>1. Injective(c.tree)
        BY <1>1 DEF LockInv
    <2>2. LET r == SubSeq(c.tree, 1 + 1, Len(c.tree))
          IN  /\ r \in Seq(Tasks) /\ Injective(r) /\ Len(r) = Len(c.tree) - 1
              /\ c.tree[1] \in ToSet(c.tree) /\ ToSet(r) = ToSet(c.tree) \ {c.tree[1]}
        BY <1>1, <1>3, <2>1, RestIs, Zenon
    <2> QED BY <1>1, <1>2, <2>2
<1>5. t \in Tasks /\ t \in S /\ ~hwse[t].semaphore_up /\ ~hwse[t].need_migrate /\ t \notin c.tasks
    BY <1>1, <1>4 DEF LockInv
<1>6. /\ \A x \in Tasks \ {t} : h[x] = hwse[x]
      /\ h[t].semaphore_up /\ h[t].need_migrate = hwse[t].need_migrate
    BY <1>1 DEF Raised
<1>9. Holders(d, h, S) = Holders(c, hwse, S) \cup {t}
    BY <1>1, <1>2, <1>5, <1>6 DEF Holders
<1>10. /\ t \notin Holders(c, hwse, S) /\ IsFiniteSet(Holders(c, hwse, S))
       /\ Cardinality(Holders(c, hwse, S)) \in Nat
    <2>1. t \notin Holders(c, hwse, S)
        BY <1>5 DEF Holders
    <2> QED BY <1>1, <2>1, HoldersFinite, Zenon
<1>11. Cardinality(Holders(d, h, S)) = Cardinality(Holders(c, hwse, S)) + 1
    <2>1. PICK H : H = Holders(c, hwse, S)
        OBVIOUS
    <2>2. Cardinality(H \cup {t}) = Cardinality(H) + 1
        <3>1. IsFiniteSet(H) /\ t \notin H
            BY <1>10, <2>1
        <3> QED BY <3>1, FS_AddElement, Zenon
    <2> QED BY <1>9, <2>1, <2>2, Zenon
<1>12. d.count = Cardinality(Holders(d, h, S)) + m
    BY <1>2, <1>11, Zenon
<1>13. /\ Injective(d.tree) /\ ToSet(d.tree) \subseteq S
       /\ \A x \in ToSet(d.tree) : ~h[x].semaphore_up /\ ~h[x].need_migrate
       /\ d.curr \notin ToSet(d.tree) /\ d.tasks \cap S = {}
       /\ \A x \in S : ~(h[x].semaphore_up /\ h[x].need_migrate)
    BY <1>1, <1>2, <1>4, <1>5, <1>6 DEF LockInv
<1>14. /\ lost = {} => d.nr_running = Len(d.tree)
       /\ \A x \in S \ ToSet(d.tree) : h[x].semaphore_up \/ h[x].need_migrate \/ x \in lost
    BY <1>1, <1>2, <1>4, <1>5, <1>6 DEF LockInv
<1>15. LockInv(d, h, S, m, lost)
    BY <1>1, <1>12, <1>13, <1>14 DEF LockInv
<1> QED BY <1>4, <1>5, <1>15

\* A slot that nobody holds is released: it goes, or the first thread takes it.
LEMMA CuUpReleases ==
    ASSUME NEW s \in KernelState, NEW u \in Ids, NEW dead, NEW S \in SUBSET Tasks,
           NEW n \in Nat, NEW lost \in SUBSET Tasks, S \cap dead = {},
           UnitInv(s.cui[u], s.hwse, S, n + 1, lost)
    PROVE  LET r == CuUp(s, u, dead)
           IN  /\ UnitInv(r.cui[u], r.hwse, S, n, lost) /\ Serves(s, r, u)
               /\ r.cui[u].count <= s.cui[u].count
<1>1. PICK c : c = s.cui[u]
    OBVIOUS
<1>2. /\ c \in LaxUnit /\ s.cui \in [Ids -> LaxUnit] /\ s.hwse \in [Tasks -> Entity]
      /\ c.tree \in Seq(Tasks)
    BY <1>1 DEF KernelState, LaxUnit
<1>3. /\ UnitInv(c, s.hwse, S, n + 1, lost)
      /\ Cardinality(Holders(c, s.hwse, S)) \in Nat
    BY <1>1, <1>2, HoldersFinite, Zenon
<1>4. c.count \in Int /\ Down(c.count) = c.count - 1
    BY <1>2, <1>3 DEF UnitInv, LockInv, Down, LaxUnit
<1>5. PickNext(c, dead) =
        IF c.tree = <<>> THEN [next |-> NoTask, unit |-> c]
        ELSE [next |-> c.tree[1], unit |-> SetNextEntity(c, 1)]
    <2>1. ToSet(c.tree) \cap dead = {}
        BY <1>3 DEF UnitInv, LockInv
    <2> QED BY <1>2, <2>1, PickedFirst, Zenon
<1>6. CASE c.count > c.maxcount \/ c.tree = <<>>
    <2>1. PICK d : d = [c EXCEPT !.count = Down(@)]
        OBVIOUS
    <2>2. CuUp(s, u, dead) = [s EXCEPT !.cui[u] = d]
        <3>1. CASE c.count > c.maxcount
            BY <1>1, <2>1, <3>1, Zenon DEF CuUp
        <3>2. CASE ~(c.count > c.maxcount)
            <4>1. PickNext(c, dead) = [next |-> NoTask, unit |-> c]
                BY <1>5, <1>6, <3>2
            <4>2. PickNext(c, dead).next = NoTask /\ PickNext(c, dead).unit = c
                BY <4>1
            <4> QED BY <1>1, <2>1, <3>2, <4>2, Zenon DEF CuUp
        <3> QED BY <3>1, <3>2
    <2>3. PICK r : r = CuUp(s, u, dead)
        OBVIOUS
    <2>4. r.cui = [s.cui EXCEPT ![u] = d] /\ r.hwse = s.hwse
        BY <2>2, <2>3 DEF KernelState
    <2>5. r.cui[u] = d /\ \A v \in Ids \ {u} : r.cui[v] = s.cui[v]
        BY <1>2, <2>4
    <2>6. /\ d \in LaxUnit /\ d.count = c.count - 1
          /\ d.type = c.type /\ d.online = c.online /\ d.listed = c.listed
          /\ d.maxcount = c.maxcount /\ d.tree = c.tree /\ d.tasks = c.tasks
          /\ d.curr = c.curr /\ d.nr_running = c.nr_running
        <3>1. d = [c EXCEPT !.count = c.count - 1]
            BY <1>4, <2>1
        <3>2. c.count - 1 \in Int
            BY <1>4
        <3> QED BY <1>2, <3>1, <3>2 DEF LaxUnit
    <2>7. UnitInv(d, s.hwse, S, n, lost)
        <3>1. Holders(d, s.hwse, S) = Holders(c, s.hwse, S)
            BY <2>6 DEF Holders
        <3>2. d.count = Cardinality(Holders(d, s.hwse, S)) + n
            BY <1>3, <2>6, <3>1 DEF UnitInv, LockInv
        <3>3. d.tree # <<>> => d.count >= d.maxcount
            BY <1>2, <1>6, <2>6 DEF LaxUnit
        <3> QED BY <1>3, <2>6, <3>2, <3>3 DEF UnitInv, LockInv
    <2>8. Serves(s, r, u)
        BY <1>1, <2>4, <2>5, <2>6 DEF Serves
    <2>9. r.cui[u].count <= s.cui[u].count
        BY <1>1, <1>4, <2>5, <2>6
    <2> QED BY <2>3, <2>4, <2>5, <2>7, <2>8, <2>9
<1>7. CASE ~(c.count > c.maxcount) /\ c.tree # <<>>
    <2>1. PICK t : t = c.tree[1]
        OBVIOUS
    <2>2. PICK d : d = SetNextEntity(c, 1)
        OBVIOUS
    <2>3. PickNext(c, dead).next = t /\ PickNext(c, dead).unit = d
        BY <1>5, <1>7, <2>1, <2>2
    <2>4. 1 \in 1 .. Len(c.tree) /\ t \in Tasks
        BY <1>2, <1>7, <2>1
    <2>5. /\ d \in LaxUnit /\ d.nr_running = c.nr_running - 1 /\ d.curr = t
          /\ d.type = c.type /\ d.online = c.online /\ d.listed = c.listed
          /\ d.count = c.count /\ d.maxcount = c.maxcount /\ d.tasks = c.tasks
          /\ d.tree = SubSeq(c.tree, 1 + 1, Len(c.tree))
        BY <1>2, <2>1, <2>2, <2>4, SetNextIs
    <2>6. PICK h : h = [s.hwse EXCEPT ![t].semaphore_up = TRUE]
        OBVIOUS
    <2>7. t # NoTask
        BY <2>4, UnitsAssumption
    <2>8. PICK r : r = CuUp(s, u, dead)
        OBVIOUS
    <2>9. r = [[s EXCEPT !.cui[u] = d] EXCEPT !.hwse[t].semaphore_up = TRUE]
        BY <1>1, <1>7, <2>3, <2>7, <2>8, Zenon DEF CuUp
    <2>10. r.cui = [s.cui EXCEPT ![u] = d] /\ r.hwse = h
        <3>1. PICK q : q = [s EXCEPT !.cui[u] = d]
            OBVIOUS
        <3>2. q.cui = [s.cui EXCEPT ![u] = d] /\ q.hwse = s.hwse /\ DOMAIN q = DOMAIN s
            BY <3>1 DEF KernelState
        <3>3. r = [q EXCEPT !.hwse[t].semaphore_up = TRUE]
            BY <2>9, <3>1, Zenon
        <3>4. {"cui", "hwse"} \subseteq DOMAIN q
            BY <3>2 DEF KernelState
        <3>5. r.cui = q.cui /\ r.hwse = [q.hwse EXCEPT ![t].semaphore_up = TRUE]
            BY <3>3, <3>4
        <3> QED BY <2>6, <3>2, <3>5
    <2>11. r.cui[u] = d /\ \A v \in Ids \ {u} : r.cui[v] = s.cui[v]
        BY <1>2, <2>10
    <2>12. LockInv(c, s.hwse, S, n + 1, lost) /\ n + 1 \in Nat
        BY <1>3 DEF UnitInv
    <2>17. h \in [Tasks -> Entity] /\ Raised(s.hwse, h, t)
        BY <1>2, <2>4, <2>6, SemaphoreUp
    <2>13. /\ LockInv(d, h, S, n, lost)
           /\ t \in S /\ t \in ToSet(c.tree) /\ ToSet(d.tree) \subseteq ToSet(c.tree)
        <3>1. PICK k \in Nat : k = Cardinality(Holders(c, s.hwse, S))
            BY <1>3
        <3>2. PICK m \in Nat : m = n + 1
            BY <2>12
        <3>3. LockInv(c, s.hwse, S, m, lost)
            BY <2>12, <3>2
        <3>4. c.count = k + m
            BY <3>1, <3>3 DEF LockInv
        <3>5. k + m = k + 1 + n
            BY <3>1, <3>2
        <3>6. d.count = Cardinality(Holders(c, s.hwse, S)) + 1 + n
            BY <2>5, <3>1, <3>4, <3>5, Zenon
        <3>7. Hands(c, s.hwse, S, m, d, h, t, n, lost)
            BY <1>2, <1>7, <2>1, <2>5, <2>17, <3>3, <3>6, Zenon DEF Hands
        <3> QED BY <3>7, HandedOver, Zenon
    <2>14. UnitInv(d, h, S, n, lost)
        BY <1>3, <1>7, <2>5, <2>13 DEF UnitInv
    <2>15. Serves(s, r, u)
        BY <1>1, <2>5, <2>10, <2>11, <2>13, <2>17 DEF Serves, Raised
    <2>16. r.cui[u].count <= s.cui[u].count
        BY <1>1, <1>4, <2>5, <2>11
    <2> QED BY <2>8, <2>10, <2>11, <2>14, <2>15, <2>16
<1> QED BY <1>6, <1>7

-----------------------------------------------------------------------------
(* The recursive functions of the model: n calls of cu_up, n rounds of set. *)

\* Released is cu_up again and again.
LEMMA ReleasedStep ==
    ASSUME NEW s \in KernelState, NEW u \in Ids, NEW dead
    PROVE  /\ Released(s, u, dead)[0] = s
           /\ \A n \in Nat :
                LET r == Released(s, u, dead)[n]
                IN  /\ r \in KernelState
                    /\ r.active = s.active /\ r.nr_devices = s.nr_devices
                    /\ Released(s, u, dead)[n + 1] = CuUp(r, u, dead)
<1> DEFINE V == {r \in KernelState : r.active = s.active /\ r.nr_devices = s.nr_devices}
           D == [p \in Nat \X V |-> CuUp(p[2], u, dead)]
           F == Released(s, u, dead)
<1>1. D \in [Nat \X V -> V]
    <2> SUFFICES ASSUME NEW p \in Nat \X V PROVE CuUp(p[2], u, dead) \in V
        BY Zenon
    <2>1. PICK r \in V : r = p[2]
        OBVIOUS
    <2>2. /\ CuUp(r, u, dead) \in KernelState /\ CuUp(r, u, dead).active = r.active
          /\ CuUp(r, u, dead).nr_devices = r.nr_devices
        <3>1. r \in KernelState
            BY <2>1
        <3> QED BY <3>1, CuUpTyped, Zenon
    <2> QED BY <2>1, <2>2
<1>2. PICK g : Iterates(V, s, D, g)
    <2>1. s \in V
        OBVIOUS
    <2> HIDE DEF V, D, F
    <2> QED BY <1>1, <2>1, Recursion
<1>3. \A n \in Nat : g[n] \in V /\ g[n + 1] = CuUp(g[n], u, dead)
    <2> SUFFICES ASSUME NEW n \in Nat PROVE g[n] \in V /\ g[n + 1] = CuUp(g[n], u, dead)
        OBVIOUS
    <2>1. g[n] \in V /\ g[n + 1] = D[<<n, g[n]>>]
        BY <1>2, Zenon DEF Iterates
    <2>2. <<n, g[n]>> \in Nat \X V
        BY <2>1, Zenon
    <2>3. D[<<n, g[n]>>] = CuUp(<<n, g[n]>>[2], u, dead)
        BY <2>2, Zenon
    <2> HIDE DEF V, D
    <2> QED BY <2>1, <2>3
<1>4. g = [n \in Nat |-> IF n = 0 THEN s ELSE CuUp(g[n - 1], u, dead)]
    <2>1. ASSUME NEW n \in Nat, n # 0 PROVE g[n] = CuUp(g[n - 1], u, dead)
        <3>1. n - 1 \in Nat /\ (n - 1) + 1 = n
            BY <2>1
        <3>2. g[(n - 1) + 1] = CuUp(g[n - 1], u, dead)
            BY <1>3, <3>1, Zenon
        <3> QED BY <3>1, <3>2
    <2> HIDE DEF V, D
    <2> QED BY <2>1, <1>2 DEF Iterates
<1>5. F = [n \in Nat |-> IF n = 0 THEN s ELSE CuUp(F[n - 1], u, dead)]
    BY <1>4, Zenon DEF Released
<1> HIDE DEF F
<1>6. F[0] = s /\ \A n \in Nat : F[n + 1] = CuUp(F[n], u, dead)
    <2>1. ASSUME NEW n \in Nat PROVE F[n + 1] = CuUp(F[n], u, dead)
        <3>1. n + 1 \in Nat /\ n + 1 # 0 /\ (n + 1) - 1 = n
            OBVIOUS
        <3> QED BY <1>5, <3>1
    <2> QED BY <1>5, <2>1
<1>7. \A n \in Nat : F[n] \in V
    <2> DEFINE Done == {n \in Nat : F[n] \in V}
    <2>1. 0 \in Done
        BY <1>6
    <2>2. ASSUME NEW n \in Nat, n \in Done PROVE n + 1 \in Done
        <3>1. PICK r \in V : r = F[n]
            BY <2>2
        <3>2. /\ CuUp(r, u, dead) \in KernelState /\ CuUp(r, u, dead).active = r.active
              /\ CuUp(r, u, dead).nr_devices = r.nr_devices
            <4>1. r \in KernelState
                BY <3>1
            <4> QED BY <4>1, CuUpTyped, Zenon
        <3>3. F[n + 1] \in V
            BY <1>6, <3>1, <3>2
        <3> QED BY <3>3
    <2>3. Nat \subseteq Done
        <3> HIDE DEF Done
        <3> QED BY <2>1, <2>2, SetInduction
    <2> QED BY <2>3
<1> QED BY <1>6, <1>7 DEF F

\* n slots that nobody holds are released one by one.
LEMMA ReleasedReleases ==
    ASSUME NEW s \in KernelState, NEW u \in Ids, NEW dead, NEW S \in SUBSET Tasks,
           NEW n \in Nat, NEW lost \in SUBSET Tasks, S \cap dead = {},
           UnitInv(s.cui[u], s.hwse, S, n, lost)
    PROVE  LET r == Released(s, u, dead)[n]
           IN  /\ r \in KernelState /\ r.active = s.active /\ r.nr_devices = s.nr_devices
               /\ UnitInv(r.cui[u], r.hwse, S, 0, lost) /\ Serves(s, r, u)
               /\ r.cui[u].count <= s.cui[u].count
<1>0. /\ Released(s, u, dead)[0] = s
      /\ \A i \in Nat :
            LET r == Released(s, u, dead)[i]
            IN  /\ r \in KernelState
                /\ r.active = s.active /\ r.nr_devices = s.nr_devices
                /\ Released(s, u, dead)[i + 1] = CuUp(r, u, dead)
    BY ReleasedStep
<1> DEFINE F == Released(s, u, dead)
           Good(i) == /\ UnitInv(F[i].cui[u], F[i].hwse, S, n - i, lost)
                      /\ Serves(s, F[i], u)
                      /\ F[i].cui[u].count <= s.cui[u].count
           Done == {i \in Nat : i <= n => Good(i)}
<1>1. /\ F[0] = s
      /\ \A i \in Nat : /\ F[i] \in KernelState /\ F[i + 1] = CuUp(F[i], u, dead)
                       /\ F[i].active = s.active /\ F[i].nr_devices = s.nr_devices
    BY <1>0
<1>2. s.cui[u] \in LaxUnit /\ s.hwse \in [Tasks -> Entity]
    BY DEF KernelState
<1> HIDE DEF F
<1>3. 0 \in Done
    <2>1. Serves(s, s, u)
        BY DEF Serves
    <2>2. n - 0 = n
        OBVIOUS
    <2>3. s.cui[u].count <= s.cui[u].count
        BY <1>2 DEF LaxUnit
    <2>4. Good(0)
        BY <1>1, <2>1, <2>2, <2>3
    <2> QED BY <2>4
<1>4. ASSUME NEW i \in Nat, i \in Done PROVE i + 1 \in Done
    <2> SUFFICES ASSUME i + 1 <= n PROVE Good(i + 1)
        OBVIOUS
    <2>1. i <= n /\ n - (i + 1) \in Nat /\ n - i = (n - (i + 1)) + 1
        OBVIOUS
    <2>2. Good(i)
        BY <1>4, <2>1
    <2>3. PICK m \in Nat : m = n - (i + 1)
        BY <2>1
    <2>4. PICK r \in KernelState : r = F[i]
        BY <1>1
    <2>5. UnitInv(r.cui[u], r.hwse, S, m + 1, lost)
        BY <2>1, <2>2, <2>3, <2>4
    <2>6. LET q == CuUp(r, u, dead)
          IN  /\ UnitInv(q.cui[u], q.hwse, S, m, lost) /\ Serves(r, q, u)
              /\ q.cui[u].count <= r.cui[u].count
        BY <2>5, CuUpReleases, Zenon
    <2>7. PICK q : q = CuUp(r, u, dead)
        OBVIOUS
    <2>8. F[i + 1] = q
        BY <1>1, <2>4, <2>7
    <2>9. Serves(s, q, u)
        <3>1. Serves(s, r, u) /\ Serves(r, q, u)
            BY <2>2, <2>4, <2>6, <2>7
        <3> QED BY <1>2, <3>1, ServesTransitive, Zenon
    <2>10. q.cui[u].count <= s.cui[u].count
        <3>1. q \in KernelState
            BY <1>1, <2>8
        <3>2. q.cui[u].count \in Int /\ r.cui[u].count \in Int /\ s.cui[u].count \in Int
            BY <2>4, <3>1 DEF KernelState, LaxUnit
        <3>3. q.cui[u].count <= r.cui[u].count /\ r.cui[u].count <= s.cui[u].count
            BY <2>2, <2>4, <2>6, <2>7
        <3> QED BY <3>2, <3>3
    <2>11. UnitInv(q.cui[u], q.hwse, S, n - (i + 1), lost)
        BY <2>3, <2>6, <2>7
    <2> QED BY <2>8, <2>9, <2>10, <2>11
<1>5. n \in Done
    <2>1. Nat \subseteq Done
        <3> HIDE DEF Done
        <3> QED BY <1>3, <1>4, SetInduction
    <2> QED BY <2>1
<1>6. Good(n) /\ n - n = 0
    BY <1>5
<1>7. /\ F[n] \in KernelState /\ F[n].active = s.active /\ F[n].nr_devices = s.nr_devices
    BY <1>1, SMTT(30)
<1> QED BY <1>6, <1>7 DEF F

\* Tidying takes the dead out of the list of holders and releases their slots.
LEMMA TidyTidies ==
    ASSUME NEW s \in KernelState, NEW u \in Ids, NEW dead, NEW S \in SUBSET Tasks,
           NEW lost \in SUBSET Tasks, S \cap dead = {},
           UnitInv(s.cui[u], s.hwse, S, 0, lost)
    PROVE  LET reaped == [s EXCEPT !.cui[u].tasks = @ \ dead]
               r == Tidy(s, u, dead)
           IN  /\ reaped.cui = [s.cui EXCEPT ![u].tasks = @ \ dead]
               /\ reaped.hwse = s.hwse /\ reaped.cui[u] \in LaxUnit
               /\ r \in KernelState /\ r.active = s.active /\ r.nr_devices = s.nr_devices
               /\ UnitInv(r.cui[u], r.hwse, S, 0, lost) /\ Serves(reaped, r, u)
               /\ r.cui[u].count <= s.cui[u].count
<1>1. PICK c : c = s.cui[u]
    OBVIOUS
<1>2. /\ c \in LaxUnit /\ s.cui \in [Ids -> LaxUnit] /\ s.hwse \in [Tasks -> Entity]
      /\ c.tasks \subseteq Tasks /\ c.count \in Int
    BY <1>1 DEF KernelState, LaxUnit
<1>3. PICK z : z = c.tasks \cap dead
    OBVIOUS
<1>4. PICK d : d = [c EXCEPT !.tasks = c.tasks \ dead]
    OBVIOUS
<1>5. PICK p : p = [s EXCEPT !.cui[u].tasks = @ \ dead]
    OBVIOUS
<1>6. p = [s EXCEPT !.cui = [s.cui EXCEPT ![u] = d]]
    BY <1>1, <1>4, <1>5, Zenon
<1>7. /\ d \in LaxUnit /\ d.tasks = c.tasks \ dead
      /\ d.type = c.type /\ d.online = c.online /\ d.listed = c.listed
      /\ d.count = c.count /\ d.maxcount = c.maxcount /\ d.tree = c.tree
      /\ d.curr = c.curr /\ d.nr_running = c.nr_running
    <2>1. c.tasks \ dead \in SUBSET Tasks
        BY <1>2
    <2> QED BY <1>2, <1>4, <2>1 DEF LaxUnit
<1>8. [s.cui EXCEPT ![u] = d] \in [Ids -> LaxUnit]
    BY <1>2, <1>7
<1>9. /\ p \in KernelState /\ p.cui = [s.cui EXCEPT ![u] = d] /\ p.hwse = s.hwse
      /\ p.active = s.active /\ p.nr_devices = s.nr_devices
    BY <1>6, <1>8 DEF KernelState
<1>10. p.cui[u] = d /\ p.cui = [s.cui EXCEPT ![u].tasks = @ \ dead]
    BY <1>1, <1>2, <1>4, <1>9, Zenon
<1>11. Cardinality(z) \in Nat /\ UnitInv(d, s.hwse, S, Cardinality(z), lost)
    <2>1. UnitInv(c, s.hwse, S, 0, lost)
        BY <1>1
    <2>2. /\ Holders(c, s.hwse, S) = Holders(d, s.hwse, S) \cup z
          /\ Holders(d, s.hwse, S) \cap z = {}
        BY <1>3, <1>7, <2>1 DEF Holders, UnitInv, LockInv
    <2>3. z \subseteq Tasks /\ IsFiniteSet(z) /\ Cardinality(z) \in Nat
        <3>1. z \subseteq Tasks
            BY <1>2, <1>3
        <3> QED BY <3>1, UnitsAssumption, FS_Subset, FS_CardinalityType, Zenon
    <2>4. /\ IsFiniteSet(Holders(d, s.hwse, S))
          /\ Cardinality(Holders(d, s.hwse, S)) \in Nat
        BY <1>7, HoldersFinite, Zenon
    <2>5. Cardinality(Holders(c, s.hwse, S)) =
            Cardinality(Holders(d, s.hwse, S)) + Cardinality(z)
        <3> DEFINE A == Holders(d, s.hwse, S)
        <3>1. Cardinality(A \cup z) = Cardinality(A) + Cardinality(z) - Cardinality(A \cap z)
            BY <2>3, <2>4, FS_Union, Zenon
        <3>2. Cardinality(A \cap z) = 0
            BY <2>2, FS_EmptySet
        <3> HIDE DEF A
        <3>3. Cardinality(A) \in Nat
            BY <2>4 DEF A
        <3> QED BY <2>2, <2>3, <3>1, <3>2, <3>3 DEF A
    <2>6. d.count = Cardinality(Holders(d, s.hwse, S)) + Cardinality(z)
        BY <1>7, <2>1, <2>3, <2>4, <2>5 DEF UnitInv, LockInv
    <2> QED BY <1>7, <2>1, <2>3, <2>6 DEF UnitInv, LockInv
<1>12. PICK n \in Nat : n = Cardinality(z)
    BY <1>11
<1>13. UnitInv(p.cui[u], p.hwse, S, n, lost)
    BY <1>9, <1>10, <1>11, <1>12
<1>14. LET r == Released(p, u, dead)[n]
       IN  /\ r \in KernelState /\ r.active = p.active /\ r.nr_devices = p.nr_devices
           /\ UnitInv(r.cui[u], r.hwse, S, 0, lost) /\ Serves(p, r, u)
           /\ r.cui[u].count <= p.cui[u].count
    BY <1>9, <1>13, ReleasedReleases, Zenon
<1>15. Tidy(s, u, dead) = Released(p, u, dead)[n]
    BY <1>1, <1>3, <1>5, <1>12, Zenon DEF Tidy
<1> QED BY <1>1, <1>5, <1>7, <1>9, <1>10, <1>14, <1>15

-----------------------------------------------------------------------------
(* The loop of computing_unit_set.                                         *)

WokenState ==
    [cui : [Ids -> LaxUnit], hwse : [Tasks -> Entity], broke : BOOLEAN, lost : SUBSET Tasks]

\* A round of it, as in Woken.
Round(r, u, dead) ==
    LET picked == PickNext(r.cui[u], dead)
        c == picked.unit
    IN  IF r.broke THEN r
        ELSE IF picked.next = NoTask \/ c.count > c.maxcount
        THEN [r EXCEPT !.cui[u] = c, !.broke = TRUE, !.lost = {picked.next} \ {NoTask}]
        ELSE [r EXCEPT !.cui[u] = [c EXCEPT !.count = Up(@)],
                       !.hwse[picked.next].semaphore_up = TRUE]

\* A round from r to q picks thread p.next and leaves unit c.
IsRound(r, u, dead, p, c, q) ==
    /\ r \in WokenState /\ u \in Ids
    /\ p = PickNext(r.cui[u], dead) /\ c = p.unit /\ q = Round(r, u, dead)

\* The three outcomes of a round, field by field.
Outcome(r, u, p, c, q) ==
    /\ c \in LaxUnit /\ p.next \in Tasks \cup {NoTask} /\ q \in WokenState
    /\ r.broke => q = r
    /\ ~r.broke /\ (p.next = NoTask \/ c.count > c.maxcount) =>
         /\ q.cui = [r.cui EXCEPT ![u] = c]
         /\ q.hwse = r.hwse /\ q.broke /\ q.lost = {p.next} \ {NoTask}
    /\ ~r.broke /\ ~(p.next = NoTask \/ c.count > c.maxcount) =>
         /\ q.cui = [r.cui EXCEPT ![u] = [c EXCEPT !.count = Up(@)]]
         /\ q.hwse = [r.hwse EXCEPT ![p.next].semaphore_up = TRUE]
         /\ ~q.broke /\ q.lost = r.lost

\* A round is what the definition of Woken says it is,
LEMMA RoundIs ==
    ASSUME NEW r, NEW u, NEW dead, NEW p, NEW c, NEW q, IsRound(r, u, dead, p, c, q)
    PROVE  Outcome(r, u, p, c, q)
<1>0. /\ r \in WokenState /\ u \in Ids
      /\ p = PickNext(r.cui[u], dead) /\ c = p.unit /\ q = Round(r, u, dead)
    BY Zenon DEF IsRound
<1>1. r.cui[u] \in LaxUnit /\ r.cui \in [Ids -> LaxUnit] /\ r.hwse \in [Tasks -> Entity]
    BY <1>0 DEF WokenState
<1>2. c \in LaxUnit /\ p.next \in Tasks \cup {NoTask}
    BY <1>0, <1>1, PickedIs, Zenon
<1>3. CASE r.broke
    <2>1. q = r
        BY <1>0, <1>3, Zenon DEF Round
    <2> QED BY <1>0, <1>2, <1>3, <2>1 DEF Outcome
<1>4. CASE ~r.broke /\ (p.next = NoTask \/ c.count > c.maxcount)
    <2>1. PICK x : x = [r.cui EXCEPT ![u] = c]
        OBVIOUS
    <2>2. x \in [Ids -> LaxUnit]
        BY <1>0, <1>1, <1>2, <2>1
    <2>3. PICK r1 : r1 = [r EXCEPT !.cui = x]
        OBVIOUS
    <2>4. r1 \in WokenState /\ r1.cui = x /\ r1.hwse = r.hwse
        BY <1>0, <2>2, <2>3 DEF WokenState
    <2>5. PICK L \in SUBSET Tasks : L = {p.next} \ {NoTask}
        BY <1>2
    <2>6. PICK r2 : r2 = [r1 EXCEPT !.broke = TRUE]
        OBVIOUS
    <2>7. r2 \in WokenState /\ r2.cui = x /\ r2.hwse = r.hwse /\ r2.broke
        BY <2>4, <2>6 DEF WokenState
    <2>8. q = [r2 EXCEPT !.lost = L]
        BY <1>0, <1>4, <2>1, <2>3, <2>5, <2>6, Zenon DEF Round
    <2>9. q \in WokenState /\ q.cui = x /\ q.hwse = r.hwse /\ q.broke /\ q.lost = L
        BY <2>7, <2>8 DEF WokenState
    <2> QED BY <1>2, <1>4, <2>1, <2>5, <2>9, Zenon DEF Outcome
<1>5. CASE ~r.broke /\ ~(p.next = NoTask \/ c.count > c.maxcount)
    <2>1. PICK d : d = [c EXCEPT !.count = Up(@)]
        OBVIOUS
    <2>2. PICK x : x = [r.cui EXCEPT ![u] = d]
        OBVIOUS
    <2>3. PICK y : y = [r.hwse EXCEPT ![p.next].semaphore_up = TRUE]
        OBVIOUS
    <2>4. d \in LaxUnit
        <3>1. c.count \in Int /\ UintMax + 1 \in Nat \ {0}
            BY <1>2, UnitsAssumption DEF LaxUnit
        <3>2. Up(c.count) \in Int
            BY <3>1 DEF Up
        <3> QED BY <1>2, <2>1, <3>2 DEF LaxUnit
    <2>5. x \in [Ids -> LaxUnit]
        BY <1>0, <1>1, <2>2, <2>4
    <2>6. y \in [Tasks -> Entity]
        <3>1. p.next \in Tasks
            BY <1>2, <1>5
        <3> QED BY <1>1, <2>3, <3>1, SemaphoreUp, Zenon
    <2>7. PICK r1 : r1 = [r EXCEPT !.cui = x]
        OBVIOUS
    <2>8. r1 \in WokenState /\ r1.cui = x /\ r1.broke = r.broke /\ r1.lost = r.lost
        BY <1>0, <2>5, <2>7 DEF WokenState
    <2>9. q = [r1 EXCEPT !.hwse = y]
        BY <1>0, <1>5, <2>1, <2>2, <2>3, <2>7, Zenon DEF Round
    <2>10. q \in WokenState /\ q.cui = x /\ q.hwse = y /\ ~q.broke /\ q.lost = r.lost
        BY <1>5, <2>6, <2>8, <2>9 DEF WokenState
    <2>11. /\ q.cui = [r.cui EXCEPT ![u] = [c EXCEPT !.count = Up(@)]]
           /\ q.hwse = [r.hwse EXCEPT ![p.next].semaphore_up = TRUE]
        BY <2>1, <2>2, <2>3, <2>10, Zenon
    <2> QED BY <1>2, <1>5, <2>10, <2>11, Zenon DEF Outcome
<1> QED BY <1>3, <1>4, <1>5

\* and keeps the types.
LEMMA RoundTyped ==
    ASSUME NEW r \in WokenState, NEW u \in Ids, NEW dead
    PROVE  Round(r, u, dead) \in WokenState
<1>1. PICK p : p = PickNext(r.cui[u], dead)
    OBVIOUS
<1>2. PICK c : c = p.unit
    OBVIOUS
<1>3. PICK q : q = Round(r, u, dead)
    OBVIOUS
<1>4. Outcome(r, u, p, c, q)
    <2>1. IsRound(r, u, dead, p, c, q)
        BY <1>1, <1>2, <1>3, Zenon DEF IsRound
    <2> QED BY <2>1, RoundIs, Zenon
<1> QED BY <1>3, <1>4, Zenon DEF Outcome

\* Woken is round after round.
LEMMA WokenStep ==
    ASSUME NEW s, s.cui \in [Ids -> LaxUnit], s.hwse \in [Tasks -> Entity],
           NEW u \in Ids, NEW dead
    PROVE  /\ Woken(s, u, dead)[0]
                = [cui |-> s.cui, hwse |-> s.hwse, broke |-> FALSE, lost |-> {}]
           /\ \A n \in Nat :
                /\ Woken(s, u, dead)[n] \in WokenState
                /\ Woken(s, u, dead)[n + 1] = Round(Woken(s, u, dead)[n], u, dead)
<1> DEFINE V == WokenState
           D == [p \in Nat \X V |-> Round(p[2], u, dead)]
           F == Woken(s, u, dead)
<1> DEFINE b == [cui |-> s.cui, hwse |-> s.hwse, broke |-> FALSE, lost |-> {}]
<1>0. b \in V
    BY DEF WokenState
<1>1. D \in [Nat \X V -> V]
    <2> SUFFICES ASSUME NEW p \in Nat \X V PROVE Round(p[2], u, dead) \in V
        BY Zenon
    <2>1. PICK r \in V : r = p[2]
        OBVIOUS
    <2> QED BY <2>1, RoundTyped, Zenon
<1>2. PICK g : Iterates(V, b, D, g)
    <2> HIDE DEF V, D, F, b
    <2> QED BY <1>0, <1>1, Recursion
<1>3. \A n \in Nat : g[n] \in V /\ g[n + 1] = Round(g[n], u, dead)
    <2> SUFFICES ASSUME NEW n \in Nat PROVE g[n] \in V /\ g[n + 1] = Round(g[n], u, dead)
        OBVIOUS
    <2>1. g[n] \in V /\ g[n + 1] = D[<<n, g[n]>>]
        BY <1>2, Zenon DEF Iterates
    <2>2. <<n, g[n]>> \in Nat \X V
        BY <2>1, Zenon
    <2>3. D[<<n, g[n]>>] = Round(<<n, g[n]>>[2], u, dead)
        BY <2>2, Zenon
    <2> HIDE DEF V, D
    <2> QED BY <2>1, <2>3
<1>4. g = [n \in Nat |-> IF n = 0 THEN b ELSE Round(g[n - 1], u, dead)]
    <2>1. ASSUME NEW n \in Nat, n # 0 PROVE g[n] = Round(g[n - 1], u, dead)
        <3>1. n - 1 \in Nat /\ (n - 1) + 1 = n
            BY <2>1
        <3>2. g[(n - 1) + 1] = Round(g[n - 1], u, dead)
            BY <1>3, <3>1, Zenon
        <3> QED BY <3>1, <3>2
    <2> HIDE DEF V, D, b
    <2> QED BY <2>1, <1>2 DEF Iterates
<1>5. F = [n \in Nat |-> IF n = 0 THEN b ELSE Round(F[n - 1], u, dead)]
    BY <1>4, ZenonT(40) DEF Woken, Round
<1> HIDE DEF F, b
<1>6. F[0] = b /\ \A n \in Nat : F[n + 1] = Round(F[n], u, dead)
    <2>1. ASSUME NEW n \in Nat PROVE F[n + 1] = Round(F[n], u, dead)
        <3>1. n + 1 \in Nat /\ n + 1 # 0 /\ (n + 1) - 1 = n
            OBVIOUS
        <3> QED BY <1>5, <3>1
    <2> QED BY <1>5, <2>1
<1>7. \A n \in Nat : F[n] \in V
    <2> DEFINE Done == {n \in Nat : F[n] \in V}
    <2>1. 0 \in Done
        BY <1>0, <1>6
    <2>2. ASSUME NEW n \in Nat, n \in Done PROVE n + 1 \in Done
        <3>1. PICK r \in V : r = F[n]
            BY <2>2
        <3>2. Round(r, u, dead) \in V
            BY <3>1, RoundTyped, Zenon
        <3>3. F[n + 1] \in V
            BY <1>6, <3>1, <3>2
        <3> QED BY <3>3
    <2>3. Nat \subseteq Done
        <3> HIDE DEF Done
        <3> QED BY <2>1, <2>2, SetInduction
    <2> QED BY <2>3
<1> QED BY <1>6, <1>7 DEF F, b

\* unsigned int arithmetic below the limit.
LEMMA UpIs ==
    ASSUME NEW n \in Nat, n < UintMax
    PROVE  Up(n) = n + 1
<1>1. UintMax \in Nat
    BY UnitsAssumption
<1>2. PICK m \in Nat : m = UintMax + 1
    BY <1>1
<1>3. n + 1 \in 0 .. m - 1
    BY <1>1, <1>2
<1>4. (n + 1) % m = n + 1
    BY <1>2, <1>3
<1> QED BY <1>2, <1>4 DEF Up

\* A round: nobody waits, or the first thread is dropped, or it gets a slot.
Rouses(r, u, dead, S, c, q, lost) ==
    /\ r \in WokenState /\ u \in Ids /\ S \in SUBSET Tasks /\ lost \in SUBSET Tasks
    /\ S \cap dead = {} /\ ~r.broke /\ r.lost = {}
    /\ c = r.cui[u] /\ LockInv(c, r.hwse, S, 0, lost) /\ q = Round(r, u, dead)

Roused(r, u, S, c, q, lost) ==
    /\ LockInv(q.cui[u], q.hwse, S, 0, lost \cup q.lost) /\ Serves(r, q, u)
    /\ ~q.broke => q.lost = {}
    /\ q.cui[u].count = c.count + (IF q.broke THEN 0 ELSE 1)
    /\ q.broke => q.cui[u].tree = <<>> \/ c.count > c.maxcount

\* A round keeps the lock intact.
LEMMA RoundWakes ==
    ASSUME NEW r, NEW u, NEW dead, NEW S, NEW c, NEW q, NEW lost,
           Rouses(r, u, dead, S, c, q, lost)
    PROVE  Roused(r, u, S, c, q, lost)
<1> /\ r \in WokenState /\ u \in Ids /\ S \in SUBSET Tasks /\ lost \in SUBSET Tasks
    /\ S \cap dead = {} /\ ~r.broke /\ r.lost = {}
    /\ c = r.cui[u] /\ LockInv(c, r.hwse, S, 0, lost) /\ q = Round(r, u, dead)
    BY Zenon DEF Rouses
<1>1. PICK p : p = PickNext(r.cui[u], dead)
    OBVIOUS
<1>2. PICK d : d = p.unit
    OBVIOUS
<1>0. IsRound(r, u, dead, p, d, q)
    BY <1>1, <1>2, Zenon DEF IsRound
<1>9. Outcome(r, u, p, d, q)
    BY <1>0, RoundIs, Zenon
<1>3. /\ d \in LaxUnit /\ p.next \in Tasks \cup {NoTask} /\ q \in WokenState
      /\ (p.next = NoTask \/ d.count > d.maxcount) =>
           /\ q.cui = [r.cui EXCEPT ![u] = d]
           /\ q.hwse = r.hwse /\ q.broke /\ q.lost = {p.next} \ {NoTask}
    BY <1>9, Zenon DEF Outcome
<1>8. ~(p.next = NoTask \/ d.count > d.maxcount) =>
           /\ q.cui = [r.cui EXCEPT ![u] = [d EXCEPT !.count = Up(@)]]
           /\ q.hwse = [r.hwse EXCEPT ![p.next].semaphore_up = TRUE]
           /\ ~q.broke /\ q.lost = {}
    BY <1>9, Zenon DEF Outcome
<1>4. /\ c \in LaxUnit /\ r.cui \in [Ids -> LaxUnit] /\ r.hwse \in [Tasks -> Entity]
      /\ c.count \in Int /\ c.maxcount \in Int /\ c.tree \in Seq(Tasks)
    BY UnitsAssumption, SMTT(30) DEF WokenState, LaxUnit
<1>5. p = IF c.tree = <<>> THEN [next |-> NoTask, unit |-> c]
          ELSE [next |-> c.tree[1], unit |-> SetNextEntity(c, 1)]
    <2>1. ToSet(c.tree) \cap dead = {}
        BY DEF LockInv
    <2> QED BY <1>1, <1>4, <2>1, PickedFirst, Zenon
<1>6. CASE c.tree = <<>>
    <2>1. p.next = NoTask /\ d = c
        BY <1>2, <1>5, <1>6
    <2>2. q.cui = [r.cui EXCEPT ![u] = d] /\ q.hwse = r.hwse /\ q.broke /\ q.lost = {}
        BY <1>3, <2>1
    <2>3. q.cui = r.cui
        BY <1>4, <2>1, <2>2
    <2>4. Serves(r, q, u)
        BY <2>2, <2>3 DEF Serves
    <2>5. q.cui[u] = c /\ LockInv(q.cui[u], q.hwse, S, 0, lost \cup q.lost)
        <3>1. lost \cup q.lost = lost
            BY <2>2
        <3> QED BY <2>2, <2>3, <3>1
    <2>6. q.cui[u].count = c.count + 0
        BY <1>4, <2>5
    <2> QED BY <1>6, <2>2, <2>4, <2>5, <2>6 DEF Roused
<1>7. CASE c.tree # <<>>
    <2>1. PICK t : t = c.tree[1]
        OBVIOUS
    <2>2. t \in Tasks /\ t # NoTask /\ 1 \in 1 .. Len(c.tree) /\ t \in ToSet(c.tree)
        BY <1>4, <1>7, <2>1, UnitsAssumption, SeqFacts
    <2>3. d = SetNextEntity(c, 1) /\ p.next = t
        BY <1>2, <1>5, <1>7, <2>1
    <2>4. /\ d.nr_running = c.nr_running - 1 /\ d.curr = t
          /\ d.type = c.type /\ d.online = c.online /\ d.listed = c.listed
          /\ d.count = c.count /\ d.maxcount = c.maxcount /\ d.tasks = c.tasks
          /\ d.tree = SubSeq(c.tree, 1 + 1, Len(c.tree))
        BY <1>4, <2>1, <2>2, <2>3, SetNextIs, SMTT(30)
    <2>5. ToSet(d.tree) = ToSet(c.tree) \ {t} /\ Injective(d.tree)
        <3>1. Injective(c.tree)
            BY DEF LockInv
        <3>2. LET x == SubSeq(c.tree, 1 + 1, Len(c.tree))
              IN  /\ x \in Seq(Tasks) /\ Injective(x) /\ Len(x) = Len(c.tree) - 1
                  /\ c.tree[1] \in ToSet(c.tree) /\ ToSet(x) = ToSet(c.tree) \ {c.tree[1]}
            BY <1>4, <1>7, <3>1, RestIs, Zenon
        <3> QED BY <2>1, <2>4, <3>2
    <2>6. CASE c.count > c.maxcount
        <3>1. q.cui = [r.cui EXCEPT ![u] = d] /\ q.hwse = r.hwse /\ q.broke /\ q.lost = {t}
            BY <1>3, <2>2, <2>3, <2>4, <2>6
        <3>2. q.cui[u] = d /\ \A v \in Ids \ {u} : q.cui[v] = r.cui[v]
            BY <1>4, <3>1
        <3>3. PICK L : L = lost \cup q.lost
            OBVIOUS
        <3>4. LockInv(d, r.hwse, S, 0, L)
            <4>1. Holders(d, r.hwse, S) = Holders(c, r.hwse, S)
                BY <2>4 DEF Holders
            <4>2. t \in L /\ L # {} /\ lost \subseteq L
                BY <3>1, <3>3
            <4> QED BY <1>3, <2>2, <2>4, <2>5, <4>1, <4>2 DEF LockInv
        <3>5. Serves(r, q, u)
            BY <2>2, <2>4, <2>5, <3>1, <3>2 DEF Serves
        <3> QED BY <1>4, <2>4, <2>6, <3>1, <3>2, <3>3, <3>4, <3>5 DEF Roused
    <2>7. CASE ~(c.count > c.maxcount)
        <3>1. PICK e : e = [d EXCEPT !.count = Up(@)]
            OBVIOUS
        <3>2. PICK h : h = [r.hwse EXCEPT ![t].semaphore_up = TRUE]
            OBVIOUS
        <3>3. q.cui = [r.cui EXCEPT ![u] = e] /\ q.hwse = h /\ ~q.broke /\ q.lost = {}
            BY <1>8, <2>2, <2>3, <2>4, <2>7, <3>1, <3>2
        <3>4. q.cui[u] = e /\ \A v \in Ids \ {u} : q.cui[v] = r.cui[v]
            BY <1>4, <3>3
        <3>5. PICK k \in Nat : k = Cardinality(Holders(c, r.hwse, S))
            BY <1>4, HoldersFinite, Zenon
        <3>6. c.count = k /\ k < UintMax
            <4>1. c.count = k + 0
                BY <3>5 DEF LockInv
            <4>2. t \notin Holders(c, r.hwse, S)
                BY <2>2 DEF LockInv, Holders
            <4>3. k < UintMax
                BY <1>4, <2>2, <3>5, <4>2, HoldersBound, Zenon
            <4> QED BY <4>1, <4>3
        <3>7. Up(d.count) = c.count + 1
            BY <2>4, <3>6, UpIs
        <3>8. /\ e \in LaxUnit /\ e.count = c.count + 1
              /\ e.nr_running = d.nr_running /\ e.curr = d.curr
              /\ e.type = d.type /\ e.online = d.online /\ e.listed = d.listed
              /\ e.maxcount = d.maxcount /\ e.tasks = d.tasks /\ e.tree = d.tree
            <4>1. e = [d EXCEPT !.count = c.count + 1] /\ c.count + 1 \in Int
                BY <1>4, <3>1, <3>7
            <4> QED BY <1>3, <4>1 DEF LaxUnit
        <3>9. h \in [Tasks -> Entity] /\ Raised(r.hwse, h, t)
            BY <1>4, <2>2, <3>2, SemaphoreUp, Zenon
        <3>10. e.count = Cardinality(Holders(c, r.hwse, S)) + 1 + 0
            BY <3>5, <3>6, <3>8
        <3>11. Hands(c, r.hwse, S, 0, e, h, t, 0, lost)
            <4>1. 0 \in Nat /\ e.tree = SubSeq(c.tree, 1 + 1, Len(c.tree)) /\ e.curr = c.tree[1]
                  /\ e.nr_running = c.nr_running - 1 /\ e.tasks = c.tasks
                BY <2>1, <2>4, <3>8
            <4> QED BY <1>4, <1>7, <2>1, <3>8, <3>9, <3>10, <4>1, Zenon DEF Hands
        <3>12. LockInv(e, h, S, 0, lost)
            BY <3>11, HandedOver, Zenon
        <3>13. Serves(r, q, u)
            BY <2>2, <2>4, <2>5, <3>3, <3>4, <3>8, <3>9 DEF Serves, Raised
        <3>14. lost \cup q.lost = lost
            BY <3>3
        <3> QED BY <3>3, <3>4, <3>8, <3>12, <3>13, <3>14 DEF Roused
    <2> QED BY <2>6, <2>7
<1> QED BY <1>6, <1>7

\* The waiting threads of unit u, whose maxcount was m before, after i rounds.
WokenSoFar(s, r, u, S, m, i, lost) ==
    LET c == r.cui[u]
    IN  /\ LockInv(c, r.hwse, S, 0, lost \cup r.lost) /\ Serves(s, r, u)
        /\ r.broke => c.tree = <<>> \/ c.count >= c.maxcount
        /\ ~r.broke => r.lost = {} /\ (c.tree # <<>> => c.count >= m + i)

\* computing_unit_set wakes as many threads as there are new slots, or all.
Sets(s, u, S, m, n, lost) ==
    LET c == s.cui[u]
    IN  /\ s.cui \in [Ids -> LaxUnit] /\ s.hwse \in [Tasks -> Entity] /\ u \in Ids
        /\ S \in SUBSET Tasks /\ lost \in SUBSET Tasks /\ n \in Nat /\ m \in Int
        /\ LockInv(c, s.hwse, S, 0, lost)
        /\ c.tree # <<>> => c.count >= m
        /\ c.maxcount <= m + n

\* All rounds of computing_unit_set do.
LEMMA WokenWakes ==
    ASSUME NEW s, NEW u, NEW dead, NEW S, NEW m, NEW n, NEW lost,
           Sets(s, u, S, m, n, lost), S \cap dead = {},
           NEW r, r = Woken(s, u, dead)[n]
    PROVE  /\ r \in WokenState /\ Serves(s, r, u)
           /\ UnitInv(r.cui[u], r.hwse, S, 0, lost \cup r.lost)
<1>1. /\ s.cui \in [Ids -> LaxUnit] /\ s.hwse \in [Tasks -> Entity] /\ u \in Ids
      /\ S \in SUBSET Tasks /\ lost \in SUBSET Tasks /\ n \in Nat /\ m \in Int
      /\ LockInv(s.cui[u], s.hwse, S, 0, lost)
      /\ s.cui[u].tree # <<>> => s.cui[u].count >= m
      /\ s.cui[u].maxcount <= m + n
    BY Zenon DEF Sets
<1>2. PICK F : F = Woken(s, u, dead)
    OBVIOUS
<1>3. F[0] = [cui |-> s.cui, hwse |-> s.hwse, broke |-> FALSE, lost |-> {}]
    BY <1>1, <1>2, WokenStep
<1>4. \A i \in Nat : F[i] \in WokenState /\ F[i + 1] = Round(F[i], u, dead)
    <2>1. /\ Woken(s, u, dead)[0]
                = [cui |-> s.cui, hwse |-> s.hwse, broke |-> FALSE, lost |-> {}]
          /\ \A i \in Nat :
                /\ Woken(s, u, dead)[i] \in WokenState
                /\ Woken(s, u, dead)[i + 1] = Round(Woken(s, u, dead)[i], u, dead)
        BY <1>1, WokenStep, Zenon
    <2> QED BY <1>2, <2>1, Zenon
<1>5. PICK k : k = s.cui[u].count
    OBVIOUS
<1>6. s.cui[u].count \in Int /\ s.cui[u].maxcount \in Int
    <2>1. PICK c : c = s.cui[u]
        OBVIOUS
    <2>2. c \in LaxUnit
        BY <1>1, <2>1, Zenon
    <2>3. c.count \in Int /\ c.maxcount \in 0 .. UintMax
        BY <2>2 DEF LaxUnit
    <2>4. UintMax \in Nat
        BY UnitsAssumption
    <2>5. c.maxcount \in Int
        BY <2>3, <2>4
    <2> QED BY <2>1, <2>3, <2>5, Zenon
<1> DEFINE Good == {i \in Nat : i <= n => WokenSoFar(s, F[i], u, S, m, i, lost)}
<1>7. 0 \in Good
    <2>1. PICK q : q = F[0]
        OBVIOUS
    <2>2. /\ q.cui = s.cui /\ q.hwse = s.hwse /\ q.broke = FALSE
          /\ q.lost = {} /\ lost \cup q.lost = lost
        BY <1>3, <2>1
    <2>3. Serves(s, q, u)
        BY <1>1, <2>2 DEF Serves
    <2>4. LockInv(q.cui[u], q.hwse, S, 0, lost \cup q.lost)
        BY <1>1, <2>2, Zenon
    <2>5. q.cui[u].tree # <<>> => q.cui[u].count >= m + 0
        BY <1>1, <2>2
    <2>6. WokenSoFar(s, q, u, S, m, 0, lost)
        BY <2>2, <2>3, <2>4, <2>5, Zenon DEF WokenSoFar
    <2> QED BY <2>1, <2>6, Zenon
<1>8. ASSUME NEW i \in Nat, i \in Good PROVE i + 1 \in Good
    <2> SUFFICES ASSUME i + 1 <= n PROVE WokenSoFar(s, F[i + 1], u, S, m, i + 1, lost)
        OBVIOUS
    <2>1. PICK q : q = F[i]
        OBVIOUS
    <2>2. PICK x : x = F[i + 1]
        OBVIOUS
    <2>3. q \in WokenState /\ x = Round(q, u, dead) /\ x \in WokenState
        BY <1>4, <2>1, <2>2
    <2>4. WokenSoFar(s, q, u, S, m, i, lost)
        <3>1. i <= n
            BY <1>1
        <3> QED BY <1>8, <2>1, <3>1, Zenon
    <2> HIDE DEF Good
    <2>5. PICK c : c = q.cui[u]
        OBVIOUS
    <2>6. /\ LockInv(c, q.hwse, S, 0, lost \cup q.lost) /\ Serves(s, q, u)
          /\ q.broke => c.tree = <<>> \/ c.count >= c.maxcount
          /\ ~q.broke => q.lost = {} /\ (c.tree # <<>> => c.count >= m + i)
        BY <2>4, <2>5, Zenon DEF WokenSoFar
    <2>7. c \in LaxUnit /\ x.cui[u] \in LaxUnit /\ c.count \in Int /\ c.maxcount \in Int
        <3>1. q.cui \in [Ids -> LaxUnit] /\ x.cui \in [Ids -> LaxUnit]
            BY <2>3 DEF WokenState
        <3>2. c \in LaxUnit /\ x.cui[u] \in LaxUnit
            BY <1>1, <2>5, <3>1
        <3>3. c.count \in Int /\ c.maxcount \in 0 .. UintMax
            BY <3>2 DEF LaxUnit
        <3> QED BY <3>2, <3>3, UnitsAssumption
    <2>8. c.maxcount = s.cui[u].maxcount
        BY <2>5, <2>6 DEF Serves
    <2>9. CASE q.broke
        <3>1. x = q
            BY <2>3, <2>9, Zenon DEF Round
        <3>2. WokenSoFar(s, x, u, S, m, i + 1, lost)
            BY <2>5, <2>6, <2>9, <3>1, Zenon DEF WokenSoFar
        <3> QED BY <2>2, <3>2
    <2>10. CASE ~q.broke
        <3>1. q.lost = {} /\ LockInv(c, q.hwse, S, 0, lost)
            <4>1. q.lost = {} /\ lost \cup q.lost = lost
                BY <2>6, <2>10
            <4> QED BY <2>6, <4>1
        <3>2. /\ LockInv(x.cui[u], x.hwse, S, 0, lost \cup x.lost) /\ Serves(q, x, u)
              /\ ~x.broke => x.lost = {}
              /\ x.cui[u].count = c.count + (IF x.broke THEN 0 ELSE 1)
              /\ x.broke => x.cui[u].tree = <<>> \/ c.count > c.maxcount
            <4>1. Rouses(q, u, dead, S, c, x, lost)
                BY <1>1, <2>3, <2>5, <2>6, <2>10, <3>1, Zenon DEF Rouses
            <4>2. Roused(q, u, S, c, x, lost)
                BY <4>1, RoundWakes, Zenon
            <4> QED BY <4>2, Zenon DEF Roused
        <3>3. Serves(s, x, u)
            BY <1>1, <2>6, <3>2, ServesTransitive, Zenon
        <3>4. x.cui[u].maxcount = c.maxcount /\ (x.cui[u].tree # <<>> => c.tree # <<>>)
            <4>1. x.cui[u].maxcount = c.maxcount /\ ToSet(x.cui[u].tree) \subseteq ToSet(c.tree)
                BY <2>5, <3>2 DEF Serves
            <4>2. PICK a, b : a = x.cui[u].tree /\ b = c.tree
                OBVIOUS
            <4>3. a \in Seq(Tasks) /\ b \in Seq(Tasks)
                BY <2>7, <4>2 DEF LaxUnit
            <4>4. ToSet(a) = {} <=> a = <<>>
                BY <4>3, SeqFacts
            <4>5. ToSet(b) = {} <=> b = <<>>
                BY <4>3, SeqFacts
            <4> QED BY <4>1, <4>2, <4>4, <4>5
        <3>5. x.broke => x.cui[u].tree = <<>> \/ x.cui[u].count >= x.cui[u].maxcount
            BY <2>7, <3>2, <3>4
        <3>6. ~x.broke => (x.cui[u].tree # <<>> => x.cui[u].count >= m + (i + 1))
            BY <1>1, <1>6, <2>6, <2>7, <2>10, <3>2, <3>4, SMTT(30)
        <3>7. WokenSoFar(s, x, u, S, m, i + 1, lost)
            BY <3>2, <3>3, <3>5, <3>6, Zenon DEF WokenSoFar
        <3> QED BY <2>2, <3>7
    <2> QED BY <2>9, <2>10
<1>9. n \in Good
    <2>1. Nat \subseteq Good
        <3> HIDE DEF Good
        <3> QED BY <1>7, <1>8, SetInduction
    <2> QED BY <1>1, <2>1
<1>10. WokenSoFar(s, r, u, S, m, n, lost) /\ r \in WokenState
    BY <1>1, <1>2, <1>4, <1>9, SMTT(30)
<1> HIDE DEF Good
<1>11. /\ LockInv(r.cui[u], r.hwse, S, 0, lost \cup r.lost) /\ Serves(s, r, u)
       /\ r.broke => r.cui[u].tree = <<>> \/ r.cui[u].count >= r.cui[u].maxcount
       /\ ~r.broke /\ r.cui[u].tree # <<>> => r.cui[u].count >= m + n
    BY <1>10, Zenon DEF WokenSoFar
<1>12. r.cui[u].maxcount = s.cui[u].maxcount /\ r.cui[u].count \in Int
    BY <1>1, <1>10, <1>11 DEF Serves, WokenState, LaxUnit
<1>13. r.cui[u].tree # <<>> => r.cui[u].count >= r.cui[u].maxcount
    BY <1>1, <1>6, <1>11, <1>12
<1> QED BY <1>10, <1>11, <1>13 DEF UnitInv

-----------------------------------------------------------------------------
(* The choice of a unit and of a thread.                                   *)

\* An offline unit has affinity 0 for every thread.
LEMMA AffinityIs ==
    ASSUME NEW cui \in [Ids -> LaxUnit], NEW t \in Tasks, NEW u \in Ids, NEW cp
    PROVE  /\ CalculateAffinity(cui, t, u, cp) \in Int
           /\ CalculateAffinity(cui, t, u, cp) # 0 => cui[u].online
<1>1. PICK c : c = cui[u]
    OBVIOUS
<1>2. c.type \in Types /\ c.online \in BOOLEAN
    BY <1>1 DEF LaxUnit
<1>3. PICK base \in Nat : base = TypeAffinity[t][c.type]
    BY <1>2, UnitsAssumption
<1>4. PICK g \in 0 .. 5 : g = Gain[t]
    BY UnitsAssumption
<1>5. PICK only \in Int : only = IF SumOverTypes(TypeAffinity[t]) = base
                                 THEN SINGLE_IMPLEMENTATION_BONUS - 5 ELSE 0
    BY DEF SINGLE_IMPLEMENTATION_BONUS
<1>6. PICK away \in Int : away = IF IsCpu(c) /\ u # cp THEN 1 ELSE 0
    OBVIOUS
<1>7. PICK gain \in Int : gain = IF IsCpu(c) THEN 2 - g ELSE g - 2
    OBVIOUS
<1>8. CalculateAffinity(cui, t, u, cp) =
        IF ~c.online \/ base = 0 THEN 0 ELSE base + only + 5 - away + gain
    BY <1>1, <1>3, <1>4, <1>5, <1>6, <1>7, Zenon DEF CalculateAffinity
<1>9. base + only + 5 - away + gain \in Int
    OBVIOUS
<1> QED BY <1>1, <1>2, <1>8, <1>9

\* The list of units has a first element.
LEMMA NextCuIs ==
    ASSUME NEW cui \in [Ids -> LaxUnit], NEW U \in SUBSET Ids, U # {}
    PROVE  NextCu(cui, U) \in U
<1>1. \A v \in Ids : cui[v].type \in Nat /\ v \in Nat
    BY DEF LaxUnit, Types, Ids
<1> DEFINE T == {cui[v].type : v \in U}
<1>2. PICK y \in T : \A z \in T : y <= z
    <2>1. T \in SUBSET Nat /\ T # {}
        BY <1>1
    <2> HIDE DEF T
    <2> QED BY <2>1, LeastNatural
<1> DEFINE W == {v \in U : cui[v].type = y}
<1>3. PICK u \in W : \A v \in W : u <= v
    <2>1. W \in SUBSET Nat /\ W # {}
        BY <1>1, <1>2
    <2> HIDE DEF W
    <2> QED BY <2>1, LeastNatural
<1>4. \A v \in U \ {u} : \/ cui[u].type < cui[v].type
                         \/ cui[u].type = cui[v].type /\ u < v
    <2> SUFFICES ASSUME NEW v \in U \ {u}
                 PROVE  \/ cui[u].type < cui[v].type
                        \/ cui[u].type = cui[v].type /\ u < v
        OBVIOUS
    <2>1. /\ u \in Nat /\ v \in Nat /\ cui[u].type \in Nat /\ cui[v].type \in Nat
          /\ u # v /\ cui[u].type = y
        BY <1>1, <1>3
    <2>2. y <= cui[v].type
        BY <1>2
    <2>3. cui[v].type = y => u <= v
        BY <1>3
    <2> QED BY <2>1, <2>2, <2>3
<1>5. u \in U
    BY <1>3
<1> QED BY <1>4, <1>5, Zenon DEF NextCu

\* What a search may end with.
UnitChoices(cui) ==
    {[id |-> CU_INVALID_HANDLE, affinity |-> 0]} \cup
    {b \in [id : Ids, affinity : Int] : cui[b.id].listed /\ cui[b.id].online}

\* One step of the search for the best unit.
LEMMA BetterIs ==
    ASSUME NEW cui \in [Ids -> LaxUnit], NEW t \in Tasks, NEW cp, NEW load,
           NEW best \in UnitChoices(cui), NEW u \in ListOfCus(cui)
    PROVE  Better(cui, t, cp, load, best, u) \in UnitChoices(cui)
<1>1. u \in Ids /\ cui[u].listed
    BY DEF ListOfCus
<1>2. PICK a : a = CalculateAffinity(cui, t, u, cp)
    OBVIOUS
<1>3. a \in Int /\ (a # 0 => cui[u].online)
    BY <1>1, <1>2, AffinityIs, Zenon
<1>4. \/ Better(cui, t, cp, load, best, u) = best
      \/ a # 0 /\ Better(cui, t, cp, load, best, u) = [id |-> u, affinity |-> a]
    BY <1>2, Zenon DEF Better
<1>5. a # 0 => [id |-> u, affinity |-> a] \in UnitChoices(cui)
    BY <1>1, <1>3 DEF UnitChoices
<1> QED BY <1>4, <1>5, Zenon

SearchStep(cui, t, cp, load, s) ==
    IF s.left = {} THEN s
    ELSE [left |-> s.left \ {NextCu(cui, s.left)},
          best |-> Better(cui, t, cp, load, s.best, NextCu(cui, s.left))]

\* The unit a search ends with is online and in the list.
LEMMA FoundIs ==
    ASSUME NEW cui \in [Ids -> LaxUnit], NEW t \in Tasks, NEW cp, NEW load
    PROVE  FindBestCu(cui, t, cp, load) \in UnitChoices(cui)
<1> DEFINE V == [left : SUBSET ListOfCus(cui), best : UnitChoices(cui)]
           b == [left |-> ListOfCus(cui),
                 best |-> [id |-> CU_INVALID_HANDLE, affinity |-> 0]]
           D == [p \in Nat \X V |-> SearchStep(cui, t, cp, load, p[2])]
           F == Search(cui, t, cp, load)
<1>1. b \in V
    BY DEF UnitChoices
<1>2. ASSUME NEW s \in V PROVE SearchStep(cui, t, cp, load, s) \in V
    <2>1. CASE s.left = {}
        BY <2>1 DEF SearchStep
    <2>2. CASE s.left # {}
        <3>1. PICK u : u = NextCu(cui, s.left)
            OBVIOUS
        <3>2. u \in s.left
            <4>1. s.left \in SUBSET Ids
                BY DEF ListOfCus
            <4> QED BY <2>2, <3>1, <4>1, NextCuIs, Zenon
        <3>3. PICK x : x = Better(cui, t, cp, load, s.best, u)
            OBVIOUS
        <3>4. x \in UnitChoices(cui)
            BY <3>2, <3>3, BetterIs, Zenon
        <3>5. SearchStep(cui, t, cp, load, s) = [left |-> s.left \ {u}, best |-> x]
            BY <2>2, <3>1, <3>3, Zenon DEF SearchStep
        <3> QED BY <3>4, <3>5
    <2> QED BY <2>1, <2>2
<1>3. D \in [Nat \X V -> V]
    <2> SUFFICES ASSUME NEW p \in Nat \X V PROVE SearchStep(cui, t, cp, load, p[2]) \in V
        BY Zenon
    <2>1. PICK s \in V : s = p[2]
        OBVIOUS
    <2> QED BY <1>2, <2>1, Zenon
<1>4. PICK g : Iterates(V, b, D, g)
    <2> HIDE DEF V, D, F, b
    <2> QED BY <1>1, <1>3, Recursion
<1>5. \A n \in Nat : g[n] \in V /\ g[n + 1] = SearchStep(cui, t, cp, load, g[n])
    <2> SUFFICES ASSUME NEW n \in Nat
                 PROVE  g[n] \in V /\ g[n + 1] = SearchStep(cui, t, cp, load, g[n])
        OBVIOUS
    <2>1. g[n] \in V /\ g[n + 1] = D[<<n, g[n]>>]
        BY <1>4, Zenon DEF Iterates
    <2>2. <<n, g[n]>> \in Nat \X V
        BY <2>1, Zenon
    <2>3. D[<<n, g[n]>>] = SearchStep(cui, t, cp, load, <<n, g[n]>>[2])
        BY <2>2, Zenon
    <2> HIDE DEF V, D
    <2> QED BY <2>1, <2>3
<1>6. g = [n \in Nat |-> IF n = 0 THEN b ELSE SearchStep(cui, t, cp, load, g[n - 1])]
    <2>1. ASSUME NEW n \in Nat, n # 0 PROVE g[n] = SearchStep(cui, t, cp, load, g[n - 1])
        <3>1. n - 1 \in Nat /\ (n - 1) + 1 = n
            BY <2>1
        <3>2. g[(n - 1) + 1] = SearchStep(cui, t, cp, load, g[n - 1])
            BY <1>5, <3>1, Zenon
        <3> QED BY <3>1, <3>2
    <2> HIDE DEF V, D, b
    <2> QED BY <2>1, <1>4 DEF Iterates
<1>7. F = [n \in Nat |-> IF n = 0 THEN b ELSE SearchStep(cui, t, cp, load, F[n - 1])]
    BY <1>6, Zenon DEF Search, SearchStep
<1> HIDE DEF F
<1>8. \A n \in Nat : F[n] \in V
    <2> DEFINE Done == {n \in Nat : F[n] \in V}
    <2>1. 0 \in Done
        <3>1. F[0] = b
            BY <1>7
        <3> QED BY <1>1, <3>1
    <2>2. ASSUME NEW n \in Nat, n \in Done PROVE n + 1 \in Done
        <3>1. PICK s \in V : s = F[n]
            BY <2>2
        <3>2. n + 1 \in Nat /\ n + 1 # 0 /\ (n + 1) - 1 = n
            OBVIOUS
        <3>3. F[n + 1] = SearchStep(cui, t, cp, load, s)
            <4> HIDE DEF V, b
            <4> QED BY <1>7, <3>1, <3>2
        <3>4. SearchStep(cui, t, cp, load, s) \in V
            BY <1>2, <3>1, Zenon
        <3>5. F[n + 1] \in V
            BY <3>3, <3>4, Zenon
        <3> QED BY <3>5
    <2>3. Nat \subseteq Done
        <3> HIDE DEF Done
        <3> QED BY <2>1, <2>2, SetInduction
    <2> QED BY <2>3
<1>9. Cardinality(Ids) \in Nat
    <2>1. IsFiniteSet(0 .. MaxId)
        BY UnitsAssumption, FS_Interval
    <2> QED BY <2>1, FS_CardinalityType, Zenon DEF Ids
<1>10. F[Cardinality(Ids)].best \in UnitChoices(cui)
    BY <1>8, <1>9
<1>11. FindBestCu(cui, t, cp, load) = F[Cardinality(Ids)].best
    BY Zenon DEF FindBestCu, F
<1> QED BY <1>10, <1>11

\* The candidate of a balancing is one of the threads that wait.
Candidate(cui, u, o, n) ==
    [cand |-> cui[o].tree[n], from |-> o,
     affinity |-> HwAffinity(cui, cui[o].tree[n], u), load |-> cui[o].nr_running]

ScanStep(cui, u, o, n, b) ==
    LET affinity == HwAffinity(cui, cui[o].tree[n], u)
    IN  IF \/ affinity > b.affinity
           \/ affinity = b.affinity /\ cui[o].nr_running > b.load
        THEN Candidate(cui, u, o, n) ELSE b

\* What the first pass of a balancing finds waits for the unit.
LEMMA ScanIs ==
    ASSUME NEW cui \in [Ids -> LaxUnit], NEW u \in Ids, NEW o \in Ids, NEW best
    PROVE  \/ ScanWaiting(cui, u, o, best) = best
           \/ \E t \in ToSet(cui[o].tree), a \in Int, l \in Int :
                ScanWaiting(cui, u, o, best) =
                    [cand |-> t, from |-> o, affinity |-> a, load |-> l]
<1> DEFINE V == {best} \cup {Candidate(cui, u, o, n) : n \in Nat}
           D == [p \in Nat \X V |-> ScanStep(cui, u, o, p[1] + 1, p[2])]
           F == Scanned(cui, u, o, best)
<1>1. best \in V
    OBVIOUS
<1>2. D \in [Nat \X V -> V]
    <2> SUFFICES ASSUME NEW p \in Nat \X V PROVE ScanStep(cui, u, o, p[1] + 1, p[2]) \in V
        BY Zenon
    <2>1. PICK n \in Nat, b \in V : n = p[1] + 1 /\ b = p[2]
        OBVIOUS
    <2>2. ScanStep(cui, u, o, n, b) \in V
        BY <2>1, Zenon DEF ScanStep
    <2> QED BY <2>1, <2>2, Zenon
<1>3. PICK g : Iterates(V, best, D, g)
    <2> HIDE DEF V, D, F
    <2> QED BY <1>1, <1>2, Recursion
<1>4. \A n \in Nat : g[n + 1] = ScanStep(cui, u, o, n + 1, g[n])
    <2> SUFFICES ASSUME NEW n \in Nat PROVE g[n + 1] = ScanStep(cui, u, o, n + 1, g[n])
        OBVIOUS
    <2>1. g[n] \in V /\ g[n + 1] = D[<<n, g[n]>>]
        BY <1>3, Zenon DEF Iterates
    <2>2. <<n, g[n]>> \in Nat \X V
        BY <2>1, Zenon
    <2>3. D[<<n, g[n]>>] = ScanStep(cui, u, o, <<n, g[n]>>[1] + 1, <<n, g[n]>>[2])
        BY <2>2, Zenon
    <2> HIDE DEF V, D
    <2> QED BY <2>1, <2>3
<1>5. g = [n \in Nat |-> IF n = 0 THEN best ELSE ScanStep(cui, u, o, n, g[n - 1])]
    <2>1. ASSUME NEW n \in Nat, n # 0 PROVE g[n] = ScanStep(cui, u, o, n, g[n - 1])
        <3>1. n - 1 \in Nat /\ (n - 1) + 1 = n
            BY <2>1
        <3>2. g[(n - 1) + 1] = ScanStep(cui, u, o, (n - 1) + 1, g[n - 1])
            BY <1>4, <3>1, Zenon
        <3> QED BY <3>1, <3>2
    <2> HIDE DEF V, D
    <2> QED BY <2>1, <1>3 DEF Iterates
<1>6. F = [n \in Nat |-> IF n = 0 THEN best ELSE ScanStep(cui, u, o, n, F[n - 1])]
    BY <1>5, Zenon DEF Scanned, ScanStep, Candidate
<1> HIDE DEF F
<1>7. cui[o].tree \in Seq(Tasks) /\ cui[o].nr_running \in Int
    BY DEF LaxUnit
<1>8. ASSUME NEW n \in 1 .. Len(cui[o].tree)
      PROVE  \E t \in ToSet(cui[o].tree), a \in Int, l \in Int :
                Candidate(cui, u, o, n) =
                    [cand |-> t, from |-> o, affinity |-> a, load |-> l]
    <2>1. PICK t : t = cui[o].tree[n]
        OBVIOUS
    <2>2. t \in ToSet(cui[o].tree) /\ t \in Tasks
        BY <1>7, <2>1, SeqFacts
    <2>3. PICK a : a = HwAffinity(cui, t, u)
        OBVIOUS
    <2>4. a \in Int
        BY <2>2, <2>3, AffinityIs, Zenon DEF HwAffinity
    <2>5. Candidate(cui, u, o, n) =
            [cand |-> t, from |-> o, affinity |-> a, load |-> cui[o].nr_running]
        BY <2>1, <2>3, Zenon DEF Candidate
    <2> QED BY <1>7, <2>2, <2>4, <2>5, Zenon
<1> DEFINE Good(x) == \/ x = best
                      \/ \E t \in ToSet(cui[o].tree), a \in Int, l \in Int :
                            x = [cand |-> t, from |-> o, affinity |-> a, load |-> l]
           Done == {n \in Nat : n <= Len(cui[o].tree) => Good(F[n])}
<1>9. 0 \in Done
    <2>1. F[0] = best
        BY <1>6
    <2> QED BY <2>1
<1>10. ASSUME NEW n \in Nat, n \in Done PROVE n + 1 \in Done
    <2> SUFFICES ASSUME n + 1 <= Len(cui[o].tree) PROVE Good(F[n + 1])
        OBVIOUS
    <2>1. /\ n + 1 \in Nat /\ n + 1 # 0 /\ (n + 1) - 1 = n /\ n <= Len(cui[o].tree)
          /\ n + 1 \in 1 .. Len(cui[o].tree)
        BY <1>7
    <2>2. Good(F[n])
        <3> HIDE DEF Good
        <3> QED BY <1>10, <2>1
    <2> HIDE DEF Good, Done, V, D
    <2>3. F[n + 1] = ScanStep(cui, u, o, n + 1, F[n])
        BY <1>6, <2>1
    <2>4. F[n + 1] = F[n] \/ F[n + 1] = Candidate(cui, u, o, n + 1)
        BY <2>3, Zenon DEF ScanStep
    <2> QED BY <1>8, <2>1, <2>2, <2>4, Zenon DEF Good
<1>11. Good(F[Len(cui[o].tree)])
    <2>1. Nat \subseteq Done
        <3> HIDE DEF Done
        <3> QED BY <1>9, <1>10, SetInduction
    <2>2. Len(cui[o].tree) \in Nat /\ Len(cui[o].tree) <= Len(cui[o].tree)
        BY <1>7
    <2> HIDE DEF Good
    <2> QED BY <2>1, <2>2, Zenon
<1> QED BY <1>11, Zenon DEF ScanWaiting, F

-----------------------------------------------------------------------------
(* The inductive invariant.                                                *)

BalanceState ==
    [by : Tasks \cup {Admin}, unit : Ids, pass : {1, 2}, rest : SUBSET Ids,
     cand : Tasks \cup {NoTask}, from : Ids \cup {CU_INVALID_HANDLE},
     affinity : Int, load : Int, free_slots : Int]

Typed ==
    /\ kernel \in KernelState
    /\ current_id \in Ids /\ Cpus \subseteq 0 .. current_id
    /\ balance \in BalanceState \cup {NoBalance}
    /\ pc \in [Tasks -> Labels]
    /\ my \in [Tasks -> Ids \cup {CU_INVALID_HANDLE}]
    /\ cpu \in [Tasks -> Cpus]
    /\ workstatus \in [Tasks -> Nat]
    /\ \A t \in Tasks : workstatus[t] <= Work[t]

\* The lock of every unit is intact between two sections.
UnitsInv(lost) ==
    \A u \in Ids : UnitInv(Cui[u], Hwse, Asleep(u), 0, lost)

\* The units of the processors are the CPUs, and have room for every thread.
KindInv ==
    \A u \in Ids :
        /\ u \in Cpus => IsCpu(Cui[u]) /\ Cui[u].maxcount = UintMax
        /\ u \notin Cpus /\ u <= current_id => ~IsCpu(Cui[u])
        /\ u > current_id => ~Cui[u].listed

HolderLabels == {"got", "dead"} \cup Holding

\* A thread knows the unit it holds, waits for or has left.
PlaceInv(t) ==
    /\ pc[t] \notin {"user", "search", "done", "dead"} => my[t] \in 0 .. current_id
    /\ pc[t] = "lock" => my[t] \in Cpus \/ Cui[my[t]].curr # t
    /\ pc[t] = "sleep" => my[t] \notin Cpus /\ Hwse[t].cfs_rq = my[t]
    /\ pc[t] \in {"got"} \cup Holding =>
        /\ Hwse[t].cfs_rq \in Ids /\ t \in Cui[Hwse[t].cfs_rq].tasks
        /\ my[t] = Hwse[t].cfs_rq \/ (my[t] \in Cpus /\ Hwse[t].cfs_rq \in Cpus)
    /\ Hwse[t].cfs_rq \in -1 .. current_id
    /\ Hwse[t].cfs_rq \in Cpus => pc[t] \in HolderLabels
    /\ pc[t] \in {"search", "lock", "sleep", "trydel", "got", "compute",
                  "rerequest", "stay"} => workstatus[t] > 0

\* The units a thread is a holder of, and those whose current entity it is.
ListInv(t) ==
    /\ \A u \in Ids : t \in Cui[u].tasks => Hwse[t].cfs_rq = u /\ pc[t] \in HolderLabels
    /\ \A u \in Ids \ Cpus : Cui[u].curr = t =>
        \/ ~Cui[u].online \/ t \in Cui[u].tasks
        \/ t \in Asleep(u) /\ ~Hwse[t].need_migrate
        \/ pc[t] \in {"done", "dead"}

BalanceInv ==
    balance # NoBalance =>
        /\ balance.by \in Tasks => pc[balance.by] = "balancing"
        /\ balance.pass = 2 => balance.cand = NoTask
        /\ balance.cand # NoTask =>
             balance.from \in Ids /\ balance.cand \in ToSet(Cui[balance.from].tree)

IInv(lost) ==
    /\ Typed /\ UnitsInv(lost) /\ KindInv
    /\ \A t \in Tasks : PlaceInv(t) /\ ListInv(t)
    /\ BalanceInv

\* The more threads set has forgotten, the less is said.
LEMMA InvGrows ==
    ASSUME NEW before, NEW lost, before \subseteq lost, IInv(before)
    PROVE  IInv(lost)
<1>1. ASSUME NEW u \in Ids PROVE UnitInv(Cui[u], Hwse, Asleep(u), 0, lost)
    <2>1. PICK c, h, S : c = Cui[u] /\ h = Hwse /\ S = Asleep(u)
        OBVIOUS
    <2>2. UnitInv(c, h, S, 0, before)
        BY <2>1, Zenon DEF IInv, UnitsInv
    <2>3. LockInv(c, h, S, 0, lost)
        BY <2>2 DEF UnitInv, LockInv
    <2> QED BY <2>1, <2>2, <2>3, Zenon DEF UnitInv
<1> QED BY <1>1, Zenon DEF IInv, UnitsInv

-----------------------------------------------------------------------------
(* What a section leaves alone.                                            *)

SameLock(c, d) ==
    /\ d.count = c.count /\ d.maxcount = c.maxcount /\ d.tree = c.tree
    /\ d.nr_running = c.nr_running /\ d.tasks = c.tasks /\ d.curr = c.curr

\* A section under the locks of the units W, in which the threads T do something.
Within(k, r, W, T, dead) ==
    /\ r \in KernelState
    /\ \A v \in Ids \ W : SameLock(k.cui[v], r.cui[v])
    /\ \A v \in Ids :
        /\ r.cui[v].type = k.cui[v].type
        /\ r.cui[v].listed => k.cui[v].listed
        /\ r.cui[v].online => k.cui[v].online \/ v \in Cpus
        /\ v \in Cpus => r.cui[v].maxcount = k.cui[v].maxcount
        /\ k.cui[v].tasks \ r.cui[v].tasks \subseteq dead \cup T
        /\ r.cui[v].tasks \subseteq k.cui[v].tasks \cup T
        /\ ToSet(r.cui[v].tree) \subseteq ToSet(k.cui[v].tree) \cup T
        /\ r.cui[v].curr \in {k.cui[v].curr, NoTask} \cup T \cup ToSet(k.cui[v].tree)
    /\ \A x \in Tasks \ T :
        /\ r.hwse[x].cfs_rq = k.hwse[x].cfs_rq
        /\ r.hwse[x].need_migrate = k.hwse[x].need_migrate
        /\ \/ r.hwse[x].semaphore_up = k.hwse[x].semaphore_up
           \/ \E w \in W : x \in ToSet(k.cui[w].tree)

\* Two sections under the same locks.
LEMMA WithinTransitive ==
    ASSUME NEW k, NEW q, NEW r, NEW W \in SUBSET Ids, NEW T, NEW dead,
           Within(k, q, W, T, dead), Within(q, r, W, T, dead)
    PROVE  Within(k, r, W, T, dead)
<1>1. \A v \in Ids \ W : SameLock(k.cui[v], r.cui[v])
    BY DEF Within, SameLock
<1>2. ASSUME NEW v \in Ids
      PROVE  /\ r.cui[v].type = k.cui[v].type
             /\ r.cui[v].listed => k.cui[v].listed
             /\ r.cui[v].online => k.cui[v].online \/ v \in Cpus
             /\ v \in Cpus => r.cui[v].maxcount = k.cui[v].maxcount
             /\ k.cui[v].tasks \ r.cui[v].tasks \subseteq dead \cup T
             /\ r.cui[v].tasks \subseteq k.cui[v].tasks \cup T
             /\ ToSet(r.cui[v].tree) \subseteq ToSet(k.cui[v].tree) \cup T
             /\ r.cui[v].curr \in {k.cui[v].curr, NoTask} \cup T \cup ToSet(k.cui[v].tree)
    BY DEF Within
<1>3. ASSUME NEW x \in Tasks \ T
      PROVE  /\ r.hwse[x].cfs_rq = k.hwse[x].cfs_rq
             /\ r.hwse[x].need_migrate = k.hwse[x].need_migrate
             /\ \/ r.hwse[x].semaphore_up = k.hwse[x].semaphore_up
                \/ \E w \in W : x \in ToSet(k.cui[w].tree)
    <2>1. /\ q.hwse[x].cfs_rq = k.hwse[x].cfs_rq
          /\ q.hwse[x].need_migrate = k.hwse[x].need_migrate
          /\ \/ q.hwse[x].semaphore_up = k.hwse[x].semaphore_up
             \/ \E w \in W : x \in ToSet(k.cui[w].tree)
        BY DEF Within
    <2>2. /\ r.hwse[x].cfs_rq = q.hwse[x].cfs_rq
          /\ r.hwse[x].need_migrate = q.hwse[x].need_migrate
          /\ \/ r.hwse[x].semaphore_up = q.hwse[x].semaphore_up
             \/ \E w \in W : x \in ToSet(q.cui[w].tree)
        BY DEF Within
    <2>3. \A w \in W : ToSet(q.cui[w].tree) \subseteq ToSet(k.cui[w].tree) \cup T
        BY DEF Within
    <2> QED BY <2>1, <2>2, <2>3
<1>4. r \in KernelState
    BY DEF Within
<1> QED BY <1>1, <1>2, <1>3, <1>4, Zenon DEF Within

\* Giving slots to those who wait is such a section.
LEMMA ServesWithin ==
    ASSUME NEW k \in KernelState, NEW r \in KernelState, NEW u \in Ids, NEW T, NEW dead,
           Serves(k, r, u)
    PROVE  Within(k, r, {u}, T, dead)
<1>1. \A v \in Ids \ {u} : r.cui[v] = k.cui[v]
    BY DEF Serves
<1>2. \A v \in Ids \ {u} : SameLock(k.cui[v], r.cui[v])
    BY <1>1, Zenon DEF SameLock
<1>3. /\ r.cui[u].type = k.cui[u].type
      /\ r.cui[u].listed = k.cui[u].listed
      /\ r.cui[u].online = k.cui[u].online
      /\ r.cui[u].maxcount = k.cui[u].maxcount
      /\ r.cui[u].tasks = k.cui[u].tasks
      /\ ToSet(r.cui[u].tree) \subseteq ToSet(k.cui[u].tree)
      /\ r.cui[u].curr \in {k.cui[u].curr} \cup ToSet(k.cui[u].tree)
    BY DEF Serves
<1>4. ASSUME NEW v \in Ids
      PROVE  /\ r.cui[v].type = k.cui[v].type
             /\ r.cui[v].listed => k.cui[v].listed
             /\ r.cui[v].online => k.cui[v].online \/ v \in Cpus
             /\ v \in Cpus => r.cui[v].maxcount = k.cui[v].maxcount
             /\ k.cui[v].tasks \ r.cui[v].tasks \subseteq dead \cup T
             /\ r.cui[v].tasks \subseteq k.cui[v].tasks \cup T
             /\ ToSet(r.cui[v].tree) \subseteq ToSet(k.cui[v].tree) \cup T
             /\ r.cui[v].curr \in {k.cui[v].curr, NoTask} \cup T \cup ToSet(k.cui[v].tree)
    <2>1. CASE v = u
        BY <1>3, <2>1
    <2>2. CASE v # u
        BY <1>1, <2>2
    <2> QED BY <2>1, <2>2
<1>5. ASSUME NEW x \in Tasks \ T
      PROVE  /\ r.hwse[x].cfs_rq = k.hwse[x].cfs_rq
             /\ r.hwse[x].need_migrate = k.hwse[x].need_migrate
             /\ \/ r.hwse[x].semaphore_up = k.hwse[x].semaphore_up
                \/ \E w \in {u} : x \in ToSet(k.cui[w].tree)
    <2>1. \/ r.hwse[x] = k.hwse[x]
          \/ /\ x \in ToSet(k.cui[u].tree)
             /\ r.hwse[x] = [k.hwse[x] EXCEPT !.semaphore_up = TRUE]
        BY DEF Serves
    <2>2. k.hwse[x] \in Entity
        BY DEF KernelState
    <2> QED BY <2>1, <2>2 DEF Entity
<1> QED BY <1>2, <1>4, <1>5, Zenon DEF Within

\* The lock of a unit depends on little.
LEMMA UnitFrame ==
    ASSUME NEW c, NEW d \in LaxUnit, NEW h, NEW g, NEW S, NEW n, NEW lost,
           UnitInv(c, h, S, n, lost), SameLock(c, d),
           \A x \in S : /\ g[x].semaphore_up = h[x].semaphore_up
                        /\ g[x].need_migrate = h[x].need_migrate
    PROVE  UnitInv(d, g, S, n, lost)
<1>1. /\ d.count = c.count /\ d.maxcount = c.maxcount /\ d.tree = c.tree
      /\ d.nr_running = c.nr_running /\ d.tasks = c.tasks /\ d.curr = c.curr
    BY DEF SameLock
<1>2. Holders(d, g, S) = Holders(c, h, S)
    BY <1>1 DEF Holders
<1>3. /\ Injective(c.tree) /\ ToSet(c.tree) \subseteq S
      /\ \A t \in ToSet(c.tree) : ~h[t].semaphore_up /\ ~h[t].need_migrate
      /\ c.curr \notin ToSet(c.tree)
      /\ c.tasks \cap S = {}
      /\ c.count = Cardinality(Holders(c, h, S)) + n
      /\ \A t \in S : ~(h[t].semaphore_up /\ h[t].need_migrate)
      /\ c.tree # <<>> => c.count >= c.maxcount
    BY Zenon DEF UnitInv, LockInv
<1>4. /\ lost = {} => c.nr_running = Len(c.tree)
      /\ \A t \in S \ ToSet(c.tree) : h[t].semaphore_up \/ h[t].need_migrate \/ t \in lost
    BY Zenon DEF UnitInv, LockInv
<1>5. \A t \in ToSet(c.tree) : ~g[t].semaphore_up /\ ~g[t].need_migrate
    BY <1>3
<1>6. \A t \in S : ~(g[t].semaphore_up /\ g[t].need_migrate)
    BY <1>3
<1>7. /\ lost = {} => d.nr_running = Len(d.tree)
      /\ \A t \in S \ ToSet(d.tree) : g[t].semaphore_up \/ g[t].need_migrate \/ t \in lost
    BY <1>1, <1>4
<1>8. LockInv(d, g, S, n, lost)
    BY <1>1, <1>2, <1>3, <1>5, <1>6, <1>7 DEF LockInv
<1> QED BY <1>1, <1>3, <1>8 DEF UnitInv

\* The handles given out are handles.
LEMMA IdBelow ==
    ASSUME Typed
    PROVE  /\ current_id \in Nat /\ current_id <= MaxId
           /\ \A u \in 0 .. current_id : u \in Ids
<1>1. current_id \in Ids /\ MaxId \in Nat
    BY UnitsAssumption, Zenon DEF Typed
<1> QED BY <1>1 DEF Ids

\* A step that is such a section, and what it therefore keeps.
Section(lost, W, T) ==
    /\ lost \in SUBSET Tasks /\ W \in SUBSET Ids /\ IInv(lost)
    /\ Within(kernel, kernel', W, T, Dead) /\ current_id' = current_id
    /\ \A x \in Tasks \ T :
        pc'[x] = pc[x] /\ my'[x] = my[x] /\ workstatus'[x] = workstatus[x]
    /\ \A x \in Tasks \cap T : \A v \in Ids \ W :
        ~(pc[x] = "sleep" /\ my[x] = v) /\ ~(pc'[x] = "sleep" /\ my'[x] = v)

Framed(lost, W, T) ==
    /\ \A v \in Ids \ W : UnitInv(kernel'.cui[v], kernel'.hwse, Asleep(v)', 0, lost)
    /\ KindInv'
    /\ \A x \in Tasks \ T : PlaceInv(x)' /\ ListInv(x)'

\* It keeps what is not under its locks and not of its threads.
LEMMA Frame ==
    ASSUME NEW lost, NEW W, NEW T, Section(lost, W, T)
    PROVE  Framed(lost, W, T)
<1>1. /\ lost \in SUBSET Tasks /\ W \in SUBSET Ids /\ IInv(lost)
      /\ Within(kernel, kernel', W, T, Dead) /\ current_id' = current_id
      /\ \A x \in Tasks \ T :
            pc'[x] = pc[x] /\ my'[x] = my[x] /\ workstatus'[x] = workstatus[x]
      /\ \A x \in Tasks \cap T : \A v \in Ids \ W :
            ~(pc[x] = "sleep" /\ my[x] = v) /\ ~(pc'[x] = "sleep" /\ my'[x] = v)
    BY Zenon DEF Section
<1>2. /\ Typed /\ UnitsInv(lost) /\ KindInv /\ BalanceInv
      /\ \A t \in Tasks : PlaceInv(t) /\ ListInv(t)
    BY <1>1, Zenon DEF IInv
<1>3. PICK k, r : k = kernel /\ r = kernel'
    OBVIOUS
<1>4. Within(k, r, W, T, Dead) /\ k \in KernelState /\ r \in KernelState
    BY <1>1, <1>2, <1>3, Zenon DEF Within, Typed
<1>5. \A v \in Ids :
        /\ UnitInv(k.cui[v], k.hwse, Asleep(v), 0, lost)
        /\ ToSet(k.cui[v].tree) \subseteq Asleep(v)
        /\ \A x \in ToSet(k.cui[v].tree) : ~k.hwse[x].need_migrate
    BY <1>2, <1>3, Zenon DEF UnitsInv, UnitInv, LockInv, Cui, Hwse
<1>6. ASSUME NEW x \in Tasks \ T
      PROVE  /\ pc'[x] = pc[x] /\ my'[x] = my[x] /\ workstatus'[x] = workstatus[x]
             /\ r.hwse[x].cfs_rq = k.hwse[x].cfs_rq
             /\ r.hwse[x].need_migrate = k.hwse[x].need_migrate
             /\ \/ r.hwse[x].semaphore_up = k.hwse[x].semaphore_up
                \/ \E w \in W : x \in ToSet(k.cui[w].tree)
    BY <1>1, <1>4, Zenon DEF Within
<1>7. ASSUME NEW v \in Ids
      PROVE  /\ r.cui[v].type = k.cui[v].type
             /\ r.cui[v].listed => k.cui[v].listed
             /\ r.cui[v].online => k.cui[v].online \/ v \in Cpus
             /\ v \in Cpus => r.cui[v].maxcount = k.cui[v].maxcount
             /\ k.cui[v].tasks \ r.cui[v].tasks \subseteq Dead \cup T
             /\ r.cui[v].tasks \subseteq k.cui[v].tasks \cup T
             /\ r.cui[v].curr \in {k.cui[v].curr, NoTask} \cup T \cup ToSet(k.cui[v].tree)
    BY <1>4, Zenon DEF Within
<1>8. ASSUME NEW v \in Ids \ W
      PROVE  UnitInv(r.cui[v], r.hwse, Asleep(v)', 0, lost)
    <2>1. Asleep(v)' = Asleep(v)
        <3>1. \A x \in Tasks : (pc'[x] = "sleep" /\ my'[x] = v) <=> (pc[x] = "sleep" /\ my[x] = v)
            BY <1>1, <1>6
        <3> QED BY <3>1 DEF Asleep
    <2>2. \A x \in Asleep(v) : x \in Tasks \ T /\ my[x] = v
        BY <1>1 DEF Asleep
    <2>3. ASSUME NEW x \in Asleep(v)
          PROVE  /\ r.hwse[x].semaphore_up = k.hwse[x].semaphore_up
                 /\ r.hwse[x].need_migrate = k.hwse[x].need_migrate
        <3>1. \A w \in W : x \notin ToSet(k.cui[w].tree)
            <4> SUFFICES ASSUME NEW w \in W, x \in ToSet(k.cui[w].tree) PROVE FALSE
                OBVIOUS
            <4>1. x \in Asleep(w) /\ w # v
                BY <1>1, <1>5
            <4> QED BY <2>2, <4>1 DEF Asleep
        <3> QED BY <1>6, <2>2, <3>1
    <2>4. SameLock(k.cui[v], r.cui[v]) /\ r.cui[v] \in LaxUnit
        <3>1. SameLock(k.cui[v], r.cui[v])
            BY <1>4, Zenon DEF Within
        <3>2. r.cui \in [Ids -> LaxUnit]
            BY <1>4 DEF KernelState
        <3> QED BY <3>1, <3>2
    <2>5. UnitInv(k.cui[v], k.hwse, Asleep(v), 0, lost)
        BY <1>5
    <2>6. UnitInv(r.cui[v], r.hwse, Asleep(v), 0, lost)
        BY <2>3, <2>4, <2>5, UnitFrame, Zenon
    <2> QED BY <2>1, <2>6, Zenon
<1>9. KindInv'
    <2> SUFFICES ASSUME NEW u \in Ids
                 PROVE  /\ u \in Cpus => IsCpu(r.cui[u]) /\ r.cui[u].maxcount = UintMax
                        /\ u \notin Cpus /\ u <= current_id => ~IsCpu(r.cui[u])
                        /\ u > current_id => ~r.cui[u].listed
        BY <1>1, <1>3, Zenon DEF KindInv, Cui
    <2>1. /\ u \in Cpus => IsCpu(k.cui[u]) /\ k.cui[u].maxcount = UintMax
          /\ u \notin Cpus /\ u <= current_id => ~IsCpu(k.cui[u])
          /\ u > current_id => ~k.cui[u].listed
        BY <1>2, <1>3, Zenon DEF KindInv, Cui
    <2> QED BY <1>7, <2>1 DEF IsCpu
<1>10. ASSUME NEW x \in Tasks \ T PROVE PlaceInv(x)'
    <2>1. PlaceInv(x)
        BY <1>2
    <2>2. ASSUME pc[x] = "lock", my[x] \notin Cpus PROVE r.cui[my[x]].curr # x
        <3>1. my[x] \in 0 .. current_id /\ k.cui[my[x]].curr # x
            BY <1>3, <2>1, <2>2 DEF PlaceInv, Cui
        <3>2. my[x] \in Ids
            BY <1>2, <3>1, IdBelow
        <3>3. x \notin Asleep(my[x]) /\ x # NoTask
            BY <2>2, UnitsAssumption DEF Asleep
        <3> QED BY <1>5, <1>7, <3>1, <3>2, <3>3
    <2>3. ASSUME pc[x] \in {"got"} \cup Holding
          PROVE  r.hwse[x].cfs_rq \in Ids /\ x \in r.cui[r.hwse[x].cfs_rq].tasks
        <3>1. k.hwse[x].cfs_rq \in Ids /\ x \in k.cui[k.hwse[x].cfs_rq].tasks
            BY <1>3, <2>1, <2>3 DEF PlaceInv, Cui, Hwse
        <3>2. x \notin Dead
            BY <2>3 DEF Dead, Holding
        <3> QED BY <1>6, <1>7, <3>1, <3>2
    <2>4. r.hwse[x].cfs_rq = k.hwse[x].cfs_rq
        BY <1>6
    <2>5. pc'[x] = pc[x] /\ my'[x] = my[x] /\ workstatus'[x] = workstatus[x]
        BY <1>6
    <2>6. /\ pc[x] \notin {"user", "search", "done", "dead"} => my[x] \in 0 .. current_id
          /\ pc[x] = "sleep" => my[x] \notin Cpus /\ k.hwse[x].cfs_rq = my[x]
          /\ pc[x] \in {"got"} \cup Holding =>
               my[x] = k.hwse[x].cfs_rq \/ (my[x] \in Cpus /\ k.hwse[x].cfs_rq \in Cpus)
          /\ k.hwse[x].cfs_rq \in -1 .. current_id
          /\ k.hwse[x].cfs_rq \in Cpus => pc[x] \in HolderLabels
          /\ pc[x] \in {"search", "lock", "sleep", "trydel", "got", "compute",
                        "rerequest", "stay"} => workstatus[x] > 0
        BY <1>3, <2>1, Zenon DEF PlaceInv, Cui, Hwse
    <2>7. pc[x] = "lock" => my[x] \in Cpus \/ r.cui[my[x]].curr # x
        BY <2>2
    <2>8. pc[x] \in {"got"} \cup Holding =>
            r.hwse[x].cfs_rq \in Ids /\ x \in r.cui[r.hwse[x].cfs_rq].tasks
        BY <2>3
    <2> QED BY <1>1, <1>3, <2>4, <2>5, <2>6, <2>7, <2>8, Zenon DEF PlaceInv, Cui, Hwse
<1>11. ASSUME NEW x \in Tasks \ T PROVE ListInv(x)'
    <2>1. ListInv(x)
        BY <1>2
    <2>2. ASSUME NEW u \in Ids, x \in r.cui[u].tasks
          PROVE  r.hwse[x].cfs_rq = u /\ pc'[x] \in HolderLabels
        <3>1. x \in k.cui[u].tasks
            BY <1>7, <2>2
        <3>2. k.hwse[x].cfs_rq = u /\ pc[x] \in HolderLabels
            BY <1>3, <2>1, <3>1, Zenon DEF ListInv, Cui, Hwse
        <3> QED BY <1>6, <3>2
    <2>3. ASSUME NEW u \in Ids \ Cpus, r.cui[u].curr = x
          PROVE  \/ ~r.cui[u].online \/ x \in r.cui[u].tasks
                 \/ x \in Asleep(u)' /\ ~r.hwse[x].need_migrate
                 \/ pc'[x] \in {"done", "dead"}
        <3>1. x # NoTask
            BY UnitsAssumption
        <3>2. x \in Asleep(u) => x \in Asleep(u)'
            BY <1>6 DEF Asleep
        <3>3. k.cui[u].curr = x \/ x \in ToSet(k.cui[u].tree)
            BY <1>7, <2>3, <3>1
        <3>4. CASE x \in ToSet(k.cui[u].tree)
            BY <1>5, <1>6, <3>2, <3>4
        <3>5. CASE k.cui[u].curr = x
            <4>1. \/ ~k.cui[u].online \/ x \in k.cui[u].tasks
                  \/ x \in Asleep(u) /\ ~k.hwse[x].need_migrate
                  \/ pc[x] \in {"done", "dead"}
                BY <1>3, <2>1, <3>5, Zenon DEF ListInv, Cui, Hwse
            <4>2. x \in k.cui[u].tasks => x \in r.cui[u].tasks \/ pc[x] = "dead"
                BY <1>7 DEF Dead
            <4>3. ~k.cui[u].online => ~r.cui[u].online
                BY <1>7
            <4> QED BY <1>6, <3>2, <4>1, <4>2, <4>3
        <3> QED BY <3>3, <3>4, <3>5
    <2> QED BY <1>3, <2>2, <2>3, Zenon DEF ListInv, Cui, Hwse
<1> QED BY <1>3, <1>8, <1>9, <1>10, <1>11, Zenon DEF Framed

\* What is left to show of a step.
LEMMA Assembled ==
    ASSUME NEW lost, NEW W, NEW T, Section(lost, W, T), Typed', BalanceInv',
           \A w \in W : UnitInv(kernel'.cui[w], kernel'.hwse, Asleep(w)', 0, lost),
           \A x \in Tasks \cap T : PlaceInv(x)' /\ ListInv(x)'
    PROVE  IInv(lost)'
<1>1. Framed(lost, W, T)
    BY Frame, Zenon
<1>2. UnitsInv(lost)'
    <2>1. \A u \in Ids : UnitInv(kernel'.cui[u], kernel'.hwse, Asleep(u)', 0, lost)
        BY <1>1 DEF Framed
    <2> QED BY <2>1, Zenon DEF UnitsInv, Cui, Hwse
<1>3. KindInv' /\ \A x \in Tasks : PlaceInv(x)' /\ ListInv(x)'
    BY <1>1 DEF Framed
<1> QED BY <1>2, <1>3, Zenon DEF IInv

\* A balancing in progress that the step does not belong to.
LEMMA BalanceFrame ==
    ASSUME BalanceInv, UNCHANGED balance, NEW t \in Tasks, pc[t] # "balancing",
           \A x \in Tasks \ {t} : pc'[x] = pc[x],
           \A v \in Ids : balance # NoBalance /\ balance.from = v =>
                kernel'.cui[v].tree = kernel.cui[v].tree
    PROVE  BalanceInv'
<1> SUFFICES ASSUME balance # NoBalance
             PROVE  /\ balance.by \in Tasks => pc'[balance.by] = "balancing"
                    /\ balance.pass = 2 => balance.cand = NoTask
                    /\ balance.cand # NoTask =>
                         /\ balance.from \in Ids
                         /\ balance.cand \in ToSet(kernel'.cui[balance.from].tree)
    BY Zenon DEF BalanceInv, Cui
<1>1. /\ balance.by \in Tasks => pc[balance.by] = "balancing"
      /\ balance.pass = 2 => balance.cand = NoTask
      /\ balance.cand # NoTask =>
           /\ balance.from \in Ids
           /\ balance.cand \in ToSet(kernel.cui[balance.from].tree)
    BY Zenon DEF BalanceInv, Cui
<1>2. balance.by \in Tasks => pc'[balance.by] = "balancing"
    BY <1>1
<1>3. balance.cand # NoTask => kernel'.cui[balance.from].tree = kernel.cui[balance.from].tree
    BY <1>1
<1> QED BY <1>1, <1>2, <1>3

-----------------------------------------------------------------------------
(* The parts of a section.                                                 *)

\* A section needs no more than these locks and threads.
LEMMA WithinMore ==
    ASSUME NEW k, NEW r, NEW W, NEW V, NEW T, NEW U, NEW dead,
           Within(k, r, W, T, dead), W \subseteq V, T \subseteq U
    PROVE  Within(k, r, V, U, dead)
<1>1. r \in KernelState /\ \A v \in Ids \ V : SameLock(k.cui[v], r.cui[v])
    BY Zenon DEF Within
<1>2. ASSUME NEW v \in Ids
      PROVE  /\ r.cui[v].type = k.cui[v].type
             /\ r.cui[v].listed => k.cui[v].listed
             /\ r.cui[v].online => k.cui[v].online \/ v \in Cpus
             /\ v \in Cpus => r.cui[v].maxcount = k.cui[v].maxcount
             /\ k.cui[v].tasks \ r.cui[v].tasks \subseteq dead \cup U
             /\ r.cui[v].tasks \subseteq k.cui[v].tasks \cup U
             /\ ToSet(r.cui[v].tree) \subseteq ToSet(k.cui[v].tree) \cup U
             /\ r.cui[v].curr \in {k.cui[v].curr, NoTask} \cup U \cup ToSet(k.cui[v].tree)
    BY DEF Within
<1>3. ASSUME NEW x \in Tasks \ U
      PROVE  /\ r.hwse[x].cfs_rq = k.hwse[x].cfs_rq
             /\ r.hwse[x].need_migrate = k.hwse[x].need_migrate
             /\ \/ r.hwse[x].semaphore_up = k.hwse[x].semaphore_up
                \/ \E w \in V : x \in ToSet(k.cui[w].tree)
    BY DEF Within
<1> QED BY <1>1, <1>2, <1>3, Zenon DEF Within

\* The entity of thread t changes.
WithEntity(s, t, e) == [s EXCEPT !.hwse[t] = e]

EntityPut(s, t, e, r) ==
    /\ r \in KernelState /\ r.cui = s.cui /\ r.hwse[t] = e
    /\ \A x \in Tasks \ {t} : r.hwse[x] = s.hwse[x]
    /\ r.active = s.active /\ r.nr_devices = s.nr_devices
    /\ \A dead : Within(s, r, {}, {t}, dead)

\* Only that entity differs.
LEMMA EntityIs ==
    ASSUME NEW s \in KernelState, NEW t \in Tasks, NEW e \in Entity,
           NEW r, r = WithEntity(s, t, e)
    PROVE  EntityPut(s, t, e, r)
<1>1. PICK h : h = [s.hwse EXCEPT ![t] = e]
    OBVIOUS
<1>2. s.hwse \in [Tasks -> Entity]
    BY DEF KernelState
<1>3. h \in [Tasks -> Entity] /\ h[t] = e /\ \A x \in Tasks \ {t} : h[x] = s.hwse[x]
    BY <1>1, <1>2
<1>4. r = [s EXCEPT !.hwse = h]
    BY <1>1, Zenon DEF WithEntity
<1>5. /\ r \in KernelState /\ r.cui = s.cui /\ r.hwse = h
      /\ r.active = s.active /\ r.nr_devices = s.nr_devices
    BY <1>3, <1>4 DEF KernelState
<1>6. ASSUME NEW dead PROVE Within(s, r, {}, {t}, dead)
    <2>1. \A v \in Ids : SameLock(s.cui[v], r.cui[v])
        BY <1>5, Zenon DEF SameLock
    <2>2. \A x \in Tasks \ {t} : r.hwse[x] = s.hwse[x]
        BY <1>3, <1>5
    <2> QED BY <1>5, <2>1, <2>2 DEF Within
<1> QED BY <1>3, <1>5, <1>6 DEF EntityPut

\* Unit u changes.
WithUnit(s, u, c) == [s EXCEPT !.cui[u] = c]

UnitPut(s, u, c, r) ==
    /\ r \in KernelState /\ r.hwse = s.hwse /\ r.cui[u] = c
    /\ \A v \in Ids \ {u} : r.cui[v] = s.cui[v]
    /\ r.active = s.active /\ r.nr_devices = s.nr_devices

\* Only that unit differs.
LEMMA UnitIs ==
    ASSUME NEW s \in KernelState, NEW u \in Ids, NEW c \in LaxUnit,
           NEW r, r = WithUnit(s, u, c)
    PROVE  UnitPut(s, u, c, r)
<1>1. PICK x : x = [s.cui EXCEPT ![u] = c]
    OBVIOUS
<1>2. s.cui \in [Ids -> LaxUnit]
    BY DEF KernelState
<1>3. x \in [Ids -> LaxUnit] /\ x[u] = c /\ \A v \in Ids \ {u} : x[v] = s.cui[v]
    BY <1>1, <1>2
<1>4. r = [s EXCEPT !.cui = x]
    BY <1>1, Zenon DEF WithUnit
<1>5. /\ r \in KernelState /\ r.cui = x /\ r.hwse = s.hwse
      /\ r.active = s.active /\ r.nr_devices = s.nr_devices
    BY <1>3, <1>4 DEF KernelState
<1> QED BY <1>3, <1>5 DEF UnitPut

\* How unit c may change into d when the threads T do something to it.
Turns(c, d, T, dead) ==
    /\ d.type = c.type /\ d.maxcount = c.maxcount
    /\ d.listed => c.listed
    /\ d.online => c.online
    /\ c.tasks \ d.tasks \subseteq dead \cup T
    /\ d.tasks \subseteq c.tasks \cup T
    /\ ToSet(d.tree) \subseteq ToSet(c.tree) \cup T
    /\ d.curr \in {c.curr, NoTask} \cup T \cup ToSet(c.tree)

\* Such a change is a section.
LEMMA UnitWithin ==
    ASSUME NEW s \in KernelState, NEW u \in Ids, NEW r \in KernelState, NEW T, NEW dead,
           \A v \in Ids \ {u} : r.cui[v] = s.cui[v],
           \A x \in Tasks \ T : r.hwse[x] = s.hwse[x],
           Turns(s.cui[u], r.cui[u], T, dead)
    PROVE  Within(s, r, {u}, T, dead)
<1>1. \A v \in Ids \ {u} : SameLock(s.cui[v], r.cui[v])
    BY Zenon DEF SameLock
<1>2. ASSUME NEW v \in Ids
      PROVE  /\ r.cui[v].type = s.cui[v].type
             /\ r.cui[v].listed => s.cui[v].listed
             /\ r.cui[v].online => s.cui[v].online \/ v \in Cpus
             /\ v \in Cpus => r.cui[v].maxcount = s.cui[v].maxcount
             /\ s.cui[v].tasks \ r.cui[v].tasks \subseteq dead \cup T
             /\ r.cui[v].tasks \subseteq s.cui[v].tasks \cup T
             /\ ToSet(r.cui[v].tree) \subseteq ToSet(s.cui[v].tree) \cup T
             /\ r.cui[v].curr \in {s.cui[v].curr, NoTask} \cup T \cup ToSet(s.cui[v].tree)
    <2>1. CASE v = u
        BY <2>1 DEF Turns
    <2>2. CASE v # u
        BY <2>2
    <2> QED BY <2>1, <2>2
<1>3. ASSUME NEW x \in Tasks \ T
      PROVE  /\ r.hwse[x].cfs_rq = s.hwse[x].cfs_rq
             /\ r.hwse[x].need_migrate = s.hwse[x].need_migrate
             /\ \/ r.hwse[x].semaphore_up = s.hwse[x].semaphore_up
                \/ \E w \in {u} : x \in ToSet(s.cui[w].tree)
    BY Zenon
<1> QED BY <1>1, <1>2, <1>3, Zenon DEF Within

\* Slots of unit u are given to those who wait: the locks of the others stay.
Served(s, r, u, S, lost) ==
    /\ r \in KernelState /\ r.active = s.active /\ r.nr_devices = s.nr_devices
    /\ UnitInv(r.cui[u], r.hwse, S, 0, lost) /\ Serves(s, r, u)
    /\ r.cui[u].count <= s.cui[u].count

\* Releasing what dead threads hold.
Tidied(s, r, u, dead, S, lost) ==
    /\ r \in KernelState /\ r.active = s.active /\ r.nr_devices = s.nr_devices
    /\ UnitInv(r.cui[u], r.hwse, S, 0, lost)
    /\ Within(s, r, {u}, {}, dead)
    /\ \A v \in Ids \ {u} : r.cui[v] = s.cui[v]
    /\ r.cui[u].maxcount = s.cui[u].maxcount /\ r.cui[u].count <= s.cui[u].count
    /\ r.cui[u].online = s.cui[u].online /\ r.cui[u].tasks = s.cui[u].tasks \ dead
    /\ r.cui[u].curr \in {s.cui[u].curr} \cup ToSet(s.cui[u].tree)
    /\ \A x \in Tasks \ ToSet(s.cui[u].tree) : r.hwse[x] = s.hwse[x]

Tidies(s, u, dead, S, lost) ==
    /\ s \in KernelState /\ u \in Ids /\ S \in SUBSET Tasks /\ lost \in SUBSET Tasks
    /\ S \cap dead = {} /\ UnitInv(s.cui[u], s.hwse, S, 0, lost)

\* Tidying, seen from the section.
LEMMA TidyIs ==
    ASSUME NEW s, NEW u, NEW dead, NEW S, NEW lost, Tidies(s, u, dead, S, lost)
    PROVE  Tidied(s, Tidy(s, u, dead), u, dead, S, lost)
<1>1. /\ s \in KernelState /\ u \in Ids /\ S \in SUBSET Tasks /\ lost \in SUBSET Tasks
      /\ S \cap dead = {} /\ UnitInv(s.cui[u], s.hwse, S, 0, lost)
    BY Zenon DEF Tidies
<1>2. PICK r : r = Tidy(s, u, dead)
    OBVIOUS
<1>3. PICK q : q = [s EXCEPT !.cui[u].tasks = @ \ dead]
    OBVIOUS
<1>4. /\ q.cui = [s.cui EXCEPT ![u].tasks = @ \ dead]
      /\ q.hwse = s.hwse /\ q.cui[u] \in LaxUnit
      /\ r \in KernelState /\ r.active = s.active /\ r.nr_devices = s.nr_devices
      /\ UnitInv(r.cui[u], r.hwse, S, 0, lost) /\ Serves(q, r, u)
      /\ r.cui[u].count <= s.cui[u].count
    <2>1. LET reaped == [s EXCEPT !.cui[u].tasks = @ \ dead]
              x == Tidy(s, u, dead)
          IN  /\ reaped.cui = [s.cui EXCEPT ![u].tasks = @ \ dead]
              /\ reaped.hwse = s.hwse /\ reaped.cui[u] \in LaxUnit
              /\ x \in KernelState /\ x.active = s.active /\ x.nr_devices = s.nr_devices
              /\ UnitInv(x.cui[u], x.hwse, S, 0, lost) /\ Serves(reaped, x, u)
              /\ x.cui[u].count <= s.cui[u].count
        BY <1>1, TidyTidies, Zenon
    <2> QED BY <1>2, <1>3, <2>1, Zenon
<1>5. PICK c : c = [s.cui[u] EXCEPT !.tasks = @ \ dead]
    OBVIOUS
<1>6. s.cui \in [Ids -> LaxUnit] /\ s.cui[u] \in LaxUnit
    BY <1>1 DEF KernelState
<1>7. /\ c \in LaxUnit /\ c.tasks = s.cui[u].tasks \ dead
      /\ c.type = s.cui[u].type /\ c.online = s.cui[u].online
      /\ c.listed = s.cui[u].listed /\ c.maxcount = s.cui[u].maxcount
      /\ c.tree = s.cui[u].tree /\ c.curr = s.cui[u].curr
    <2>1. PICK z \in SUBSET Tasks : z = s.cui[u].tasks \ dead
        BY <1>6 DEF LaxUnit
    <2>2. c = [s.cui[u] EXCEPT !.tasks = z]
        BY <1>5, <2>1
    <2> QED BY <1>6, <2>1, <2>2 DEF LaxUnit
<1>8. q = WithUnit(s, u, c)
    BY <1>3, <1>5, Zenon DEF WithUnit
<1>9. q \in KernelState /\ q.hwse = s.hwse /\ q.cui[u] = c
      /\ \A v \in Ids \ {u} : q.cui[v] = s.cui[v]
    <2>1. UnitPut(s, u, c, q)
        BY <1>1, <1>7, <1>8, UnitIs, Zenon
    <2> QED BY <2>1, Zenon DEF UnitPut
<1>10. Within(s, q, {u}, {}, dead)
    <2>1. Turns(s.cui[u], q.cui[u], {}, dead)
        BY <1>7, <1>9 DEF Turns
    <2> QED BY <1>1, <1>9, <2>1, UnitWithin
<1>11. Within(q, r, {u}, {}, dead)
    BY <1>1, <1>4, <1>9, ServesWithin, Zenon
<1>12. Within(s, r, {u}, {}, dead)
    <2>1. {u} \in SUBSET Ids
        BY <1>1
    <2> QED BY <1>10, <1>11, <2>1, WithinTransitive, Zenon
<1>13. /\ \A v \in Ids \ {u} : r.cui[v] = q.cui[v]
       /\ r.cui[u].maxcount = q.cui[u].maxcount
       /\ r.cui[u].online = q.cui[u].online /\ r.cui[u].tasks = q.cui[u].tasks
       /\ r.cui[u].curr \in {q.cui[u].curr} \cup ToSet(q.cui[u].tree)
       /\ \A x \in Tasks \ ToSet(q.cui[u].tree) : r.hwse[x] = q.hwse[x]
    BY <1>4 DEF Serves
<1>14. Tidied(s, r, u, dead, S, lost)
    BY <1>4, <1>7, <1>9, <1>12, <1>13 DEF Tidied
<1> QED BY <1>2, <1>14

Releases(s, u, dead, S, lost) ==
    /\ s \in KernelState /\ u \in Ids /\ S \in SUBSET Tasks /\ lost \in SUBSET Tasks
    /\ S \cap dead = {} /\ UnitInv(s.cui[u], s.hwse, S, 0 + 1, lost)

\* cu_up, seen from the section.
LEMMA CuUpIs ==
    ASSUME NEW s, NEW u, NEW dead, NEW S, NEW lost, Releases(s, u, dead, S, lost)
    PROVE  Served(s, CuUp(s, u, dead), u, S, lost)
<1>1. /\ s \in KernelState /\ u \in Ids /\ S \in SUBSET Tasks /\ lost \in SUBSET Tasks
      /\ S \cap dead = {} /\ UnitInv(s.cui[u], s.hwse, S, 0 + 1, lost) /\ 0 \in Nat
    BY Zenon DEF Releases
<1>2. LET r == CuUp(s, u, dead)
      IN  /\ UnitInv(r.cui[u], r.hwse, S, 0, lost) /\ Serves(s, r, u)
          /\ r.cui[u].count <= s.cui[u].count
    BY <1>1, CuUpReleases, Zenon
<1>3. /\ CuUp(s, u, dead) \in KernelState
      /\ CuUp(s, u, dead).active = s.active
      /\ CuUp(s, u, dead).nr_devices = s.nr_devices
    BY <1>1, CuUpTyped, Zenon
<1> QED BY <1>2, <1>3, Zenon DEF Served

\* A thread that is counted already becomes a holder of unit c.
Takes(c, h, S, lost, t, d) ==
    /\ c \in LaxUnit /\ S \in SUBSET Tasks /\ UnitInv(c, h, S, 1, lost)
    /\ t \in Tasks /\ t \notin S /\ t \notin c.tasks
    /\ d = [c EXCEPT !.tasks = @ \cup {t}, !.curr = t]

Taken(c, h, S, lost, t, d) ==
    /\ d \in LaxUnit /\ UnitInv(d, h, S, 0, lost)
    /\ d.tasks = c.tasks \cup {t} /\ d.curr = t /\ d.tree = c.tree
    /\ d.type = c.type /\ d.online = c.online /\ d.listed = c.listed
    /\ d.count = c.count /\ d.maxcount = c.maxcount

\* The lock of the unit stays intact.
LEMMA HolderIs ==
    ASSUME NEW c, NEW h, NEW S, NEW lost, NEW t, NEW d, Takes(c, h, S, lost, t, d)
    PROVE  Taken(c, h, S, lost, t, d)
<1>0. /\ c \in LaxUnit /\ S \in SUBSET Tasks /\ UnitInv(c, h, S, 1, lost)
      /\ t \in Tasks /\ t \notin S /\ t \notin c.tasks
    BY Zenon DEF Takes
<1>1. PICK z \in SUBSET Tasks : z = c.tasks \cup {t}
    BY <1>0 DEF LaxUnit
<1>2. PICK e : e = [c EXCEPT !.tasks = z]
    OBVIOUS
<1>3. /\ e \in LaxUnit /\ e.tasks = z /\ e.curr = c.curr /\ e.tree = c.tree
      /\ e.type = c.type /\ e.online = c.online /\ e.listed = c.listed
      /\ e.count = c.count /\ e.maxcount = c.maxcount /\ e.nr_running = c.nr_running
    BY <1>0, <1>2 DEF LaxUnit
<1>4. d = [e EXCEPT !.curr = t]
    BY <1>1, <1>2, Zenon DEF Takes
<1>5. /\ d \in LaxUnit /\ d.tasks = z /\ d.curr = t /\ d.tree = c.tree
      /\ d.type = c.type /\ d.online = c.online /\ d.listed = c.listed
      /\ d.count = c.count /\ d.maxcount = c.maxcount /\ d.nr_running = c.nr_running
    BY <1>0, <1>3, <1>4 DEF LaxUnit
<1>6. /\ Injective(c.tree) /\ ToSet(c.tree) \subseteq S
      /\ \A x \in ToSet(c.tree) : ~h[x].semaphore_up /\ ~h[x].need_migrate
      /\ c.tasks \cap S = {}
      /\ c.count = Cardinality(Holders(c, h, S)) + 1
      /\ \A x \in S : ~(h[x].semaphore_up /\ h[x].need_migrate)
      /\ c.tree # <<>> => c.count >= c.maxcount
    BY <1>0, Zenon DEF UnitInv, LockInv
<1>7. /\ lost = {} => c.nr_running = Len(c.tree)
      /\ \A x \in S \ ToSet(c.tree) : h[x].semaphore_up \/ h[x].need_migrate \/ x \in lost
    BY <1>0, Zenon DEF UnitInv, LockInv
<1>8. d.count = Cardinality(Holders(d, h, S)) + 0
    <2>1. PICK H : H = Holders(c, h, S)
        OBVIOUS
    <2>2. IsFiniteSet(H) /\ Cardinality(H) \in Nat
        BY <1>0, <2>1, HoldersFinite, Zenon
    <2>3. t \notin H /\ Holders(d, h, S) = H \cup {t}
        BY <1>0, <1>1, <1>5, <2>1 DEF Holders
    <2>4. Cardinality(H \cup {t}) = Cardinality(H) + 1
        BY <2>2, <2>3, FS_AddElement, Zenon
    <2>5. PICK a \in Nat : a = Cardinality(H)
        BY <2>2
    <2>6. d.count = a + 1 /\ Cardinality(Holders(d, h, S)) = a + 1
        BY <1>5, <1>6, <2>1, <2>3, <2>4, <2>5
    <2>7. a + 1 = (a + 1) + 0
        OBVIOUS
    <2> QED BY <2>6, <2>7, Zenon
<1>9. d.tasks \cap S = {} /\ d.curr \notin ToSet(d.tree)
    BY <1>0, <1>1, <1>5, <1>6
<1>10. /\ lost = {} => d.nr_running = Len(d.tree)
       /\ \A x \in S \ ToSet(d.tree) : h[x].semaphore_up \/ h[x].need_migrate \/ x \in lost
    BY <1>5, <1>7
<1>11. LockInv(d, h, S, 0, lost)
    BY <1>5, <1>6, <1>8, <1>9, <1>10 DEF LockInv
<1>12. UnitInv(d, h, S, 0, lost)
    BY <1>5, <1>6, <1>11 DEF UnitInv
<1> QED BY <1>1, <1>5, <1>12 DEF Taken

Acquires(k, u, t, S, lost) ==
    /\ k \in KernelState /\ u \in Ids /\ t \in Tasks /\ S \in SUBSET Tasks
    /\ lost \in SUBSET Tasks /\ t \notin S /\ S \cap Dead = {} /\ t \notin k.cui[u].tasks
    /\ UnitInv(k.cui[u], k.hwse, S, IF k.hwse[t].need_migrate THEN 0 ELSE 1, lost)
    /\ Acquire(k, u, t)

\* What becomes of a thread after cu_down: it is a holder of u, or not and looks for
\* another unit.
Acquired(k, u, t, S, lost) ==
    /\ Within(k, kernel', {u}, {t}, Dead)
    /\ UnitInv(kernel'.cui[u], kernel'.hwse, S, 0, lost)
    /\ \A v \in Ids \ {u} : kernel'.cui[v] = k.cui[v]
    /\ kernel'.cui[u].count <= k.cui[u].count
    /\ kernel'.cui[u].maxcount = k.cui[u].maxcount
    /\ \/ /\ pc' = [pc EXCEPT ![t] = "got"]
          /\ t \in kernel'.cui[u].tasks /\ kernel'.hwse[t].cfs_rq = k.hwse[t].cfs_rq
       \/ /\ pc' \in {[pc EXCEPT ![t] = "search"], [pc EXCEPT ![t] = "trydel"]}
          /\ t \notin kernel'.cui[u].tasks /\ kernel'.hwse[t].cfs_rq = CU_INVALID_HANDLE
          /\ kernel'.cui[u].online = k.cui[u].online
          /\ k.hwse[t].need_migrate \/ ~k.cui[u].online
          /\ kernel'.cui[u].curr = t => k.cui[u].curr = t

\* What follows on cu_down keeps the lock and makes a thread a holder or not.
LEMMA AcquireIs ==
    ASSUME NEW k, NEW u, NEW t, NEW S, NEW lost, Acquires(k, u, t, S, lost)
    PROVE  Acquired(k, u, t, S, lost)
<1>1. /\ k \in KernelState /\ u \in Ids /\ t \in Tasks /\ S \in SUBSET Tasks
      /\ lost \in SUBSET Tasks /\ t \notin S /\ S \cap Dead = {} /\ t \notin k.cui[u].tasks
      /\ UnitInv(k.cui[u], k.hwse, S, IF k.hwse[t].need_migrate THEN 0 ELSE 1, lost)
    BY Zenon DEF Acquires
<1>2. Acquire(k, u, t)
    BY Zenon DEF Acquires
<1>3. PICK c : c = k.cui[u]
    OBVIOUS
<1>4. /\ k.cui \in [Ids -> LaxUnit] /\ k.hwse \in [Tasks -> Entity]
      /\ c \in LaxUnit /\ k.hwse[t] \in Entity
    BY <1>1, <1>3 DEF KernelState
<1>5. PICK r : r = kernel'
    OBVIOUS
<1>6. CASE k.hwse[t].need_migrate \/ ~k.cui[u].online
    <2>1. PICK left : left = [k EXCEPT !.hwse[t].cfs_rq = CU_INVALID_HANDLE]
        OBVIOUS
    <2>2. /\ r = IF k.hwse[t].need_migrate THEN left ELSE CuUp(left, u, Dead)
          /\ pc' \in {[pc EXCEPT ![t] = "search"], [pc EXCEPT ![t] = "trydel"]}
        <3>1. /\ kernel' = IF k.hwse[t].need_migrate THEN left ELSE CuUp(left, u, Dead)
              /\ Goto(t, IF k.cui[u].online THEN "search" ELSE "trydel")
            BY <1>2, <1>6, <2>1, Zenon DEF Acquire
        <3>2. pc' = [pc EXCEPT ![t] = "search"] \/ pc' = [pc EXCEPT ![t] = "trydel"]
            <4>1. CASE k.cui[u].online
                BY <3>1, <4>1, Zenon DEF Goto
            <4>2. CASE ~k.cui[u].online
                BY <3>1, <4>2, Zenon DEF Goto
            <4> QED BY <4>1, <4>2
        <3> QED BY <1>5, <3>1, <3>2
    <2>3. PICK e : e = [k.hwse[t] EXCEPT !.cfs_rq = CU_INVALID_HANDLE]
        OBVIOUS
    <2>4. /\ e \in Entity /\ e.cfs_rq = CU_INVALID_HANDLE
          /\ e.need_migrate = k.hwse[t].need_migrate
        BY <1>4, <2>3 DEF Entity
    <2>5. left = WithEntity(k, t, e)
        BY <2>1, <2>3, Zenon DEF WithEntity
    <2>6. EntityPut(k, t, e, left)
        BY <1>1, <2>4, <2>5, EntityIs, Zenon
    <2>7. /\ left \in KernelState /\ left.cui = k.cui /\ left.hwse[t] = e
          /\ \A x \in Tasks \ {t} : left.hwse[x] = k.hwse[x]
          /\ Within(k, left, {}, {t}, Dead)
        BY <2>6, Zenon DEF EntityPut
    <2>8. UnitInv(left.cui[u], left.hwse, S, IF k.hwse[t].need_migrate THEN 0 ELSE 1, lost)
        <3>3. PICK n : n = IF k.hwse[t].need_migrate THEN 0 ELSE 1
            OBVIOUS
        <3>4. UnitInv(c, k.hwse, S, n, lost)
            BY <1>1, <1>3, <3>3, Zenon
        <3>5. PICK h, g : h = left.hwse /\ g = k.hwse
            OBVIOUS
        <3>1. UnitInv(c, g, S, n, lost) /\ SameLock(c, c)
            BY <3>4, <3>5, Zenon DEF SameLock
        <3>2. \A x \in S : /\ h[x].semaphore_up = g[x].semaphore_up
                           /\ h[x].need_migrate = g[x].need_migrate
            BY <1>1, <2>7, <3>5
        <3>6. UnitInv(c, h, S, n, lost)
            BY <1>4, <3>1, <3>2, UnitFrame, Zenon
        <3> QED BY <1>3, <2>7, <3>3, <3>5, <3>6
    <2>9. Within(k, left, {u}, {t}, Dead)
        <3>1. PICK V, W, T : V = {} /\ W = {u} /\ T = {t}
            OBVIOUS
        <3>2. Within(k, left, V, T, Dead) /\ V \subseteq W /\ T \subseteq T
            BY <2>7, <3>1
        <3>3. Within(k, left, W, T, Dead)
            BY <3>2, WithinMore, Zenon
        <3> QED BY <3>1, <3>3
    <2>10. CASE k.hwse[t].need_migrate
        <3>1. r = left /\ r.cui[u] = c
            BY <1>3, <2>2, <2>7, <2>10
        <3>2. UnitInv(r.cui[u], r.hwse, S, 0, lost)
            BY <2>8, <2>10, <3>1
        <3>3. r.cui = k.cui /\ r.cui[u].count <= k.cui[u].count
            <4>1. c.count \in Int
                BY <1>4, SMTT(30) DEF LaxUnit
            <4> QED BY <1>3, <2>7, <3>1, <4>1
        <3> QED BY <1>1, <1>3, <1>5, <1>6, <2>2, <2>4, <2>7, <2>9, <3>1, <3>2, <3>3 DEF Acquired
    <2>11. CASE ~k.hwse[t].need_migrate
        <3>1. r = CuUp(left, u, Dead)
            BY <2>2, <2>11
        <3>2. UnitInv(left.cui[u], left.hwse, S, 0 + 1, lost)
            BY <2>8, <2>11
        <3>9. Releases(left, u, Dead, S, lost)
            BY <1>1, <2>7, <3>2, Zenon DEF Releases
        <3>10. Served(left, r, u, S, lost)
            BY <3>1, <3>9, CuUpIs, Zenon
        <3>3. /\ UnitInv(r.cui[u], r.hwse, S, 0, lost) /\ Serves(left, r, u)
              /\ r.cui[u].count <= left.cui[u].count
            BY <3>10, Zenon DEF Served
        <3>4. r \in KernelState
            BY <3>10, Zenon DEF Served
        <3>5. Within(k, r, {u}, {t}, Dead)
            <4>1. Within(left, r, {u}, {t}, Dead)
                BY <1>1, <2>7, <3>3, <3>4, ServesWithin, Zenon
            <4>2. {u} \in SUBSET Ids
                BY <1>1
            <4> QED BY <2>9, <4>1, <4>2, WithinTransitive, Zenon
        <3>6. t \notin ToSet(c.tree)
            BY <1>1, <1>3 DEF UnitInv, LockInv
        <3>7. /\ \A v \in Ids \ {u} : r.cui[v] = k.cui[v]
              /\ r.cui[u].maxcount = c.maxcount /\ r.cui[u].online = c.online
              /\ r.cui[u].tasks = c.tasks
              /\ r.cui[u].curr \in {c.curr} \cup ToSet(c.tree)
              /\ r.hwse[t].cfs_rq = CU_INVALID_HANDLE
            <4>1. r.hwse[t] = left.hwse[t]
                BY <1>1, <1>3, <2>7, <3>3, <3>6 DEF Serves
            <4> QED BY <1>3, <2>4, <2>7, <3>3, <4>1 DEF Serves
        <3>8. r.cui[u].count <= k.cui[u].count
            BY <2>7, <3>3
        <3> QED BY <1>1, <1>3, <1>5, <1>6, <2>2, <3>3, <3>5, <3>6, <3>7, <3>8 DEF Acquired
    <2> QED BY <2>10, <2>11
<1>7. CASE ~(k.hwse[t].need_migrate \/ ~k.cui[u].online)
    <2>1. r = BecomeHolder(k, u, t) /\ pc' = [pc EXCEPT ![t] = "got"]
        BY <1>2, <1>5, <1>7, Zenon DEF Acquire, Goto
    <2>2. PICK d : d = [c EXCEPT !.tasks = @ \cup {t}, !.curr = t]
        OBVIOUS
    <2>3. UnitInv(c, k.hwse, S, 1, lost)
        BY <1>1, <1>3, <1>7
    <2>4. /\ d \in LaxUnit /\ UnitInv(d, k.hwse, S, 0, lost)
          /\ d.tasks = c.tasks \cup {t} /\ d.curr = t /\ d.tree = c.tree
          /\ d.type = c.type /\ d.online = c.online /\ d.listed = c.listed
          /\ d.count = c.count /\ d.maxcount = c.maxcount
        <3>1. Takes(c, k.hwse, S, lost, t, d)
            BY <1>1, <1>3, <1>4, <2>2, <2>3, Zenon DEF Takes
        <3>2. Taken(c, k.hwse, S, lost, t, d)
            BY <3>1, HolderIs, Zenon
        <3> QED BY <3>2, Zenon DEF Taken
    <2>5. r = WithUnit(k, u, d)
        BY <1>3, <2>1, <2>2, Zenon DEF BecomeHolder, WithUnit
    <2>6. UnitPut(k, u, d, r)
        BY <1>1, <2>4, <2>5, UnitIs, Zenon
    <2>7. /\ r \in KernelState /\ r.hwse = k.hwse /\ r.cui[u] = d
          /\ \A v \in Ids \ {u} : r.cui[v] = k.cui[v]
        BY <2>6, Zenon DEF UnitPut
    <2>8. Within(k, r, {u}, {t}, Dead)
        <3>1. Turns(k.cui[u], r.cui[u], {t}, Dead)
            BY <1>3, <2>4, <2>7 DEF Turns
        <3> QED BY <1>1, <2>7, <3>1, UnitWithin
    <2>9. r.cui[u].count <= k.cui[u].count
        <3>1. c.count \in Int
            BY <1>4 DEF LaxUnit
        <3> QED BY <1>3, <2>4, <2>7, <3>1
    <2> QED BY <1>3, <1>5, <2>1, <2>4, <2>7, <2>8, <2>9 DEF Acquired
<1> QED BY <1>6, <1>7

-----------------------------------------------------------------------------
(* A step of one thread.                                                   *)

\* What a step of thread t leaves alone in the program.
Elsewhere(t) ==
    /\ current_id' = current_id
    /\ cpu' \in [Tasks -> Cpus] /\ workstatus' \in [Tasks -> Nat]
    /\ \A x \in Tasks : workstatus'[x] <= Work[x]
    /\ \A x \in Tasks \ {t} : workstatus'[x] = workstatus[x]

\* Inside of a system call a thread changes nothing of the program.
LEMMA InCallElsewhere ==
    ASSUME Typed, InCall, NEW t
    PROVE  Elsewhere(t)
BY DEF Typed, InCall, Elsewhere

\* Thread t comes to label l in a section under the locks of the units W.
Steps(lost, W, t, l) ==
    /\ lost \in SUBSET Tasks /\ W \in SUBSET Ids /\ t \in Tasks /\ IInv(lost)
    /\ Within(kernel, kernel', W, {t}, Dead)
    /\ l \in Labels /\ pc' = [pc EXCEPT ![t] = l] /\ pc[t] # "balancing"
    /\ my' \in [Tasks -> Ids \cup {CU_INVALID_HANDLE}]
    /\ \A x \in Tasks \ {t} : my'[x] = my[x]
    /\ Elsewhere(t) /\ UNCHANGED balance
    /\ \A w \in W :
        /\ AccessMutexIsFree(w)
        /\ UnitInv(kernel'.cui[w], kernel'.hwse, Asleep(w)', 0, lost)
    /\ \A v \in Ids \ W : ~(pc[t] = "sleep" /\ my[t] = v) /\ ~(l = "sleep" /\ my'[t] = v)
    /\ PlaceInv(t)' /\ ListInv(t)'

\* Such a step keeps the invariant.
LEMMA StepIs ==
    ASSUME NEW lost, NEW W, NEW t, NEW l, Steps(lost, W, t, l)
    PROVE  IInv(lost)'
<1>1. /\ lost \in SUBSET Tasks /\ W \in SUBSET Ids /\ t \in Tasks /\ IInv(lost)
      /\ Within(kernel, kernel', W, {t}, Dead)
      /\ l \in Labels /\ pc' = [pc EXCEPT ![t] = l] /\ pc[t] # "balancing"
      /\ my' \in [Tasks -> Ids \cup {CU_INVALID_HANDLE}]
      /\ \A x \in Tasks \ {t} : my'[x] = my[x]
      /\ Elsewhere(t) /\ UNCHANGED balance
      /\ \A w \in W :
          /\ AccessMutexIsFree(w)
          /\ UnitInv(kernel'.cui[w], kernel'.hwse, Asleep(w)', 0, lost)
      /\ \A v \in Ids \ W : ~(pc[t] = "sleep" /\ my[t] = v) /\ ~(l = "sleep" /\ my'[t] = v)
      /\ PlaceInv(t)' /\ ListInv(t)'
    BY Zenon DEF Steps
<1>2. Typed /\ BalanceInv
    BY <1>1, Zenon DEF IInv
<1>3. /\ current_id' = current_id
      /\ cpu' \in [Tasks -> Cpus] /\ workstatus' \in [Tasks -> Nat]
      /\ \A x \in Tasks : workstatus'[x] <= Work[x]
      /\ \A x \in Tasks \ {t} : workstatus'[x] = workstatus[x]
    BY <1>1, Zenon DEF Elsewhere
<1>4. /\ pc \in [Tasks -> Labels] /\ current_id \in Ids /\ Cpus \subseteq 0 .. current_id
      /\ balance \in BalanceState \cup {NoBalance}
    BY <1>2, Zenon DEF Typed
<1>5. /\ pc' \in [Tasks -> Labels] /\ pc'[t] = l
      /\ \A x \in Tasks \ {t} : pc'[x] = pc[x]
    BY <1>1, <1>4
<1>6. kernel' \in KernelState
    BY <1>1, Zenon DEF Within
<1>7. Typed'
    BY <1>1, <1>3, <1>4, <1>5, <1>6, Zenon DEF Typed
<1>8. BalanceInv'
    <2>1. \A v \in Ids : balance # NoBalance /\ balance.from = v =>
            kernel'.cui[v].tree = kernel.cui[v].tree
        <3> SUFFICES ASSUME NEW v \in Ids, balance # NoBalance, balance.from = v
                     PROVE  kernel'.cui[v].tree = kernel.cui[v].tree
            OBVIOUS
        <3>1. v \notin W
            BY <1>1 DEF AccessMutexIsFree
        <3>2. SameLock(kernel.cui[v], kernel'.cui[v])
            BY <1>1, <3>1, Zenon DEF Within
        <3> QED BY <3>2, Zenon DEF SameLock
    <2>2. UNCHANGED balance
        BY <1>1
    <2> QED BY <1>1, <1>2, <1>5, <2>1, <2>2, BalanceFrame, Zenon
<1>9. Section(lost, W, {t})
    <2>1. \A x \in Tasks \ {t} :
            pc'[x] = pc[x] /\ my'[x] = my[x] /\ workstatus'[x] = workstatus[x]
        BY <1>1, <1>3, <1>5
    <2>2. \A x \in Tasks \cap {t} : \A v \in Ids \ W :
            ~(pc[x] = "sleep" /\ my[x] = v) /\ ~(pc'[x] = "sleep" /\ my'[x] = v)
        BY <1>1, <1>5
    <2> QED BY <1>1, <1>3, <2>1, <2>2, Zenon DEF Section
<1>10. \A x \in Tasks \cap {t} : PlaceInv(x)' /\ ListInv(x)'
    <2> SUFFICES ASSUME NEW x \in Tasks \cap {t} PROVE PlaceInv(x)' /\ ListInv(x)'
        OBVIOUS
    <2>1. x = t
        OBVIOUS
    <2> QED BY <1>1, <2>1
<1>11. \A w \in W : UnitInv(kernel'.cui[w], kernel'.hwse, Asleep(w)', 0, lost)
    BY <1>1
<1>12. PICK T : T = {t}
    OBVIOUS
<1>13. Section(lost, W, T) /\ \A x \in Tasks \cap T : PlaceInv(x)' /\ ListInv(x)'
    BY <1>9, <1>10, <1>12
<1> QED BY <1>7, <1>8, <1>11, <1>13, Assembled, Zenon

\* The part of NewHoldersFit that is about one step.
Fits ==
    \A u \in Ids :
        kernel'.cui[u].count > kernel.cui[u].count
            /\ kernel'.cui[u].maxcount = kernel.cui[u].maxcount
        => kernel'.cui[u].count <= kernel'.cui[u].maxcount

\* Thread t comes to label l, and the locks of the units and who uses them stay.
Quiet(lost, t, l) ==
    /\ lost \in SUBSET Tasks /\ t \in Tasks /\ IInv(lost)
    /\ l \in Labels \ {"sleep"} /\ pc' = [pc EXCEPT ![t] = l]
    /\ pc[t] \notin {"sleep", "balancing", "done", "dead"}
    /\ my' \in [Tasks -> Ids \cup {CU_INVALID_HANDLE}]
    /\ \A x \in Tasks \ {t} : my'[x] = my[x]
    /\ Elsewhere(t) /\ UNCHANGED balance
    /\ Within(kernel, kernel', {}, {t}, Dead)
    /\ kernel'.hwse[t].cfs_rq = kernel.hwse[t].cfs_rq
    /\ l \notin {"user", "search", "done", "dead"} => my'[t] \in 0 .. current_id
    /\ l = "lock" => my'[t] \in Cpus \/ kernel.cui[my'[t]].curr # t
    /\ l \in {"got"} \cup Holding =>
        pc[t] \in {"got"} \cup Holding /\ my'[t] \in {my[t], kernel.hwse[t].cfs_rq}
    /\ l \in HolderLabels \/ pc[t] \notin HolderLabels
    /\ l \in {"search", "lock", "sleep", "trydel", "got", "compute", "rerequest", "stay"}
        => workstatus'[t] > 0

\* Such a step keeps the invariant, and gives no slot.
LEMMA QuietIs ==
    ASSUME NEW lost, NEW t, NEW l, Quiet(lost, t, l)
    PROVE  IInv(lost)' /\ Fits
<1>1. /\ lost \in SUBSET Tasks /\ t \in Tasks /\ IInv(lost)
      /\ l \in Labels /\ l # "sleep" /\ pc' = [pc EXCEPT ![t] = l]
      /\ pc[t] \notin {"sleep", "balancing", "done", "dead"}
      /\ my' \in [Tasks -> Ids \cup {CU_INVALID_HANDLE}]
      /\ \A x \in Tasks \ {t} : my'[x] = my[x]
      /\ Elsewhere(t) /\ UNCHANGED balance
      /\ Within(kernel, kernel', {}, {t}, Dead)
      /\ kernel'.hwse[t].cfs_rq = kernel.hwse[t].cfs_rq
    BY Zenon DEF Quiet
<1>2. /\ l \notin {"user", "search", "done", "dead"} => my'[t] \in 0 .. current_id
      /\ l = "lock" => my'[t] \in Cpus \/ kernel.cui[my'[t]].curr # t
      /\ l \in {"got"} \cup Holding =>
          pc[t] \in {"got"} \cup Holding /\ my'[t] \in {my[t], kernel.hwse[t].cfs_rq}
      /\ l \in HolderLabels \/ pc[t] \notin HolderLabels
      /\ l \in {"search", "lock", "sleep", "trydel", "got", "compute", "rerequest", "stay"}
          => workstatus'[t] > 0
    BY Zenon DEF Quiet
<1>3. Typed /\ PlaceInv(t) /\ ListInv(t)
    BY <1>1, Zenon DEF IInv
<1>4. PICK k, r : k = kernel /\ r = kernel'
    OBVIOUS
<1>5. Within(k, r, {}, {t}, Dead) /\ r.hwse[t].cfs_rq = k.hwse[t].cfs_rq
    BY <1>1, <1>4
<1>6. \A v \in Ids : /\ r.cui[v].count = k.cui[v].count /\ r.cui[v].tasks = k.cui[v].tasks
                     /\ r.cui[v].curr = k.cui[v].curr
                     /\ r.cui[v].online => k.cui[v].online \/ v \in Cpus
    BY <1>5 DEF Within, SameLock
<1>7. pc'[t] = l /\ current_id' = current_id
    BY <1>1, <1>3 DEF Typed, Elsewhere
<1>8. /\ pc[t] \in {"got"} \cup Holding =>
          /\ k.hwse[t].cfs_rq \in Ids /\ t \in k.cui[k.hwse[t].cfs_rq].tasks
          /\ my[t] = k.hwse[t].cfs_rq \/ (my[t] \in Cpus /\ k.hwse[t].cfs_rq \in Cpus)
      /\ k.hwse[t].cfs_rq \in -1 .. current_id
      /\ k.hwse[t].cfs_rq \in Cpus => pc[t] \in HolderLabels
    BY <1>3, <1>4, Zenon DEF PlaceInv, Cui, Hwse
<1>9. PlaceInv(t)'
    <2>1. l = "lock" => my'[t] \in Cpus \/ r.cui[my'[t]].curr # t
        <3>1. l = "lock" => my'[t] \in 0 .. current_id
            BY <1>2
        <3>2. \A v \in 0 .. current_id : v \in Ids
            BY <1>3, IdBelow
        <3> QED BY <1>2, <1>4, <1>6, <3>1, <3>2
    <2>2. l \in {"got"} \cup Holding =>
            /\ r.hwse[t].cfs_rq \in Ids /\ t \in r.cui[r.hwse[t].cfs_rq].tasks
            /\ my'[t] = r.hwse[t].cfs_rq \/ (my'[t] \in Cpus /\ r.hwse[t].cfs_rq \in Cpus)
        BY <1>2, <1>4, <1>5, <1>6, <1>8
    <2>3. r.hwse[t].cfs_rq \in Cpus => l \in HolderLabels
        BY <1>2, <1>5, <1>8
    <2>4. r.hwse[t].cfs_rq \in -1 .. current_id
        BY <1>5, <1>8
    <2> QED BY <1>1, <1>2, <1>4, <1>7, <2>1, <2>2, <2>3, <2>4, Zenon DEF PlaceInv, Cui, Hwse
<1>10. ListInv(t)'
    <2>1. ASSUME NEW u \in Ids, t \in r.cui[u].tasks
          PROVE  r.hwse[t].cfs_rq = u /\ l \in HolderLabels
        <3>1. t \in k.cui[u].tasks
            BY <1>6, <2>1
        <3>2. k.hwse[t].cfs_rq = u /\ pc[t] \in HolderLabels
            BY <1>3, <1>4, <3>1, Zenon DEF ListInv, Cui, Hwse
        <3> QED BY <1>2, <1>5, <3>2
    <2>2. ASSUME NEW u \in Ids \ Cpus, r.cui[u].curr = t
          PROVE  ~r.cui[u].online \/ t \in r.cui[u].tasks
        <3>1. k.cui[u].curr = t
            BY <1>6, <2>2
        <3>2. \/ ~k.cui[u].online \/ t \in k.cui[u].tasks
              \/ t \in Asleep(u) /\ ~k.hwse[t].need_migrate
              \/ pc[t] \in {"done", "dead"}
            BY <1>3, <1>4, <3>1, Zenon DEF ListInv, Cui, Hwse
        <3> QED BY <1>1, <1>6, <3>2 DEF Asleep
    <2> QED BY <1>4, <1>7, <2>1, <2>2, Zenon DEF ListInv, Cui, Hwse
<1>11. Fits
    <2>1. \A v \in Ids : k.cui[v].count \in Int
        BY <1>3, <1>4 DEF Typed, KernelState, LaxUnit
    <2> QED BY <1>4, <1>6, <2>1 DEF Fits
<1>12. Steps(lost, {}, t, l)
    <2>1. {} \in SUBSET Ids
        OBVIOUS
    <2>2. \A v \in Ids : ~(pc[t] = "sleep" /\ my[t] = v) /\ ~(l = "sleep" /\ my'[t] = v)
        BY <1>1
    <2>3. pc[t] # "balancing"
        BY <1>1
    <2> QED BY <1>1, <1>9, <1>10, <2>1, <2>2, <2>3 DEF Steps
<1>13. IInv(lost)'
    BY <1>12, StepIs, Zenon
<1> QED BY <1>11, <1>13

-----------------------------------------------------------------------------
(* The steps that leave the locks alone.                                   *)

\* Where the kernel does not change either.
LEMMA NothingWithin ==
    ASSUME NEW k \in KernelState, NEW W, NEW T, NEW dead
    PROVE  Within(k, k, W, T, dead)
BY DEF Within, SameLock

\* What follows of the invariant for the unit a thread is at.
AtUnit(t) ==
    /\ kernel \in KernelState /\ pc \in [Tasks -> Labels] /\ pc[t] \in Labels
    /\ my \in [Tasks -> Ids \cup {CU_INVALID_HANDLE}]
    /\ pc[t] \notin {"user", "search", "done", "dead"} =>
        my[t] \in 0 .. current_id /\ my[t] \in Ids
    /\ kernel.hwse[t] \in Entity
    /\ kernel.hwse[t].cfs_rq \in Ids => kernel.hwse[t].cfs_rq \in 0 .. current_id
    /\ pc[t] \in {"search", "lock", "sleep", "trydel", "got", "compute",
                  "rerequest", "stay"} => workstatus[t] > 0
    /\ pc[t] \in {"got"} \cup Holding => kernel.hwse[t].cfs_rq \in Ids

\* It does follow.
LEMMA AtUnitIs ==
    ASSUME NEW lost, IInv(lost), NEW t \in Tasks
    PROVE  AtUnit(t)
<1>1. Typed /\ PlaceInv(t)
    BY Zenon DEF IInv
<1>2. /\ kernel \in KernelState /\ pc \in [Tasks -> Labels]
      /\ my \in [Tasks -> Ids \cup {CU_INVALID_HANDLE}]
    BY <1>1, Zenon DEF Typed
<1>3. /\ current_id \in Nat /\ \A u \in 0 .. current_id : u \in Ids
    BY <1>1, IdBelow
<1>4. kernel.hwse[t] \in Entity /\ pc[t] \in Labels
    BY <1>2 DEF KernelState
<1>5. /\ pc[t] \notin {"user", "search", "done", "dead"} => my[t] \in 0 .. current_id
      /\ kernel.hwse[t].cfs_rq \in -1 .. current_id
      /\ pc[t] \in {"search", "lock", "sleep", "trydel", "got", "compute",
                    "rerequest", "stay"} => workstatus[t] > 0
      /\ pc[t] \in {"got"} \cup Holding => kernel.hwse[t].cfs_rq \in Ids
    BY <1>1, Zenon DEF PlaceInv, Hwse
<1>6. kernel.hwse[t].cfs_rq \in Ids => kernel.hwse[t].cfs_rq \in 0 .. current_id
    <2>1. \A u \in Ids : u \in Nat
        BY UnitsAssumption DEF Ids
    <2>2. PICK a : a = kernel.hwse[t].cfs_rq
        OBVIOUS
    <2>3. a \in -1 .. current_id /\ (a \in Ids => a \in Nat)
        BY <1>5, <2>1, <2>2
    <2>4. a \in Ids => a \in 0 .. current_id
        BY <1>3, <2>3
    <2> QED BY <2>2, <2>4
<1> QED BY <1>2, <1>3, <1>4, <1>5, <1>6, Zenon DEF AtUnit

\* The death of a thread.
LEMMA KillKeeps ==
    ASSUME NEW lost \in SUBSET Tasks, IInv(lost), NEW t \in Tasks, Kill(t)
    PROVE  IInv(lost)' /\ Fits
<1>1. AtUnit(t) /\ Typed
    BY AtUnitIs, Zenon DEF IInv
<1>2. /\ pc[t] \in Holding \cup {"trydel", "freed", "balance"}
      /\ pc' = [pc EXCEPT ![t] = "dead"]
      /\ kernel' = kernel /\ balance' = balance /\ my' = my /\ InCall
    BY DEF Kill, Goto
<1>3. Within(kernel, kernel', {}, {t}, Dead) /\ kernel'.hwse[t].cfs_rq = kernel.hwse[t].cfs_rq
    <2>1. Within(kernel, kernel, {}, {t}, Dead)
        BY <1>1, NothingWithin, Zenon DEF AtUnit
    <2> QED BY <1>2, <2>1
<1>4. Elsewhere(t)
    BY <1>1, <1>2, InCallElsewhere, Zenon
<1>5. my' \in [Tasks -> Ids \cup {CU_INVALID_HANDLE}] /\ \A x \in Tasks \ {t} : my'[x] = my[x]
    BY <1>1, <1>2 DEF AtUnit
<1>6. Quiet(lost, t, "dead")
    BY <1>2, <1>3, <1>4, <1>5 DEF Quiet, Labels, HolderLabels, Holding
<1> QED BY <1>6, QuietIs, Zenon

\* A worker computes.
LEMMA ComputeKeeps ==
    ASSUME NEW lost \in SUBSET Tasks, IInv(lost), NEW t \in Tasks, Compute(t)
    PROVE  IInv(lost)' /\ Fits
<1>1. AtUnit(t) /\ Typed
    BY AtUnitIs, Zenon DEF IInv
<1>2. PICK l \in {"freeing", "rerequest"} :
        l = IF workstatus[t] = 1 THEN "freeing" ELSE "rerequest"
    OBVIOUS
<1>3. /\ pc[t] = "compute" /\ pc' = [pc EXCEPT ![t] = l]
      /\ kernel' = kernel /\ balance' = balance
      /\ my' = [my EXCEPT ![t] = kernel.hwse[t].cfs_rq]
    BY <1>2, Zenon DEF Compute, Goto, Hwse
<1>4. /\ workstatus' = [workstatus EXCEPT ![t] = workstatus[t] - 1]
      /\ current_id' = current_id /\ cpu' = cpu
    BY DEF Compute
<1>5. Within(kernel, kernel', {}, {t}, Dead) /\ kernel'.hwse[t].cfs_rq = kernel.hwse[t].cfs_rq
    <2>1. Within(kernel, kernel, {}, {t}, Dead)
        BY <1>1, NothingWithin, Zenon DEF AtUnit
    <2> QED BY <1>3, <2>1
<1>6. /\ workstatus \in [Tasks -> Nat] /\ \A x \in Tasks : workstatus[x] <= Work[x]
      /\ cpu \in [Tasks -> Cpus] /\ workstatus[t] > 0
    BY <1>1, <1>3 DEF Typed, AtUnit
<1>7. Elsewhere(t) /\ (l = "rerequest" => workstatus'[t] > 0)
    <2>1. workstatus[t] \in Nat \ {0} /\ Work \in [Tasks -> Nat]
        BY <1>6, KssAssumption
    <2>2. workstatus'[t] = workstatus[t] - 1 /\ workstatus' \in [Tasks -> Nat]
        BY <1>4, <1>6, <2>1
    <2>3. \A x \in Tasks : workstatus'[x] <= Work[x]
        BY <1>4, <1>6, <2>1, <2>2
    <2>4. \A x \in Tasks \ {t} : workstatus'[x] = workstatus[x]
        BY <1>4, <1>6
    <2>5. l = "rerequest" => workstatus'[t] > 0
        BY <1>2, <2>1, <2>2
    <2> QED BY <1>4, <1>6, <2>2, <2>3, <2>4, <2>5 DEF Elsewhere
<1>8. /\ kernel.hwse[t].cfs_rq \in Ids /\ kernel.hwse[t].cfs_rq \in 0 .. current_id
    BY <1>1, <1>3 DEF AtUnit, Holding
<1>9. /\ my' \in [Tasks -> Ids \cup {CU_INVALID_HANDLE}]
      /\ \A x \in Tasks \ {t} : my'[x] = my[x]
      /\ my'[t] = kernel.hwse[t].cfs_rq
    BY <1>1, <1>3, <1>8 DEF AtUnit
<1>10. Quiet(lost, t, l)
    BY <1>2, <1>3, <1>5, <1>7, <1>8, <1>9 DEF Quiet, Labels, HolderLabels, Holding
<1> QED BY <1>10, QuietIs, Zenon

\* A worker looks at the queue of the unit it has freed.
LEMMA AfterFreeKeeps ==
    ASSUME NEW lost \in SUBSET Tasks, IInv(lost), NEW t \in Tasks, AfterFree(t)
    PROVE  IInv(lost)' /\ Fits
<1>1. AtUnit(t) /\ Typed
    BY AtUnitIs, Zenon DEF IInv
<1>2. PICK l \in {"balance", "user"} : pc' = [pc EXCEPT ![t] = l]
    BY DEF AfterFree, Goto
<1>3. pc[t] = "freed" /\ kernel' = kernel /\ balance' = balance /\ my' = my /\ InCall
    BY DEF AfterFree
<1>4. Within(kernel, kernel', {}, {t}, Dead) /\ kernel'.hwse[t].cfs_rq = kernel.hwse[t].cfs_rq
    <2>1. Within(kernel, kernel, {}, {t}, Dead)
        BY <1>1, NothingWithin, Zenon DEF AtUnit
    <2> QED BY <1>3, <2>1
<1>5. Elsewhere(t)
    BY <1>1, <1>3, InCallElsewhere, Zenon
<1>6. my' \in [Tasks -> Ids \cup {CU_INVALID_HANDLE}] /\ \A x \in Tasks \ {t} : my'[x] = my[x]
    BY <1>1, <1>3 DEF AtUnit
<1>7. my'[t] \in 0 .. current_id
    BY <1>1, <1>3 DEF AtUnit
<1>8. Quiet(lost, t, l)
    BY <1>2, <1>3, <1>4, <1>5, <1>6, <1>7 DEF Quiet, Labels, HolderLabels, Holding
<1> QED BY <1>8, QuietIs, Zenon

\* Putting a unit back that differs in what the lock does not read.
PutsQuietly(s, u, c, r) ==
    /\ s \in KernelState /\ u \in Ids /\ c \in LaxUnit
    /\ SameLock(s.cui[u], c) /\ c.type = s.cui[u].type
    /\ c.listed => s.cui[u].listed
    /\ c.online => s.cui[u].online
    /\ r = WithUnit(s, u, c)

\* It is a section without a lock.
LEMMA UnitQuiet ==
    ASSUME NEW s, NEW u, NEW c, NEW r, PutsQuietly(s, u, c, r), NEW T, NEW dead
    PROVE  Within(s, r, {}, T, dead) /\ r.hwse = s.hwse
<1>0. /\ s \in KernelState /\ u \in Ids /\ c \in LaxUnit
      /\ SameLock(s.cui[u], c) /\ c.type = s.cui[u].type
      /\ c.listed => s.cui[u].listed
      /\ c.online => s.cui[u].online
      /\ r = WithUnit(s, u, c)
    BY Zenon DEF PutsQuietly
<1>1. UnitPut(s, u, c, r)
    BY <1>0, UnitIs, Zenon
<1>2. /\ r \in KernelState /\ r.hwse = s.hwse /\ r.cui[u] = c
      /\ \A v \in Ids \ {u} : r.cui[v] = s.cui[v]
    BY <1>1, Zenon DEF UnitPut
<1>3. ASSUME NEW v \in Ids
      PROVE  /\ SameLock(s.cui[v], r.cui[v])
             /\ r.cui[v].type = s.cui[v].type
             /\ r.cui[v].listed => s.cui[v].listed
             /\ r.cui[v].online => s.cui[v].online
    <2>1. CASE v = u
        BY <1>0, <1>2, <2>1
    <2>2. CASE v # u
        BY <1>2, <2>2 DEF SameLock
    <2> QED BY <2>1, <2>2
<1>4. Within(s, r, {}, T, dead)
    BY <1>2, <1>3 DEF Within, SameLock
<1> QED BY <1>2, <1>4

\* __computing_unit_try_to_del takes a unit out of the list or the mask.
LEMMA TryToDelIs ==
    ASSUME NEW s \in KernelState, NEW u \in Ids, NEW T, NEW dead,
           NEW r, r = TryToDel(s, u)
    PROVE  Within(s, r, {}, T, dead) /\ r.hwse = s.hwse
<1>1. PICK c : c = s.cui[u]
    OBVIOUS
<1>2. c \in LaxUnit
    BY <1>1 DEF KernelState
<1>3. CASE IsCpu(c)
    <2>1. PICK a \in SUBSET Cpus : a = s.active \ {u}
        BY DEF KernelState
    <2>2. r = [s EXCEPT !.active = a]
        BY <1>1, <1>3, <2>1, Zenon DEF TryToDel
    <2>3. r \in KernelState /\ r.cui = s.cui /\ r.hwse = s.hwse
        BY <2>2 DEF KernelState
    <2> QED BY <2>3 DEF Within, SameLock
<1>4. CASE ~IsCpu(c) /\ IsIdle(c)
    <2>1. PICK q : q = [s EXCEPT !.nr_devices = @ - 1]
        OBVIOUS
    <2>2. q \in KernelState /\ q.cui = s.cui /\ q.hwse = s.hwse
        BY <2>1 DEF KernelState
    <2>3. PICK d : d = [c EXCEPT !.listed = FALSE]
        OBVIOUS
    <2>4. /\ d \in LaxUnit /\ d.type = c.type /\ d.online = c.online /\ ~d.listed
          /\ d.count = c.count /\ d.maxcount = c.maxcount /\ d.tree = c.tree
          /\ d.nr_running = c.nr_running /\ d.tasks = c.tasks /\ d.curr = c.curr
        BY <1>2, <2>3 DEF LaxUnit
    <2>5. SameLock(c, d)
        BY <2>4, Zenon DEF SameLock
    <2>6. r = WithUnit(q, u, d)
        <3>1. r = [s EXCEPT !.cui[u].listed = FALSE, !.nr_devices = @ - 1]
            BY <1>1, <1>4, Zenon DEF TryToDel
        <3>2. s.cui = q.cui
            BY <2>2
        <3>3. PICK x : x = [s.cui EXCEPT ![u] = d]
            OBVIOUS
        <3>4. PICK n \in Int : n = s.nr_devices - 1
            BY DEF KernelState
        <3>5. r = [[s EXCEPT !.cui = x] EXCEPT !.nr_devices = n]
            BY <1>1, <2>3, <3>1, <3>3, <3>4, Zenon
        <3>6. q = [s EXCEPT !.nr_devices = n]
            BY <2>1, <3>4, Zenon
        <3>7. x \in [Ids -> LaxUnit]
            BY <2>4, <3>3 DEF KernelState
        <3>8. r = [q EXCEPT !.cui = x]
            <4>1. PICK a : a = [s EXCEPT !.cui = x]
                OBVIOUS
            <4>2. /\ a \in KernelState /\ a.cui = x /\ a.hwse = s.hwse
                  /\ a.active = s.active /\ a.nr_devices = s.nr_devices
                BY <3>7, <4>1 DEF KernelState
            <4>3. r = [a EXCEPT !.nr_devices = n]
                BY <3>5, <4>1, Zenon
            <4>4. PICK b : b = [q EXCEPT !.cui = x]
                OBVIOUS
            <4>5. q.hwse = s.hwse /\ q.active = s.active /\ q.nr_devices = n
                BY <3>4, <3>6 DEF KernelState
            <4>6. r = [cui |-> x, hwse |-> s.hwse, active |-> s.active, nr_devices |-> n]
                BY <3>4, <4>2, <4>3 DEF KernelState
            <4>7. b = [cui |-> x, hwse |-> s.hwse, active |-> s.active, nr_devices |-> n]
                <5>1. b \in KernelState /\ b.cui = x
                    BY <2>2, <3>7, <4>4 DEF KernelState
                <5>2. b.hwse = q.hwse /\ b.active = q.active /\ b.nr_devices = q.nr_devices
                    BY <2>2, <4>4 DEF KernelState
                <5> QED BY <4>5, <5>1, <5>2 DEF KernelState
            <4> QED BY <4>4, <4>6, <4>7
        <3> QED BY <3>2, <3>3, <3>8, Zenon DEF WithUnit
    <2>7. Within(q, r, {}, T, dead) /\ r.hwse = q.hwse
        <3>1. /\ SameLock(q.cui[u], d) /\ d.type = q.cui[u].type
              /\ d.listed => q.cui[u].listed
              /\ d.online => q.cui[u].online
            BY <1>1, <2>2, <2>4, <2>5
        <3>2. PutsQuietly(q, u, d, r)
            BY <2>2, <2>4, <2>6, <3>1 DEF PutsQuietly
        <3> QED BY <3>2, UnitQuiet, Zenon
    <2>8. Within(s, q, {}, T, dead)
        BY <2>2 DEF Within, SameLock
    <2>9. Within(s, r, {}, T, dead)
        <3>1. PICK V \in SUBSET Ids : V = {}
            OBVIOUS
        <3>2. Within(s, q, V, T, dead) /\ Within(q, r, V, T, dead)
            BY <2>7, <2>8, <3>1
        <3>3. Within(s, r, V, T, dead)
            BY <3>2, WithinTransitive, Zenon
        <3> QED BY <3>1, <3>3
    <2> QED BY <2>2, <2>7, <2>9
<1>5. CASE ~IsCpu(c) /\ ~IsIdle(c)
    <2>1. r = s
        BY <1>1, <1>5, Zenon DEF TryToDel
    <2> QED BY <2>1, NothingWithin
<1> QED BY <1>3, <1>4, <1>5

\* A thread that found its unit offline tries to delete it.
LEMMA TryDeleteKeeps ==
    ASSUME NEW lost \in SUBSET Tasks, IInv(lost), NEW t \in Tasks, TryDelete(t)
    PROVE  IInv(lost)' /\ Fits
<1>1. AtUnit(t) /\ Typed
    BY AtUnitIs, Zenon DEF IInv
<1>2. /\ pc[t] = "trydel" /\ pc' = [pc EXCEPT ![t] = "search"]
      /\ kernel' = TryToDel(kernel, my[t]) /\ balance' = balance /\ my' = my /\ InCall
    BY DEF TryDelete, Goto
<1>3. Within(kernel, kernel', {}, {t}, Dead) /\ kernel'.hwse[t].cfs_rq = kernel.hwse[t].cfs_rq
    <2>1. kernel \in KernelState /\ my[t] \in Ids
        BY <1>1, <1>2 DEF AtUnit
    <2>2. PICK r : r = TryToDel(kernel, my[t])
        OBVIOUS
    <2>3. PICK T : T = {t}
        OBVIOUS
    <2>4. Within(kernel, r, {}, T, Dead) /\ r.hwse = kernel.hwse
        BY <2>1, <2>2, TryToDelIs, Zenon
    <2> QED BY <1>2, <2>2, <2>3, <2>4
<1>4. Elsewhere(t)
    BY <1>1, <1>2, InCallElsewhere, Zenon
<1>5. my' \in [Tasks -> Ids \cup {CU_INVALID_HANDLE}] /\ \A x \in Tasks \ {t} : my'[x] = my[x]
    BY <1>1, <1>2 DEF AtUnit
<1>6. workstatus'[t] > 0
    BY <1>1, <1>2 DEF AtUnit, InCall
<1>7. Quiet(lost, t, "search")
    BY <1>2, <1>3, <1>4, <1>5, <1>6 DEF Quiet, Labels, HolderLabels, Holding
<1> QED BY <1>7, QuietIs, Zenon

\* The entity of thread t changes field by field.
LEMMA EntityAgain ==
    ASSUME NEW s, NEW t \in Tasks, NEW d, NEW q, EntityPut(s, t, d, q),
           NEW e \in Entity, NEW r, r = WithEntity(q, t, e)
    PROVE  EntityPut(s, t, e, r)
<1>1. /\ q \in KernelState /\ q.cui = s.cui
      /\ \A x \in Tasks \ {t} : q.hwse[x] = s.hwse[x]
      /\ q.active = s.active /\ q.nr_devices = s.nr_devices
      /\ \A dead : Within(s, q, {}, {t}, dead)
    BY Zenon DEF EntityPut
<1>2. EntityPut(q, t, e, r)
    BY <1>1, EntityIs, Zenon
<1>3. /\ r \in KernelState /\ r.cui = q.cui /\ r.hwse[t] = e
      /\ \A x \in Tasks \ {t} : r.hwse[x] = q.hwse[x]
      /\ r.active = q.active /\ r.nr_devices = q.nr_devices
      /\ \A dead : Within(q, r, {}, {t}, dead)
    BY <1>2, Zenon DEF EntityPut
<1>4. ASSUME NEW dead PROVE Within(s, r, {}, {t}, dead)
    <2>1. PICK V \in SUBSET Ids : V = {}
        OBVIOUS
    <2>2. PICK T : T = {t}
        OBVIOUS
    <2>3. Within(s, q, V, T, dead) /\ Within(q, r, V, T, dead)
        BY <1>1, <1>3, <2>1, <2>2
    <2>4. Within(s, r, V, T, dead)
        BY <2>3, WithinTransitive, Zenon
    <2> QED BY <2>1, <2>2, <2>4
<1> QED BY <1>1, <1>3, <1>4, Zenon DEF EntityPut

\* The end of rerequest.
LEMMA CheckOfferKeeps ==
    ASSUME NEW lost \in SUBSET Tasks, IInv(lost), NEW t \in Tasks, CheckOffer(t)
    PROVE  IInv(lost)' /\ Fits
<1>1. AtUnit(t) /\ Typed
    BY AtUnitIs, Zenon DEF IInv
<1>2. PICK l \in {"compute", "freeing"} :
        pc' = [pc EXCEPT ![t] = l] /\ (l = "compute" => pc[t] = "stay")
    BY DEF CheckOffer, Goto
<1>3. /\ pc[t] \in {"stay", "leave"} /\ balance' = balance /\ InCall
      /\ my' = [my EXCEPT ![t] = kernel.hwse[t].cfs_rq]
    BY DEF CheckOffer, Hwse
<1>4. PICK o : o = kernel.hwse[t].offerer
    OBVIOUS
<1>5. /\ kernel.cui \in [Ids -> LaxUnit] /\ kernel \in KernelState
      /\ kernel.hwse[t] \in Entity
    BY <1>1 DEF AtUnit, KernelState
<1>6. Within(kernel, kernel', {}, {t}, Dead) /\ kernel'.hwse[t].cfs_rq = kernel.hwse[t].cfs_rq
    <2>1. CASE /\ IsOfferValid(kernel.cui, o)
               /\ kernel' = [kernel EXCEPT !.cui[o].offers_outstanding = @ - 1]
        <3>1. o \in Ids
            BY <1>4, <1>5, <2>1 DEF IsOfferValid, Entity
        <3>2. kernel.cui[o] \in LaxUnit
            BY <1>5, <3>1
        <3>3. PICK c : c = [kernel.cui[o] EXCEPT !.offers_outstanding = @ - 1]
            OBVIOUS
        <3>4. /\ c \in LaxUnit /\ c.type = kernel.cui[o].type
              /\ c.online = kernel.cui[o].online /\ c.listed = kernel.cui[o].listed
              /\ SameLock(kernel.cui[o], c)
            <4>1. PICK z \in Int : z = kernel.cui[o].offers_outstanding - 1
                BY <3>2 DEF LaxUnit
            <4>2. c = [kernel.cui[o] EXCEPT !.offers_outstanding = z]
                BY <3>3, <4>1, Zenon
            <4>3. /\ c \in LaxUnit /\ c.type = kernel.cui[o].type
                  /\ c.online = kernel.cui[o].online /\ c.listed = kernel.cui[o].listed
                BY <3>2, <4>1, <4>2 DEF LaxUnit
            <4>4. SameLock(kernel.cui[o], c)
                BY <3>2, <4>2 DEF LaxUnit, SameLock
            <4> QED BY <4>3, <4>4
        <3>5. kernel' = WithUnit(kernel, o, c)
            BY <2>1, <3>3, Zenon DEF WithUnit
        <3>6. PutsQuietly(kernel, o, c, kernel')
            BY <1>5, <3>1, <3>4, <3>5, Zenon DEF PutsQuietly
        <3>7. PICK T, r : T = {t} /\ r = kernel'
            OBVIOUS
        <3>8. Within(kernel, r, {}, T, Dead) /\ r.hwse = kernel.hwse
            BY <3>6, <3>7, UnitQuiet, Zenon
        <3> QED BY <3>7, <3>8
    <2>2. CASE kernel' = [kernel EXCEPT !.hwse[t].offerer = CU_INVALID_HANDLE,
                                        !.hwse[t].offered_affinity = 0]
        <3>1. PICK d : d = [kernel.hwse[t] EXCEPT !.offerer = CU_INVALID_HANDLE]
            OBVIOUS
        <3>2. d \in Entity /\ d.cfs_rq = kernel.hwse[t].cfs_rq
              /\ d.need_migrate = kernel.hwse[t].need_migrate
            BY <1>5, <3>1 DEF Entity
        <3>3. PICK e : e = [d EXCEPT !.offered_affinity = 0]
            OBVIOUS
        <3>4. e \in Entity /\ e.cfs_rq = kernel.hwse[t].cfs_rq
              /\ e.need_migrate = kernel.hwse[t].need_migrate
            BY <3>2, <3>3 DEF Entity
        <3>5. PICK h, r : h = WithEntity(kernel, t, d) /\ r = kernel'
            OBVIOUS
        <3>6. EntityPut(kernel, t, d, h)
            BY <1>5, <3>2, <3>5, EntityIs, Zenon
        <3>7. r = WithEntity(h, t, e)
            <4>1. r = [[kernel EXCEPT !.hwse[t].offerer = CU_INVALID_HANDLE]
                                EXCEPT !.hwse[t].offered_affinity = 0]
                BY <2>2, <3>5, Zenon
            <4>2. h = [kernel EXCEPT !.hwse[t].offerer = CU_INVALID_HANDLE]
                BY <3>1, <3>5, Zenon DEF WithEntity
            <4>3. r = [h EXCEPT !.hwse[t].offered_affinity = 0]
                BY <4>1, <4>2, Zenon
            <4>4. h.hwse[t] = d
                BY <3>6, Zenon DEF EntityPut
            <4> QED BY <3>3, <4>3, <4>4, Zenon DEF WithEntity
        <3>8. EntityPut(kernel, t, e, r)
            BY <3>4, <3>6, <3>7, EntityAgain, Zenon
        <3>9. r.hwse[t] = e /\ Within(kernel, r, {}, {t}, Dead)
            BY <3>8, Zenon DEF EntityPut
        <3> QED BY <3>4, <3>5, <3>9
    <2> QED BY <1>4, <2>1, <2>2, Zenon DEF CheckOffer, Cui, Hwse
<1>7. Elsewhere(t)
    BY <1>1, <1>3, InCallElsewhere, Zenon
<1>8. /\ kernel.hwse[t].cfs_rq \in Ids /\ kernel.hwse[t].cfs_rq \in 0 .. current_id
    BY <1>1, <1>3 DEF AtUnit, Holding
<1>9. /\ my' \in [Tasks -> Ids \cup {CU_INVALID_HANDLE}]
      /\ \A x \in Tasks \ {t} : my'[x] = my[x]
      /\ my'[t] = kernel.hwse[t].cfs_rq
    BY <1>1, <1>3, <1>8 DEF AtUnit
<1>10. l = "compute" => workstatus'[t] > 0
    BY <1>1, <1>2, <1>3 DEF AtUnit, InCall
<1>11. Quiet(lost, t, l)
    BY <1>2, <1>3, <1>6, <1>7, <1>8, <1>9, <1>10 DEF Quiet, Labels, HolderLabels, Holding
<1> QED BY <1>11, QuietIs, Zenon

\* The beginning of alloc: the unit found is one the thread does not use.
LEMMA FindBestUnitKeeps ==
    ASSUME NEW lost \in SUBSET Tasks, IInv(lost), NEW t \in Tasks, FindBestUnit(t)
    PROVE  IInv(lost)' /\ Fits
<1>1. AtUnit(t) /\ Typed /\ KindInv /\ ListInv(t)
    BY AtUnitIs, Zenon DEF IInv
<1>2. PICK cpuload \in [Cpus -> 0 .. 1] :
        LET h == Hwse[t]
            best == IF TakesOffer(t)
                    THEN [id |-> h.offerer,
                          affinity |-> CalculateAffinity(Cui, t, h.offerer, cpu[t])]
                    ELSE FindBestCu(Cui, t, cpu[t], cpuload)
        IN  /\ \/ pc[t] = "user" /\ WantsUnit(t)
               \/ pc[t] = "search"
            /\ CusMutexIsFree
            /\ kernel' = [kernel EXCEPT
                !.hwse[t].offerer = CU_INVALID_HANDLE,
                !.hwse[t].offered_affinity = 0,
                !.hwse[t].current_affinity =
                    IF best.id = CU_INVALID_HANDLE THEN @ ELSE best.affinity]
            /\ my' = [my EXCEPT ![t] = best.id]
            /\ Goto(t, IF best.id = CU_INVALID_HANDLE THEN "done" ELSE "lock")
            /\ UNCHANGED balance /\ InCall
    BY Zenon DEF FindBestUnit
<1>3. PICK best :
        best = IF TakesOffer(t)
               THEN [id |-> kernel.hwse[t].offerer,
                     affinity |-> CalculateAffinity(kernel.cui, t, kernel.hwse[t].offerer, cpu[t])]
               ELSE FindBestCu(kernel.cui, t, cpu[t], cpuload)
    OBVIOUS
<1>4. /\ \/ pc[t] = "user" /\ WantsUnit(t)
         \/ pc[t] = "search"
      /\ kernel' = [kernel EXCEPT
                !.hwse[t].offerer = CU_INVALID_HANDLE,
                !.hwse[t].offered_affinity = 0,
                !.hwse[t].current_affinity =
                    IF best.id = CU_INVALID_HANDLE THEN @ ELSE best.affinity]
      /\ my' = [my EXCEPT ![t] = best.id]
      /\ Goto(t, IF best.id = CU_INVALID_HANDLE THEN "done" ELSE "lock")
      /\ balance' = balance /\ InCall
    BY <1>2, <1>3, Zenon DEF Cui, Hwse
<1>5. /\ kernel.cui \in [Ids -> LaxUnit] /\ kernel \in KernelState
      /\ kernel.hwse[t] \in Entity
    BY <1>1 DEF AtUnit, KernelState
<1>6. best \in UnitChoices(kernel.cui)
    <2>1. CASE TakesOffer(t)
        <3>1. PICK o, a : o = kernel.hwse[t].offerer /\ a = CalculateAffinity(kernel.cui, t, o, cpu[t])
            OBVIOUS
        <3>2. o # CU_INVALID_HANDLE /\ kernel.cui[o].listed /\ a # 0
            BY <2>1, <3>1, Zenon DEF TakesOffer, Cui, Hwse
        <3>3. o \in Ids
            BY <1>5, <3>1, <3>2 DEF Entity
        <3>4. a \in Int /\ kernel.cui[o].online
            BY <1>5, <3>1, <3>2, <3>3, AffinityIs
        <3>5. best = [id |-> o, affinity |-> a]
            BY <1>3, <2>1, <3>1
        <3> QED BY <3>2, <3>3, <3>4, <3>5 DEF UnitChoices
    <2>2. CASE ~TakesOffer(t)
        BY <1>3, <1>5, <2>2, FoundIs
    <2> QED BY <2>1, <2>2
<1>7. /\ best.id \in Ids \cup {CU_INVALID_HANDLE} /\ best.affinity \in Int
      /\ best.id # CU_INVALID_HANDLE =>
            best.id \in Ids /\ kernel.cui[best.id].listed /\ kernel.cui[best.id].online
    BY <1>6 DEF UnitChoices
<1>8. PICK l \in {"lock", "done"} : l = IF best.id = CU_INVALID_HANDLE THEN "done" ELSE "lock"
    OBVIOUS
<1>9. pc' = [pc EXCEPT ![t] = l]
    BY <1>4, <1>8, Zenon DEF Goto
<1>10. ASSUME l = "lock"
       PROVE  best.id \in 0 .. current_id /\ (best.id \in Cpus \/ kernel.cui[best.id].curr # t)
    <2>1. best.id \in Ids /\ kernel.cui[best.id].listed /\ kernel.cui[best.id].online
        BY <1>7, <1>8, <1>10
    <2>2. best.id \in 0 .. current_id
        <3>1. ~(best.id > current_id)
            BY <1>1, <2>1 DEF KindInv, Cui
        <3>2. \A u \in Ids : u \in Nat
            BY UnitsAssumption DEF Ids
        <3>3. current_id \in Nat
            BY <1>1, IdBelow
        <3> QED BY <2>1, <3>1, <3>2, <3>3
    <2>3. ASSUME best.id \notin Cpus, kernel.cui[best.id].curr = t PROVE FALSE
        <3>1. \/ ~kernel.cui[best.id].online \/ t \in kernel.cui[best.id].tasks
              \/ t \in Asleep(best.id) /\ ~kernel.hwse[t].need_migrate
              \/ pc[t] \in {"done", "dead"}
            BY <1>1, <2>1, <2>3, Zenon DEF ListInv, Cui, Hwse
        <3>2. t \in kernel.cui[best.id].tasks => pc[t] \in HolderLabels
            BY <1>1, <2>1, Zenon DEF ListInv, Cui, Hwse
        <3> QED BY <1>4, <2>1, <3>1, <3>2 DEF Asleep, HolderLabels, Holding
    <2> QED BY <2>2, <2>3
<1>11. Within(kernel, kernel', {}, {t}, Dead) /\ kernel'.hwse[t].cfs_rq = kernel.hwse[t].cfs_rq
    <2>1. PICK a \in Int :
            a = IF best.id = CU_INVALID_HANDLE THEN kernel.hwse[t].current_affinity
                ELSE best.affinity
        BY <1>5, <1>7 DEF Entity
    <2>2. PICK d : d = [kernel.hwse[t] EXCEPT !.offerer = CU_INVALID_HANDLE]
        OBVIOUS
    <2>3. d \in Entity /\ d.cfs_rq = kernel.hwse[t].cfs_rq
          /\ d.need_migrate = kernel.hwse[t].need_migrate
          /\ d.current_affinity = kernel.hwse[t].current_affinity
        BY <1>5, <2>2 DEF Entity
    <2>4. PICK e : e = [d EXCEPT !.offered_affinity = 0]
        OBVIOUS
    <2>5. e \in Entity /\ e.cfs_rq = kernel.hwse[t].cfs_rq
          /\ e.current_affinity = kernel.hwse[t].current_affinity
        BY <2>3, <2>4 DEF Entity
    <2>6. PICK f : f = [e EXCEPT !.current_affinity = a]
        OBVIOUS
    <2>7. f \in Entity /\ f.cfs_rq = kernel.hwse[t].cfs_rq
        BY <2>5, <2>6 DEF Entity
    <2>8. PICK h, g, r : /\ h = WithEntity(kernel, t, d) /\ g = WithEntity(h, t, e)
                         /\ r = kernel'
        OBVIOUS
    <2>9. EntityPut(kernel, t, d, h)
        BY <1>5, <2>3, <2>8, EntityIs, Zenon
    <2>10. EntityPut(kernel, t, e, g)
        BY <2>5, <2>8, <2>9, EntityAgain, Zenon
    <2>11. r = WithEntity(g, t, f)
        <3>1. r = [[[kernel EXCEPT !.hwse[t].offerer = CU_INVALID_HANDLE]
                        EXCEPT !.hwse[t].offered_affinity = 0]
                        EXCEPT !.hwse[t].current_affinity =
                            IF best.id = CU_INVALID_HANDLE THEN @ ELSE best.affinity]
            BY <1>4, <2>8, ZenonT(60)
        <3>2. h = [kernel EXCEPT !.hwse[t].offerer = CU_INVALID_HANDLE]
            BY <2>2, <2>8, Zenon DEF WithEntity
        <3>3. h.hwse[t] = d /\ g.hwse[t] = e
            BY <2>9, <2>10, Zenon DEF EntityPut
        <3>4. g = [h EXCEPT !.hwse[t].offered_affinity = 0]
            BY <2>4, <2>8, <3>3, Zenon DEF WithEntity
        <3>7. r = [[h EXCEPT !.hwse[t].offered_affinity = 0]
                        EXCEPT !.hwse[t].current_affinity =
                            IF best.id = CU_INVALID_HANDLE THEN @ ELSE best.affinity]
            BY <3>1, <3>2, ZenonT(60)
        <3>5. r = [g EXCEPT !.hwse[t].current_affinity =
                        IF best.id = CU_INVALID_HANDLE THEN @ ELSE best.affinity]
            BY <3>4, <3>7, ZenonT(60)
        <3>6. a = IF best.id = CU_INVALID_HANDLE THEN e.current_affinity ELSE best.affinity
            BY <2>1, <2>5
        <3> QED BY <2>6, <3>3, <3>5, <3>6, Zenon DEF WithEntity
    <2>12. EntityPut(kernel, t, f, r)
        BY <2>7, <2>10, <2>11, EntityAgain, Zenon
    <2>13. r.hwse[t] = f /\ Within(kernel, r, {}, {t}, Dead)
        BY <2>12, Zenon DEF EntityPut
    <2> QED BY <2>7, <2>8, <2>13
<1>12. Elsewhere(t)
    BY <1>1, <1>4, InCallElsewhere, Zenon
<1>13. /\ my' \in [Tasks -> Ids \cup {CU_INVALID_HANDLE}]
      /\ \A x \in Tasks \ {t} : my'[x] = my[x]
      /\ my'[t] = best.id
    BY <1>1, <1>4, <1>7 DEF AtUnit
<1>14. workstatus'[t] > 0
    BY <1>1, <1>4 DEF AtUnit, InCall, WantsUnit
<1>15. /\ pc[t] \in {"user", "search"} /\ UNCHANGED balance
       /\ l = "lock" => my'[t] \in 0 .. current_id
       /\ l = "lock" => my'[t] \in Cpus \/ kernel.cui[my'[t]].curr # t
    BY <1>4, <1>10, <1>13
<1>16. Quiet(lost, t, l)
    BY <1>8, <1>9, <1>11, <1>12, <1>13, <1>14, <1>15 DEF Quiet, Labels, HolderLabels, Holding
<1> QED BY <1>16, QuietIs, Zenon

-----------------------------------------------------------------------------
(* cu_down and what follows on it.                                         *)

\* Thread t is at the end of cu_down of unit u, in the state k of the section.
Downed(lost, u, t, k, S) ==
    /\ lost \in SUBSET Tasks /\ IInv(lost) /\ t \in Tasks
    /\ pc[t] \in {"lock", "sleep"} /\ u = my[t] /\ AccessMutexIsFree(u)
    /\ S = Asleep(u) \ {t}
    /\ Within(kernel, k, {u}, {t}, Dead)
    /\ \A v \in Ids \ {u} : k.cui[v] = kernel.cui[v]
    /\ k.hwse[t].cfs_rq = u
    /\ k.cui[u].maxcount = kernel.cui[u].maxcount
    /\ k.cui[u].count > kernel.cui[u].count => k.cui[u].count <= k.cui[u].maxcount
    /\ k.cui[u].curr = t /\ u \notin Cpus =>
        ~k.cui[u].online \/ ~k.hwse[t].need_migrate
    /\ Acquires(k, u, t, S, lost)
    /\ my' = my /\ balance' = balance /\ InCall

\* Acquire keeps the invariant.
LEMMA DownedKeeps ==
    ASSUME NEW lost, NEW u, NEW t, NEW k, NEW S, Downed(lost, u, t, k, S)
    PROVE  IInv(lost)' /\ Fits
<1>1. /\ lost \in SUBSET Tasks /\ IInv(lost) /\ t \in Tasks
      /\ pc[t] \in {"lock", "sleep"} /\ u = my[t] /\ AccessMutexIsFree(u)
      /\ S = Asleep(u) \ {t}
      /\ Within(kernel, k, {u}, {t}, Dead)
      /\ \A v \in Ids \ {u} : k.cui[v] = kernel.cui[v]
      /\ k.hwse[t].cfs_rq = u
      /\ k.cui[u].maxcount = kernel.cui[u].maxcount
      /\ k.cui[u].count > kernel.cui[u].count => k.cui[u].count <= k.cui[u].maxcount
      /\ k.cui[u].curr = t /\ u \notin Cpus =>
          ~k.cui[u].online \/ ~k.hwse[t].need_migrate
      /\ Acquires(k, u, t, S, lost)
      /\ my' = my /\ balance' = balance /\ InCall
    BY Zenon DEF Downed
<1>2. AtUnit(t) /\ Typed /\ PlaceInv(t) /\ ListInv(t)
    BY <1>1, AtUnitIs, Zenon DEF IInv
<1>3. /\ kernel \in KernelState /\ pc \in [Tasks -> Labels]
      /\ my \in [Tasks -> Ids \cup {CU_INVALID_HANDLE}]
      /\ u \in 0 .. current_id /\ u \in Ids /\ workstatus[t] > 0
    BY <1>1, <1>2 DEF AtUnit
<1>4. Acquired(k, u, t, S, lost)
    BY <1>1, AcquireIs, Zenon
<1>5. PICK r : r = kernel'
    OBVIOUS
<1>6. /\ Within(k, r, {u}, {t}, Dead)
      /\ UnitInv(r.cui[u], r.hwse, S, 0, lost)
      /\ \A v \in Ids \ {u} : r.cui[v] = k.cui[v]
      /\ r.cui[u].count <= k.cui[u].count
      /\ r.cui[u].maxcount = k.cui[u].maxcount
    BY <1>4, <1>5, Zenon DEF Acquired
<1>7. PICK l \in {"got", "search", "trydel"} :
        /\ pc' = [pc EXCEPT ![t] = l]
        /\ l = "got" => /\ t \in r.cui[u].tasks /\ r.hwse[t].cfs_rq = u
        /\ l # "got" =>
             /\ t \notin r.cui[u].tasks /\ r.hwse[t].cfs_rq = CU_INVALID_HANDLE
             /\ r.cui[u].online = k.cui[u].online
             /\ k.hwse[t].need_migrate \/ ~k.cui[u].online
             /\ r.cui[u].curr = t => k.cui[u].curr = t
    BY <1>1, <1>4, <1>5 DEF Acquired
<1>8. Within(kernel, r, {u}, {t}, Dead)
    <2>1. {u} \in SUBSET Ids
        BY <1>3
    <2> QED BY <1>1, <1>6, <2>1, WithinTransitive, Zenon
<1>9. pc'[t] = l /\ (\A x \in Tasks \ {t} : pc'[x] = pc[x]) /\ my'[t] = u
    BY <1>1, <1>3, <1>7
<1>10. Asleep(u)' = S
    <2>1. \A x \in Tasks : (pc'[x] = "sleep" /\ my'[x] = u) <=> (x # t /\ pc[x] = "sleep" /\ my[x] = u)
        BY <1>1, <1>7, <1>9
    <2> QED BY <1>1, <2>1 DEF Asleep
<1>11. \A v \in Ids \ {u} : r.cui[v] = kernel.cui[v]
    BY <1>1, <1>6
<1>12. /\ current_id' = current_id /\ workstatus' = workstatus
    BY <1>1 DEF InCall
<1>13. CU_INVALID_HANDLE \notin Cpus /\ CU_INVALID_HANDLE \in -1 .. current_id
       /\ u \in -1 .. current_id
    <2>1. \A v \in Ids : v \in Nat
        BY UnitsAssumption DEF Ids
    <2>2. Cpus \subseteq Ids
        BY UnitsAssumption
    <2>3. current_id \in Nat
        BY <1>2, IdBelow
    <2> QED BY <1>3, <2>1, <2>2, <2>3 DEF CU_INVALID_HANDLE
<1>14. PlaceInv(t)'
    <2>1. l = "got" => r.hwse[t].cfs_rq \in Ids /\ t \in r.cui[r.hwse[t].cfs_rq].tasks
                       /\ my'[t] = r.hwse[t].cfs_rq
        BY <1>3, <1>7, <1>9
    <2>2. r.hwse[t].cfs_rq \in -1 .. current_id
        BY <1>7, <1>13
    <2>3. r.hwse[t].cfs_rq \in Cpus => l \in HolderLabels
        BY <1>7, <1>13 DEF HolderLabels
    <2>4. my'[t] \in 0 .. current_id' /\ workstatus'[t] > 0 /\ r.hwse[t].cfs_rq \in -1 .. current_id'
        BY <1>3, <1>9, <1>12, <2>2
    <2>5. l \notin Holding /\ l # "lock" /\ l # "sleep" /\ l # "freeing"
        BY DEF Holding
    <2> QED BY <1>5, <1>9, <2>1, <2>3, <2>4, <2>5 DEF PlaceInv, Cui, Hwse
<1>15. pc[t] \notin HolderLabels /\ pc[t] \notin {"done", "dead"}
    BY <1>1 DEF HolderLabels, Holding
<1>16. ListInv(t)'
    <2>1. ASSUME NEW v \in Ids, t \in r.cui[v].tasks
          PROVE  r.hwse[t].cfs_rq = v /\ l \in HolderLabels
        <3>1. CASE v = u
            BY <1>7, <2>1, <3>1 DEF HolderLabels
        <3>2. CASE v # u
            <4>1. t \in kernel.cui[v].tasks
                BY <1>11, <2>1, <3>2
            <4>2. pc[t] \in HolderLabels
                BY <1>2, <4>1, Zenon DEF ListInv, Cui, Hwse
            <4> QED BY <1>15, <4>2
        <3> QED BY <3>1, <3>2
    <2>2. ASSUME NEW v \in Ids \ Cpus, r.cui[v].curr = t
          PROVE  ~r.cui[v].online \/ t \in r.cui[v].tasks
        <3>1. CASE v = u
            BY <1>1, <1>7, <2>2, <3>1
        <3>2. CASE v # u
            <4>1. r.cui[v] = kernel.cui[v]
                BY <1>11, <3>2
            <4>2. \/ ~kernel.cui[v].online \/ t \in kernel.cui[v].tasks
                  \/ t \in Asleep(v) /\ ~kernel.hwse[t].need_migrate
                  \/ pc[t] \in {"done", "dead"}
                BY <1>2, <2>2, <4>1, Zenon DEF ListInv, Cui, Hwse
            <4>3. t \notin Asleep(v)
                BY <1>1, <3>2 DEF Asleep
            <4> QED BY <1>15, <4>1, <4>2, <4>3
        <3> QED BY <3>1, <3>2
    <2> QED BY <1>5, <1>9, <2>1, <2>2, Zenon DEF ListInv, Cui, Hwse
<1>17. Fits
    <2>1. \A v \in Ids : kernel.cui[v] \in LaxUnit /\ k.cui[v] \in LaxUnit /\ r.cui[v] \in LaxUnit
        BY <1>1, <1>3, <1>6 DEF Within, KernelState
    <2>2. \A v \in Ids : kernel.cui[v].count \in Int /\ k.cui[v].count \in Int /\ r.cui[v].count \in Int
        BY <2>1 DEF LaxUnit
    <2>3. k.cui[u].maxcount \in Int
        <3>1. k.cui[u].maxcount \in 0 .. UintMax
            BY <1>3, <2>1 DEF LaxUnit
        <3> QED BY <3>1, UnitsAssumption
    <2>4. r.cui[u].count > kernel.cui[u].count => r.cui[u].count <= r.cui[u].maxcount
        BY <1>1, <1>3, <1>6, <2>2, <2>3
    <2>5. ASSUME NEW v \in Ids, r.cui[v].count > kernel.cui[v].count
          PROVE  r.cui[v].count <= r.cui[v].maxcount
        <3>1. v = u
            BY <1>11, <2>2, <2>5
        <3> QED BY <2>4, <2>5, <3>1
    <2> QED BY <1>5, <2>5, SMTT(30) DEF Fits
<1>18. Steps(lost, {u}, t, l)
    <2>1. Elsewhere(t)
        BY <1>1, <1>2, InCallElsewhere, Zenon
    <2>2. UnitInv(kernel'.cui[u], kernel'.hwse, Asleep(u)', 0, lost)
        BY <1>5, <1>6, <1>10
    <2>3. \A v \in Ids \ {u} : ~(pc[t] = "sleep" /\ my[t] = v) /\ ~(l = "sleep" /\ my'[t] = v)
        BY <1>1, <1>7
    <2>4. pc[t] # "balancing" /\ l \in Labels /\ {u} \in SUBSET Ids
        BY <1>1, <1>3, <1>7 DEF Labels
    <2>5. my' \in [Tasks -> Ids \cup {CU_INVALID_HANDLE}] /\ \A x \in Tasks \ {t} : my'[x] = my[x]
        BY <1>1, <1>3
    <2>6. Within(kernel, kernel', {u}, {t}, Dead)
        BY <1>5, <1>8
    <2>7. \A w \in {u} : /\ AccessMutexIsFree(w)
                         /\ UnitInv(kernel'.cui[w], kernel'.hwse, Asleep(w)', 0, lost)
        <3> SUFFICES ASSUME NEW w \in {u}
                     PROVE  /\ AccessMutexIsFree(w)
                            /\ UnitInv(kernel'.cui[w], kernel'.hwse, Asleep(w)', 0, lost)
            OBVIOUS
        <3>1. w = u
            OBVIOUS
        <3> QED BY <1>1, <2>2, <3>1
    <2> QED BY <1>1, <1>7, <1>14, <1>16, <2>1, <2>3, <2>4, <2>5, <2>6, <2>7, Zenon DEF Steps
<1>19. IInv(lost)'
    BY <1>18, StepIs, Zenon
<1> QED BY <1>17, <1>19

\* A thread that does not sleep any more either has a slot or not.
LEMMA AwakeIs ==
    ASSUME NEW c, NEW h, NEW S \in SUBSET Tasks, NEW lost, UnitInv(c, h, S, 0, lost),
           NEW t \in S, t \notin ToSet(c.tree), h[t].semaphore_up \in BOOLEAN
    PROVE  UnitInv(c, h, S \ {t}, IF h[t].semaphore_up THEN 1 ELSE 0, lost)
<1>1. /\ c \in LaxUnit /\ Injective(c.tree) /\ ToSet(c.tree) \subseteq S
      /\ \A x \in ToSet(c.tree) : ~h[x].semaphore_up /\ ~h[x].need_migrate
      /\ c.curr \notin ToSet(c.tree)
      /\ c.tasks \cap S = {}
      /\ c.count = Cardinality(Holders(c, h, S)) + 0
      /\ \A x \in S : ~(h[x].semaphore_up /\ h[x].need_migrate)
      /\ c.tree # <<>> => c.count >= c.maxcount
    BY Zenon DEF UnitInv, LockInv
<1>2. /\ lost = {} => c.nr_running = Len(c.tree)
      /\ \A x \in S \ ToSet(c.tree) : h[x].semaphore_up \/ h[x].need_migrate \/ x \in lost
    BY Zenon DEF UnitInv, LockInv
<1>3. PICK n \in {0, 1} : n = IF h[t].semaphore_up THEN 1 ELSE 0
    OBVIOUS
<1>4. PICK H, G, R : H = Holders(c, h, S) /\ G = Holders(c, h, R) /\ R = S \ {t}
    OBVIOUS
<1>5. c.count = Cardinality(G) + n
    <2>1. R \in SUBSET Tasks
        BY <1>4
    <2>2. IsFiniteSet(G) /\ Cardinality(G) \in Nat
        BY <1>1, <1>4, <2>1, HoldersFinite, Zenon
    <2>3. PICK a \in Nat : a = Cardinality(G)
        BY <2>2
    <2>4. t \notin c.tasks
        BY <1>1
    <2>5. CASE h[t].semaphore_up
        <3>1. H = G \cup {t} /\ t \notin G
            BY <1>4, <2>4, <2>5 DEF Holders
        <3>2. Cardinality(H) = a + 1
            BY <2>2, <2>3, <3>1, FS_AddElement
        <3>3. c.count = Cardinality(H) + 0
            BY <1>1, <1>4, Zenon
        <3>4. c.count = (a + 1) + 0 /\ n = 1
            BY <1>3, <2>5, <3>2, <3>3
        <3>5. (a + 1) + 0 = a + 1
            OBVIOUS
        <3> QED BY <2>3, <3>4, <3>5, Zenon
    <2>6. CASE ~h[t].semaphore_up
        <3>1. H = G
            BY <1>4, <2>6 DEF Holders
        <3> QED BY <1>1, <1>3, <1>4, <2>3, <2>6, <3>1
    <2> QED BY <2>5, <2>6
<1>6. ToSet(c.tree) \subseteq R /\ c.tasks \cap R = {}
    BY <1>1, <1>4
<1>7. LockInv(c, h, R, n, lost)
    BY <1>1, <1>2, <1>4, <1>5, <1>6 DEF LockInv
<1>8. UnitInv(c, h, R, n, lost)
    BY <1>1, <1>7 DEF UnitInv
<1> QED BY <1>3, <1>4, <1>8

\* A sleeper was woken up.
LEMMA WakeUpKeeps ==
    ASSUME NEW lost \in SUBSET Tasks, IInv(lost), NEW t \in Tasks, WakeUp(t)
    PROVE  IInv(lost)' /\ Fits
<1>1. PICK u, k, S : u = my[t] /\ k = kernel /\ S = Asleep(u) \ {t}
    OBVIOUS
<1>2. /\ pc[t] = "sleep"
      /\ k.hwse[t].need_migrate \/ k.hwse[t].semaphore_up
      /\ AccessMutexIsFree(u) /\ Acquire(k, u, t)
      /\ my' = my /\ balance' = balance /\ InCall
    BY <1>1, Zenon DEF WakeUp, Hwse
<1>3. AtUnit(t) /\ Typed /\ PlaceInv(t) /\ ListInv(t) /\ UnitsInv(lost)
    BY AtUnitIs, Zenon DEF IInv
<1>4. k \in KernelState /\ u \in Ids /\ t \in Asleep(u) /\ Asleep(u) \in SUBSET Tasks
    BY <1>1, <1>2, <1>3 DEF AtUnit, Asleep
<1>5. UnitInv(k.cui[u], k.hwse, Asleep(u), 0, lost)
    BY <1>1, <1>3, <1>4, Zenon DEF UnitsInv, Cui, Hwse
<1>6. /\ k.cui \in [Ids -> LaxUnit] /\ k.hwse[t] \in Entity /\ k.cui[u] \in LaxUnit
    BY <1>4 DEF KernelState
<1>7. PICK c, h, Z : c = k.cui[u] /\ h = k.hwse /\ Z = Asleep(u)
    OBVIOUS
<1>8. /\ \A x \in ToSet(c.tree) : ~h[x].semaphore_up /\ ~h[x].need_migrate
      /\ c.tasks \cap Z = {} /\ \A x \in Z : ~(h[x].semaphore_up /\ h[x].need_migrate)
    BY <1>5, <1>7, Zenon DEF UnitInv, LockInv
<1>9. t \notin ToSet(c.tree) /\ t \notin c.tasks
    BY <1>2, <1>4, <1>7, <1>8
<1>10. UnitInv(c, h, S, IF h[t].need_migrate THEN 0 ELSE 1, lost)
    <2>1. h[t].semaphore_up \in BOOLEAN /\ h[t].need_migrate \in BOOLEAN
        BY <1>6, <1>7 DEF Entity
    <2>2. UnitInv(c, h, Z, 0, lost) /\ t \in Z /\ Z \in SUBSET Tasks
        BY <1>4, <1>5, <1>7
    <2>3. UnitInv(c, h, Z \ {t}, IF h[t].semaphore_up THEN 1 ELSE 0, lost)
        BY <1>9, <2>1, <2>2, AwakeIs, Zenon
    <2>4. (IF h[t].semaphore_up THEN 1 ELSE 0) = (IF h[t].need_migrate THEN 0 ELSE 1)
        BY <1>2, <1>7, <1>8, <2>1, <2>2
    <2> QED BY <1>1, <1>7, <2>3, <2>4, Zenon
<1>11. Acquires(k, u, t, S, lost)
    <2>1. S \in SUBSET Tasks /\ t \notin S /\ S \cap Dead = {}
        BY <1>1, <1>4 DEF Asleep, Dead
    <2> QED BY <1>2, <1>4, <1>7, <1>9, <1>10, <2>1, Zenon DEF Acquires
<1>12. k.hwse[t].cfs_rq = u
    BY <1>1, <1>2, <1>3 DEF PlaceInv, Hwse
<1>13. k.cui[u].curr = t /\ u \notin Cpus => ~k.cui[u].online \/ ~k.hwse[t].need_migrate
    <2>1. k.cui[u].curr = t /\ u \notin Cpus =>
            \/ ~k.cui[u].online \/ t \in k.cui[u].tasks
            \/ t \in Asleep(u) /\ ~k.hwse[t].need_migrate
            \/ pc[t] \in {"done", "dead"}
        BY <1>1, <1>3, <1>4, Zenon DEF ListInv, Cui, Hwse
    <2> QED BY <1>2, <1>7, <1>9, <2>1
<1>14. Within(kernel, k, {u}, {t}, Dead)
    <2>1. PICK W, T : W = {u} /\ T = {t}
        OBVIOUS
    <2>2. Within(k, k, W, T, Dead)
        BY <1>4, NothingWithin, Zenon
    <2> QED BY <1>1, <2>1, <2>2
<1>15. k.cui[u].count > kernel.cui[u].count => k.cui[u].count <= k.cui[u].maxcount
    <2>1. k.cui[u].count \in Int
        BY <1>6 DEF LaxUnit
    <2> QED BY <1>1, <2>1
<1>16. Downed(lost, u, t, k, S)
    <2>1. pc[t] \in {"lock", "sleep"}
        BY <1>2
    <2>2. (\A v \in Ids \ {u} : k.cui[v] = kernel.cui[v]) /\ k.cui[u].maxcount = kernel.cui[u].maxcount
        BY <1>1
    <2> QED BY <1>1, <1>2, <1>11, <1>12, <1>13, <1>14, <1>15, <2>1, <2>2, Zenon DEF Downed
<1> QED BY <1>16, DownedKeeps, Zenon

\* Thread t has the lock of unit u in alloc, and has tidied it: the state is k.
Locked(lost, u, t, k, S) ==
    /\ lost \in SUBSET Tasks /\ IInv(lost) /\ t \in Tasks
    /\ pc[t] = "lock" /\ u = my[t] /\ AccessMutexIsFree(u)
    /\ S = Asleep(u) /\ S \in SUBSET Tasks /\ t \notin S /\ S \cap Dead = {}
    /\ k \in KernelState /\ u \in Ids
    /\ Within(kernel, k, {u}, {t}, Dead)
    /\ \A v \in Ids \ {u} : k.cui[v] = kernel.cui[v]
    /\ k.hwse[t].cfs_rq = u /\ t \notin k.cui[u].tasks
    /\ k.cui[u].maxcount = kernel.cui[u].maxcount
    /\ k.cui[u].count <= kernel.cui[u].count
    /\ k.cui[u].curr = t => u \in Cpus
    /\ UnitInv(k.cui[u], k.hwse, S, 0, lost)
    /\ my' = my /\ balance' = balance /\ InCall

\* What the invariant says of them.
LEMMA LockedIs ==
    ASSUME NEW lost \in SUBSET Tasks, IInv(lost), NEW t \in Tasks, LockUnit(t),
           NEW u, u = my[t], NEW k,
           k = Tidy([kernel EXCEPT !.hwse[t].cfs_rq = u], u, Dead)
    PROVE  Locked(lost, u, t, k, Asleep(u))
<1>1. /\ pc[t] = "lock" /\ AccessMutexIsFree(u) /\ my' = my /\ balance' = balance /\ InCall
    BY Zenon DEF LockUnit
<1>2. AtUnit(t) /\ Typed /\ PlaceInv(t) /\ ListInv(t) /\ UnitsInv(lost)
    BY AtUnitIs, Zenon DEF IInv
<1>3. /\ kernel \in KernelState /\ u \in Ids /\ kernel.hwse[t] \in Entity
      /\ kernel.cui \in [Ids -> LaxUnit]
    BY <1>1, <1>2 DEF AtUnit, KernelState
<1>4. PICK S : S = Asleep(u)
    OBVIOUS
<1>5. S \in SUBSET Tasks /\ t \notin S /\ S \cap Dead = {}
    BY <1>1, <1>4 DEF Asleep, Dead
<1>6. PICK e : e = [kernel.hwse[t] EXCEPT !.cfs_rq = u]
    OBVIOUS
<1>7. e \in Entity /\ e.cfs_rq = u
    BY <1>3, <1>6 DEF Entity
<1>8. PICK q : q = [kernel EXCEPT !.hwse[t].cfs_rq = u]
    OBVIOUS
<1>9. q = WithEntity(kernel, t, e)
    BY <1>6, <1>8, Zenon DEF WithEntity
<1>10. EntityPut(kernel, t, e, q)
    BY <1>3, <1>7, <1>9, EntityIs, Zenon
<1>11. /\ q \in KernelState /\ q.cui = kernel.cui /\ q.hwse[t] = e
       /\ \A x \in Tasks \ {t} : q.hwse[x] = kernel.hwse[x]
       /\ Within(kernel, q, {}, {t}, Dead)
    BY <1>10, Zenon DEF EntityPut
<1>12. PICK c : c = kernel.cui[u]
    OBVIOUS
<1>13. UnitInv(q.cui[u], q.hwse, S, 0, lost)
    <2>1. PICK g, h : g = kernel.hwse /\ h = q.hwse
        OBVIOUS
    <2>2. UnitInv(c, g, S, 0, lost)
        BY <1>2, <1>3, <1>4, <1>12, <2>1, Zenon DEF UnitsInv, Cui, Hwse
    <2>3. c \in LaxUnit /\ SameLock(c, c)
        BY <1>3, <1>12, Zenon DEF SameLock
    <2>4. \A x \in S : /\ h[x].semaphore_up = g[x].semaphore_up
                       /\ h[x].need_migrate = g[x].need_migrate
        BY <1>5, <1>11, <2>1
    <2>5. UnitInv(c, h, S, 0, lost)
        BY <2>2, <2>3, <2>4, UnitFrame, Zenon
    <2> QED BY <1>11, <1>12, <2>1, <2>5
<1>14. Tidied(q, k, u, Dead, S, lost)
    <2>1. Tidies(q, u, Dead, S, lost)
        BY <1>3, <1>5, <1>11, <1>13, Zenon DEF Tidies
    <2>2. k = Tidy(q, u, Dead)
        BY <1>8
    <2>3. Tidied(q, Tidy(q, u, Dead), u, Dead, S, lost)
        BY <2>1, TidyIs, Zenon
    <2> QED BY <2>2, <2>3
<1>15. /\ k \in KernelState /\ UnitInv(k.cui[u], k.hwse, S, 0, lost)
       /\ Within(q, k, {u}, {}, Dead)
       /\ \A v \in Ids \ {u} : k.cui[v] = kernel.cui[v]
       /\ k.cui[u].maxcount = c.maxcount /\ k.cui[u].count <= c.count
       /\ k.cui[u].tasks = c.tasks \ Dead
       /\ k.cui[u].curr \in {c.curr} \cup ToSet(c.tree)
       /\ \A x \in Tasks \ ToSet(c.tree) : k.hwse[x] = q.hwse[x]
    BY <1>11, <1>12, <1>14, ZenonT(40) DEF Tidied
<1>16. t \notin ToSet(c.tree)
    BY <1>5, <1>11, <1>12, <1>13 DEF UnitInv, LockInv
<1>17. t \notin c.tasks
    <2>1. t \in c.tasks => pc[t] \in HolderLabels
        BY <1>2, <1>3, <1>12, Zenon DEF ListInv, Cui, Hwse
    <2> QED BY <1>1, <2>1 DEF HolderLabels, Holding
<1>18. k.cui[u].curr = t => u \in Cpus
    <2>1. u \in Cpus \/ c.curr # t
        BY <1>1, <1>2, <1>12, Zenon DEF PlaceInv, Cui
    <2> QED BY <1>15, <1>16, <2>1
<1>19. Within(kernel, k, {u}, {t}, Dead)
    <2>1. PICK Z, W, T : Z = {} /\ W = {u} /\ T = {t}
        OBVIOUS
    <2>2. Within(kernel, q, Z, T, Dead) /\ Z \subseteq W /\ T \subseteq T
        BY <1>11, <2>1
    <2>3. Within(q, k, W, Z, Dead) /\ W \subseteq W /\ Z \subseteq T
        BY <1>15, <2>1
    <2>4. Within(kernel, q, W, T, Dead)
        BY <2>2, WithinMore, Zenon
    <2>5. Within(q, k, W, T, Dead)
        BY <2>3, WithinMore, Zenon
    <2>6. W \in SUBSET Ids
        BY <1>3, <2>1
    <2>7. Within(kernel, k, W, T, Dead)
        BY <2>4, <2>5, <2>6, WithinTransitive, Zenon
    <2> QED BY <2>1, <2>7
<1>20. k.hwse[t].cfs_rq = u /\ t \notin k.cui[u].tasks
    BY <1>7, <1>11, <1>15, <1>16, <1>17, SMTT(30)
<1>21. k.cui[u].maxcount = kernel.cui[u].maxcount /\ k.cui[u].count <= kernel.cui[u].count
    BY <1>12, <1>15
<1>22. Locked(lost, u, t, k, S)
    BY <1>1, <1>3, <1>4, <1>5, <1>15, <1>18, <1>19, <1>20, <1>21, Zenon DEF Locked
<1> QED BY <1>4, <1>22

\* cu_down fails at once.
LEMMA LookElsewhereKeeps ==
    ASSUME NEW lost, NEW u, NEW t, NEW k, NEW S, Locked(lost, u, t, k, S),
           Acquire([k EXCEPT !.hwse[t].need_migrate = TRUE], u, t)
    PROVE  IInv(lost)' /\ Fits
<1>1. /\ lost \in SUBSET Tasks /\ IInv(lost) /\ t \in Tasks
      /\ pc[t] = "lock" /\ u = my[t] /\ AccessMutexIsFree(u)
      /\ S = Asleep(u) /\ S \in SUBSET Tasks /\ t \notin S /\ S \cap Dead = {}
      /\ k \in KernelState /\ u \in Ids
      /\ Within(kernel, k, {u}, {t}, Dead)
      /\ \A v \in Ids \ {u} : k.cui[v] = kernel.cui[v]
      /\ k.hwse[t].cfs_rq = u /\ t \notin k.cui[u].tasks
      /\ k.cui[u].maxcount = kernel.cui[u].maxcount
      /\ k.cui[u].count <= kernel.cui[u].count
      /\ k.cui[u].curr = t => u \in Cpus
      /\ UnitInv(k.cui[u], k.hwse, S, 0, lost)
      /\ my' = my /\ balance' = balance /\ InCall
    BY Zenon DEF Locked
<1>2. PICK m : m = [k EXCEPT !.hwse[t].need_migrate = TRUE]
    OBVIOUS
<1>3. PICK e : e = [k.hwse[t] EXCEPT !.need_migrate = TRUE]
    OBVIOUS
<1>4. k.cui \in [Ids -> LaxUnit] /\ k.hwse[t] \in Entity /\ kernel.cui \in [Ids -> LaxUnit]
    BY <1>1 DEF KernelState, IInv, Typed
<1>5. e \in Entity /\ e.cfs_rq = u /\ e.need_migrate
    BY <1>1, <1>3, <1>4 DEF Entity
<1>6. EntityPut(k, t, e, m)
    <2>1. m = WithEntity(k, t, e)
        BY <1>2, <1>3, Zenon DEF WithEntity
    <2> QED BY <1>1, <1>5, <2>1, EntityIs, Zenon
<1>7. /\ m \in KernelState /\ m.cui = k.cui /\ m.hwse[t] = e
      /\ \A x \in Tasks \ {t} : m.hwse[x] = k.hwse[x]
      /\ Within(k, m, {}, {t}, Dead)
    BY <1>6, Zenon DEF EntityPut
<1>8. UnitInv(m.cui[u], m.hwse, S, IF m.hwse[t].need_migrate THEN 0 ELSE 1, lost)
    <2>1. PICK c, g, h : c = k.cui[u] /\ g = k.hwse /\ h = m.hwse
        OBVIOUS
    <2>2. UnitInv(c, g, S, 0, lost) /\ SameLock(c, c) /\ c \in LaxUnit
        BY <1>1, <1>4, <2>1, Zenon DEF SameLock
    <2>3. \A x \in S : /\ h[x].semaphore_up = g[x].semaphore_up
                       /\ h[x].need_migrate = g[x].need_migrate
        BY <1>1, <1>7, <2>1
    <2>4. UnitInv(c, h, S, 0, lost)
        BY <2>2, <2>3, UnitFrame, Zenon
    <2> QED BY <1>5, <1>7, <2>1, <2>4
<1>9. Acquires(m, u, t, S, lost)
    BY <1>1, <1>2, <1>7, <1>8, Zenon DEF Acquires
<1>10. Within(kernel, m, {u}, {t}, Dead)
    <2>1. PICK Z, W, T : Z = {} /\ W = {u} /\ T = {t}
        OBVIOUS
    <2>2. Within(k, m, Z, T, Dead) /\ Z \subseteq W /\ T \subseteq T
        BY <1>7, <2>1
    <2>3. Within(k, m, W, T, Dead)
        BY <2>2, WithinMore, Zenon
    <2>4. Within(kernel, k, W, T, Dead) /\ W \in SUBSET Ids
        BY <1>1, <2>1
    <2>5. Within(kernel, m, W, T, Dead)
        BY <2>3, <2>4, WithinTransitive, Zenon
    <2> QED BY <2>1, <2>5
<1>11. m.cui[u].count > kernel.cui[u].count => m.cui[u].count <= m.cui[u].maxcount
    <2>1. k.cui[u].count \in Int /\ kernel.cui[u].count \in Int
        BY <1>1, <1>4 DEF LaxUnit
    <2> QED BY <1>1, <1>7, <2>1
<1>12. Downed(lost, u, t, m, S)
    <2>1. pc[t] \in {"lock", "sleep"} /\ S = Asleep(u) \ {t}
        BY <1>1
    <2>2. /\ \A v \in Ids \ {u} : m.cui[v] = kernel.cui[v]
          /\ m.hwse[t].cfs_rq = u /\ m.cui[u].maxcount = kernel.cui[u].maxcount
          /\ m.cui[u].curr = t /\ u \notin Cpus =>
                ~m.cui[u].online \/ ~m.hwse[t].need_migrate
        BY <1>1, <1>5, <1>7
    <2> QED BY <1>1, <1>9, <1>10, <1>11, <2>1, <2>2, Zenon DEF Downed
<1> QED BY <1>12, DownedKeeps, Zenon

-----------------------------------------------------------------------------
(* The queue of a unit, in the fair class.                                 *)

\* Unit d is unit c with another queue and another count.
Requeued(c, d, count, tree, n) ==
    /\ d \in LaxUnit /\ d.type = c.type /\ d.online = c.online /\ d.listed = c.listed
    /\ d.maxcount = c.maxcount /\ d.tasks = c.tasks /\ d.curr = c.curr
    /\ d.offers_outstanding = c.offers_outstanding
    /\ d.count = count /\ d.tree = tree /\ d.nr_running = n

\* Such a unit is well-formed and differs in these fields only.
LEMMA QueueIs ==
    ASSUME NEW c \in LaxUnit, NEW s \in Seq(Tasks), NEW n \in Int, NEW d,
           d = [c EXCEPT !.nr_running = n, !.tree = s]
    PROVE  Requeued(c, d, c.count, s, n)
<1>1. PICK e : e = [c EXCEPT !.nr_running = n]
    OBVIOUS
<1>2. /\ e \in LaxUnit /\ e.type = c.type /\ e.online = c.online /\ e.listed = c.listed
      /\ e.maxcount = c.maxcount /\ e.tasks = c.tasks /\ e.curr = c.curr
      /\ e.offers_outstanding = c.offers_outstanding
      /\ e.count = c.count /\ e.tree = c.tree /\ e.nr_running = n
    BY <1>1 DEF LaxUnit
<1>3. d = [e EXCEPT !.tree = s]
    BY <1>1, Zenon
<1>4. /\ d \in LaxUnit /\ d.type = e.type /\ d.online = e.online /\ d.listed = e.listed
      /\ d.maxcount = e.maxcount /\ d.tasks = e.tasks /\ d.curr = e.curr
      /\ d.offers_outstanding = e.offers_outstanding
      /\ d.count = e.count /\ d.tree = s /\ d.nr_running = e.nr_running
    BY <1>2, <1>3 DEF LaxUnit
<1> QED BY <1>2, <1>4 DEF Requeued

\* enqueue_task_fair_hw.
LEMMA EnqueueIs ==
    ASSUME NEW c \in LaxUnit, NEW t \in Tasks, NEW i, NEW s \in Seq(Tasks),
           s = IF t = c.curr THEN c.tree ELSE InsertAt(c.tree, i, t),
           NEW d, d = Enqueue(c, t, i)
    PROVE  Requeued(c, d, c.count, s, c.nr_running + 1)
<1>1. PICK n \in Int : n = c.nr_running + 1
    BY DEF LaxUnit
<1>2. d = [c EXCEPT !.nr_running = n, !.tree = s]
    <2>1. d = [c EXCEPT !.nr_running = n,
                        !.tree = IF t = c.curr THEN @ ELSE InsertAt(@, i, t)]
        BY <1>1, Zenon DEF Enqueue
    <2>2. c.tree = [c EXCEPT !.nr_running = n].tree
        BY DEF LaxUnit
    <2> QED BY <2>1, <2>2, Zenon
<1>3. Requeued(c, d, c.count, s, n)
    BY <1>2, QueueIs, Zenon
<1> QED BY <1>1, <1>3

\* dequeue_task_fair_hw.
LEMMA DequeueIs ==
    ASSUME NEW c \in LaxUnit, NEW t \in Tasks, NEW s \in Seq(Tasks),
           s = IF t = c.curr THEN c.tree ELSE RemoveFirst(c.tree, t),
           NEW d, d = Dequeue(c, t)
    PROVE  Requeued(c, d, c.count, s, c.nr_running - 1)
<1>1. PICK n \in Int : n = c.nr_running - 1
    BY DEF LaxUnit
<1>2. d = [c EXCEPT !.nr_running = n, !.tree = s]
    <2>1. d = [c EXCEPT !.nr_running = n,
                        !.tree = IF t = c.curr THEN @ ELSE RemoveFirst(@, t)]
        BY <1>1, Zenon DEF Dequeue
    <2>2. c.tree = [c EXCEPT !.nr_running = n].tree
        BY DEF LaxUnit
    <2> QED BY <2>1, <2>2, Zenon
<1>3. Requeued(c, d, c.count, s, n)
    BY <1>2, QueueIs, Zenon
<1> QED BY <1>1, <1>3

\* A thread that finds room takes a slot, and the queue is as it was.
LEMMA DirectIs ==
    ASSUME NEW c \in LaxUnit, NEW t \in Tasks, t \notin ToSet(c.tree),
           c.count \in Nat, c.count < UintMax,
           NEW d, d = Dequeue([Enqueue(c, t, 1) EXCEPT !.count = Up(@)], t)
    PROVE  Requeued(c, d, c.count + 1, c.tree, c.nr_running)
<1>1. c.tree \in Seq(Tasks) /\ c.nr_running \in Int
    BY DEF LaxUnit
<1>2. PICK s : s = IF t = c.curr THEN c.tree ELSE InsertAt(c.tree, 1, t)
    OBVIOUS
<1>3. s \in Seq(Tasks)
    <2>1. InsertAt(c.tree, 1, t) \in Seq(Tasks)
        <3>1. PICK a : a = c.tree
            OBVIOUS
        <3>2. a \in Seq(Tasks)
            BY <1>1, <3>1
        <3>3. SubSeq(a, 1, 1 - 1) = <<>>
            BY NoPrefix, Zenon
        <3>4. InsertAt(a, 1, t) = (<<>> \o <<t>>) \o SubSeq(a, 1, Len(a))
            BY <3>3, Zenon DEF InsertAt
        <3>5. (<<>> \o <<t>>) \o SubSeq(a, 1, Len(a)) \in Seq(Tasks)
            BY <3>2
        <3> QED BY <3>1, <3>4, <3>5
    <2> QED BY <1>1, <1>2, <2>1
<1>4. PICK e : e = Enqueue(c, t, 1)
    OBVIOUS
<1>5. Requeued(c, e, c.count, s, c.nr_running + 1)
    BY <1>2, <1>3, <1>4, EnqueueIs, Zenon
<1>6. PICK m \in Int : m = c.count + 1
    OBVIOUS
<1>7. PICK f : f = [e EXCEPT !.count = m]
    OBVIOUS
<1>8. /\ e \in LaxUnit /\ e.type = c.type /\ e.online = c.online /\ e.listed = c.listed
      /\ e.maxcount = c.maxcount /\ e.tasks = c.tasks /\ e.curr = c.curr
      /\ e.offers_outstanding = c.offers_outstanding
      /\ e.count = c.count /\ e.tree = s /\ e.nr_running = c.nr_running + 1
    BY <1>5, Zenon DEF Requeued
<1>9. /\ f \in LaxUnit /\ f.type = e.type /\ f.online = e.online /\ f.listed = e.listed
      /\ f.maxcount = e.maxcount /\ f.tasks = e.tasks /\ f.curr = e.curr
      /\ f.offers_outstanding = e.offers_outstanding
      /\ f.count = m /\ f.tree = e.tree /\ f.nr_running = e.nr_running
    BY <1>7, <1>8 DEF LaxUnit
<1>10. d = Dequeue(f, t)
    <2>1. Up(e.count) = m
        BY <1>6, <1>8, UpIs
    <2>2. f = [e EXCEPT !.count = Up(@)]
        BY <1>7, <2>1, Zenon
    <2> QED BY <1>4, <2>2, Zenon
<1>11. c.tree = IF t = f.curr THEN f.tree ELSE RemoveFirst(f.tree, t)
    <2>1. f.tree = s /\ f.curr = c.curr
        BY <1>8, <1>9
    <2>2. CASE t = c.curr
        BY <1>2, <2>1, <2>2
    <2>3. CASE t # c.curr
        <3>1. s = InsertAt(c.tree, 1, t)
            BY <1>2, <2>3
        <3>2. PICK a : a = c.tree
            OBVIOUS
        <3>3. a \in Seq(Tasks) /\ t \in Tasks \ ToSet(a)
            BY <1>1, <3>2
        <3>4. RemoveFirst(InsertAt(a, 1, t), t) = a
            BY <3>3, InsertedRemoved, Zenon
        <3> QED BY <2>1, <2>3, <3>1, <3>2, <3>4, Zenon
    <2> QED BY <2>2, <2>3
<1>12. Requeued(f, d, f.count, c.tree, f.nr_running - 1)
    BY <1>1, <1>9, <1>10, <1>11, DequeueIs, Zenon
<1>13. /\ d \in LaxUnit /\ d.type = f.type /\ d.online = f.online /\ d.listed = f.listed
       /\ d.maxcount = f.maxcount /\ d.tasks = f.tasks /\ d.curr = f.curr
       /\ d.offers_outstanding = f.offers_outstanding
       /\ d.count = f.count /\ d.tree = c.tree /\ d.nr_running = f.nr_running - 1
    BY <1>12, Zenon DEF Requeued
<1>14. d.count = c.count + 1 /\ d.nr_running = c.nr_running
    BY <1>1, <1>6, <1>8, <1>9, <1>13
<1> QED BY <1>8, <1>9, <1>13, <1>14 DEF Requeued

\* What is known of the unit that has been tidied.
Roomy(c, h, S, t) ==
    /\ c \in LaxUnit /\ t \notin ToSet(c.tree) /\ t \notin Holders(c, h, S)
    /\ c.count = Cardinality(Holders(c, h, S)) /\ c.count \in Nat
    /\ c.count < UintMax /\ h[t] \in Entity

\* It is so in alloc.
LEMMA LockedUnit ==
    ASSUME NEW lost, NEW u, NEW t, NEW k, NEW S, Locked(lost, u, t, k, S)
    PROVE  Roomy(k.cui[u], k.hwse, S, t)
<1>0. PICK c : c = k.cui[u]
    OBVIOUS
<1>1. /\ t \in Tasks /\ S \in SUBSET Tasks /\ t \notin S /\ k \in KernelState /\ u \in Ids
      /\ t \notin c.tasks /\ UnitInv(c, k.hwse, S, 0, lost)
    BY <1>0, Zenon DEF Locked
<1>2. /\ c \in LaxUnit /\ ToSet(c.tree) \subseteq S
      /\ c.count = Cardinality(Holders(c, k.hwse, S)) + 0
    BY <1>1, Zenon DEF UnitInv, LockInv
<1>3. PICK H : H = Holders(c, k.hwse, S)
    OBVIOUS
<1>4. t \notin H
    BY <1>1, <1>3 DEF Holders
<1>5. Cardinality(H) \in Nat
    BY <1>1, <1>2, <1>3, HoldersFinite, Zenon
<1>6. Cardinality(H) < UintMax
    <2>1. t \in Tasks \ H
        BY <1>1, <1>4
    <2> QED BY <1>1, <1>2, <1>3, <2>1, HoldersBound, Zenon
<1>7. c.count = Cardinality(H)
    BY <1>2, <1>3, <1>5
<1>8. k.hwse[t] \in Entity
    BY <1>1 DEF KernelState
<1> QED BY <1>0, <1>1, <1>2, <1>3, <1>4, <1>5, <1>6, <1>7, <1>8 DEF Roomy

\* cu_down lets the thread in.
LEMMA DirectlyKeeps ==
    ASSUME NEW lost, NEW u, NEW t, NEW k, NEW S, Locked(lost, u, t, k, S),
           HasRoom(k.cui[u]), Acquire(CuDownDirectly(k, u, t, 1), u, t)
    PROVE  IInv(lost)' /\ Fits
<1>1. /\ lost \in SUBSET Tasks /\ IInv(lost) /\ t \in Tasks
      /\ pc[t] = "lock" /\ u = my[t] /\ AccessMutexIsFree(u)
      /\ S = Asleep(u) /\ S \in SUBSET Tasks /\ t \notin S /\ S \cap Dead = {}
      /\ k \in KernelState /\ u \in Ids
      /\ Within(kernel, k, {u}, {t}, Dead)
      /\ \A v \in Ids \ {u} : k.cui[v] = kernel.cui[v]
      /\ k.hwse[t].cfs_rq = u /\ t \notin k.cui[u].tasks
      /\ k.cui[u].maxcount = kernel.cui[u].maxcount
      /\ UnitInv(k.cui[u], k.hwse, S, 0, lost)
      /\ my' = my /\ balance' = balance /\ InCall
    BY Zenon DEF Locked
<1>2. PICK c, h : c = k.cui[u] /\ h = k.hwse
    OBVIOUS
<1>3. /\ c \in LaxUnit /\ t \notin ToSet(c.tree)
      /\ c.count = Cardinality(Holders(c, h, S)) /\ c.count \in Nat
      /\ c.count < UintMax /\ h[t] \in Entity
    <2>1. Roomy(k.cui[u], k.hwse, S, t)
        BY LockedUnit, Zenon
    <2>2. Roomy(c, h, S, t)
        BY <1>2, <2>1
    <2> QED BY <2>2, Zenon DEF Roomy
<1>4. PICK d : d = Dequeue([Enqueue(c, t, 1) EXCEPT !.count = Up(@)], t)
    OBVIOUS
<1>5. Requeued(c, d, c.count + 1, c.tree, c.nr_running)
    BY <1>1, <1>3, <1>4, DirectIs, Zenon
<1>6. /\ d \in LaxUnit /\ d.type = c.type /\ d.online = c.online /\ d.listed = c.listed
      /\ d.maxcount = c.maxcount /\ d.tasks = c.tasks /\ d.curr = c.curr
      /\ d.count = c.count + 1 /\ d.tree = c.tree /\ d.nr_running = c.nr_running
    BY <1>5, Zenon DEF Requeued
<1>7. PICK e : e = [h[t] EXCEPT !.need_migrate = FALSE]
    OBVIOUS
<1>8. e \in Entity /\ e.cfs_rq = u /\ ~e.need_migrate
    BY <1>1, <1>2, <1>3, <1>7 DEF Entity
<1>9. PICK m, q : m = CuDownDirectly(k, u, t, 1) /\ q = WithUnit(k, u, d)
    OBVIOUS
<1>10. /\ q \in KernelState /\ q.hwse = h /\ q.cui[u] = d
       /\ \A v \in Ids \ {u} : q.cui[v] = k.cui[v]
    <2>1. UnitPut(k, u, d, q)
        BY <1>1, <1>6, <1>9, UnitIs, Zenon
    <2> QED BY <1>2, <2>1, Zenon DEF UnitPut
<1>11. EntityPut(q, t, e, m)
    <2>1. m = [q EXCEPT !.hwse[t].need_migrate = FALSE]
        BY <1>2, <1>4, <1>9, Zenon DEF CuDownDirectly, WithUnit
    <2>2. m = WithEntity(q, t, e)
        BY <1>7, <1>10, <2>1, Zenon DEF WithEntity
    <2> QED BY <1>1, <1>8, <1>10, <2>2, EntityIs, Zenon
<1>12. /\ m \in KernelState /\ m.cui = q.cui /\ m.hwse[t] = e
       /\ \A x \in Tasks \ {t} : m.hwse[x] = q.hwse[x]
    BY <1>11, Zenon DEF EntityPut
<1>13. Within(kernel, m, {u}, {t}, Dead)
    <2>1. Turns(k.cui[u], m.cui[u], {t}, Dead)
        BY <1>2, <1>6, <1>10, <1>12 DEF Turns
    <2>2. /\ \A v \in Ids \ {u} : m.cui[v] = k.cui[v]
          /\ \A x \in Tasks \ {t} : m.hwse[x] = k.hwse[x]
        BY <1>2, <1>10, <1>12
    <2>3. Within(k, m, {u}, {t}, Dead)
        BY <1>1, <1>12, <2>1, <2>2, UnitWithin
    <2>4. {u} \in SUBSET Ids
        BY <1>1
    <2> QED BY <1>1, <2>3, <2>4, WithinTransitive, Zenon
<1>14. UnitInv(d, m.hwse, S, 1, lost)
    <2>1. PICK g : g = m.hwse
        OBVIOUS
    <2>2. /\ Injective(c.tree) /\ ToSet(c.tree) \subseteq S
          /\ \A x \in ToSet(c.tree) : ~h[x].semaphore_up /\ ~h[x].need_migrate
          /\ c.curr \notin ToSet(c.tree)
          /\ c.tasks \cap S = {}
          /\ \A x \in S : ~(h[x].semaphore_up /\ h[x].need_migrate)
          /\ c.tree # <<>> => c.count >= c.maxcount
        BY <1>1, <1>2, Zenon DEF UnitInv, LockInv
    <2>3. /\ lost = {} => c.nr_running = Len(c.tree)
          /\ \A x \in S \ ToSet(c.tree) : h[x].semaphore_up \/ h[x].need_migrate \/ x \in lost
        BY <1>1, <1>2, Zenon DEF UnitInv, LockInv
    <2>4. \A x \in S : g[x] = h[x]
        BY <1>1, <1>10, <1>12, <2>1
    <2>5. Holders(d, g, S) = Holders(c, h, S)
        BY <1>6, <2>4 DEF Holders
    <2>6. d.count = Cardinality(Holders(d, g, S)) + 1
        BY <1>3, <1>6, <2>5
    <2>7. d.tree = <<>>
        <3>1. c.count < c.maxcount
            BY <1>2 DEF HasRoom
        <3>2. c.maxcount \in Int
            <4>1. c.maxcount \in 0 .. UintMax
                BY <1>3 DEF LaxUnit
            <4> QED BY <4>1, UnitsAssumption
        <3> QED BY <1>3, <1>6, <2>2, <3>1, <3>2
    <2>8. LockInv(d, g, S, 1, lost)
        <3>1. /\ \A x \in ToSet(d.tree) : ~g[x].semaphore_up /\ ~g[x].need_migrate
              /\ \A x \in S : ~(g[x].semaphore_up /\ g[x].need_migrate)
              /\ lost = {} => d.nr_running = Len(d.tree)
              /\ \A x \in S \ ToSet(d.tree) : g[x].semaphore_up \/ g[x].need_migrate \/ x \in lost
            BY <1>6, <2>2, <2>3, <2>4
        <3> QED BY <1>6, <2>2, <2>6, <3>1 DEF LockInv
    <2> QED BY <2>1, <2>7, <2>8 DEF UnitInv
<1>15. Acquires(m, u, t, S, lost)
    <2>1. m.cui[u] = d /\ ~m.hwse[t].need_migrate /\ t \notin d.tasks
        BY <1>1, <1>2, <1>6, <1>8, <1>10, <1>12
    <2>2. UnitInv(m.cui[u], m.hwse, S, IF m.hwse[t].need_migrate THEN 0 ELSE 1, lost)
        BY <1>14, <2>1
    <2>3. Acquire(m, u, t)
        BY <1>9
    <2> QED BY <1>1, <1>12, <2>1, <2>2, <2>3, Zenon DEF Acquires
<1>16. m.cui[u].count > kernel.cui[u].count => m.cui[u].count <= m.cui[u].maxcount
    <2>1. c.count < c.maxcount
        BY <1>2 DEF HasRoom
    <2>2. c.maxcount \in Int
        <3>1. c.maxcount \in 0 .. UintMax
            BY <1>3 DEF LaxUnit
        <3> QED BY <3>1, UnitsAssumption
    <2> QED BY <1>3, <1>6, <1>10, <1>12, <2>1, <2>2
<1>17. Downed(lost, u, t, m, S)
    <2>1. pc[t] \in {"lock", "sleep"} /\ S = Asleep(u) \ {t}
        BY <1>1
    <2>2. /\ \A v \in Ids \ {u} : m.cui[v] = kernel.cui[v]
          /\ m.hwse[t].cfs_rq = u /\ m.cui[u].maxcount = kernel.cui[u].maxcount
          /\ m.cui[u].curr = t /\ u \notin Cpus =>
                ~m.cui[u].online \/ ~m.hwse[t].need_migrate
        BY <1>1, <1>2, <1>6, <1>8, <1>10, <1>12
    <2> QED BY <1>1, <1>13, <1>15, <1>16, <2>1, <2>2, Zenon DEF Downed
<1> QED BY <1>17, DownedKeeps, Zenon

\* The lock of a unit after thread t has gone to sleep in its tree.
Queued(c, h, S, t, i, d, g, lost) ==
    /\ c \in LaxUnit /\ S \in SUBSET Tasks /\ UnitInv(c, h, S, 0, lost)
    /\ t \in Tasks /\ t \notin S /\ t \notin c.tasks /\ t # c.curr
    /\ c.count >= c.maxcount
    /\ i \in 1 .. Len(c.tree) + 1
    /\ d = Enqueue(c, t, i)
    /\ ~g[t].semaphore_up /\ ~g[t].need_migrate
    /\ \A x \in S : g[x] = h[x]

QueuedUnit(c, d, S, t, g, lost) ==
    /\ UnitInv(d, g, S \cup {t}, 0, lost)
    /\ d.type = c.type /\ d.online = c.online /\ d.listed = c.listed
    /\ d.maxcount = c.maxcount /\ d.tasks = c.tasks /\ d.curr = c.curr
    /\ d.count = c.count /\ ToSet(d.tree) = ToSet(c.tree) \cup {t}

\* The lock is intact.
LEMMA QueuedIs ==
    ASSUME NEW c, NEW h, NEW S, NEW t, NEW i, NEW d, NEW g, NEW lost,
           Queued(c, h, S, t, i, d, g, lost)
    PROVE  QueuedUnit(c, d, S, t, g, lost)
<1>1. /\ c \in LaxUnit /\ S \in SUBSET Tasks /\ UnitInv(c, h, S, 0, lost)
      /\ t \in Tasks /\ t \notin S /\ t \notin c.tasks /\ t # c.curr
      /\ c.count >= c.maxcount
      /\ i \in 1 .. Len(c.tree) + 1
      /\ d = Enqueue(c, t, i)
      /\ ~g[t].semaphore_up /\ ~g[t].need_migrate
      /\ \A x \in S : g[x] = h[x]
    BY Zenon DEF Queued
<1>2. /\ Injective(c.tree) /\ ToSet(c.tree) \subseteq S
      /\ \A x \in ToSet(c.tree) : ~h[x].semaphore_up /\ ~h[x].need_migrate
      /\ c.curr \notin ToSet(c.tree)
      /\ c.tasks \cap S = {}
      /\ c.count = Cardinality(Holders(c, h, S)) + 0
      /\ \A x \in S : ~(h[x].semaphore_up /\ h[x].need_migrate)
    BY <1>1, Zenon DEF UnitInv, LockInv
<1>3. /\ lost = {} => c.nr_running = Len(c.tree)
      /\ \A x \in S \ ToSet(c.tree) : h[x].semaphore_up \/ h[x].need_migrate \/ x \in lost
    BY <1>1, Zenon DEF UnitInv, LockInv
<1>4. PICK a : a = c.tree
    OBVIOUS
<1>5. PICK s : s = InsertAt(a, i, t)
    OBVIOUS
<1>6. /\ s \in Seq(Tasks) /\ Injective(s) /\ Len(s) = Len(a) + 1
      /\ ToSet(s) = ToSet(a) \cup {t}
    <2>1. a \in Seq(Tasks) /\ t \in Tasks \ ToSet(a) /\ Injective(a) /\ i \in 1 .. Len(a) + 1
        BY <1>1, <1>2, <1>4 DEF LaxUnit
    <2> QED BY <1>5, <2>1, InsertedIs
<1>7. Requeued(c, d, c.count, s, c.nr_running + 1)
    <2>1. s = IF t = c.curr THEN c.tree ELSE InsertAt(c.tree, i, t)
        BY <1>1, <1>4, <1>5
    <2> QED BY <1>1, <1>6, <2>1, EnqueueIs, Zenon
<1>8. /\ d \in LaxUnit /\ d.type = c.type /\ d.online = c.online /\ d.listed = c.listed
      /\ d.maxcount = c.maxcount /\ d.tasks = c.tasks /\ d.curr = c.curr
      /\ d.count = c.count /\ d.tree = s /\ d.nr_running = c.nr_running + 1
    BY <1>7, Zenon DEF Requeued
<1>9. PICK R : R = S \cup {t}
    OBVIOUS
<1>10. Holders(d, g, R) = Holders(c, h, S)
    BY <1>1, <1>8, <1>9 DEF Holders
<1>11. d.count = Cardinality(Holders(d, g, R)) + 0
    BY <1>2, <1>8, <1>10
<1>12. /\ ToSet(d.tree) \subseteq R /\ d.tasks \cap R = {} /\ d.curr \notin ToSet(d.tree)
       /\ \A x \in ToSet(d.tree) : ~g[x].semaphore_up /\ ~g[x].need_migrate
       /\ \A x \in R : ~(g[x].semaphore_up /\ g[x].need_migrate)
    BY <1>1, <1>2, <1>4, <1>6, <1>8, <1>9
<1>13. /\ lost = {} => d.nr_running = Len(d.tree)
       /\ \A x \in R \ ToSet(d.tree) : g[x].semaphore_up \/ g[x].need_migrate \/ x \in lost
    <2>1. lost = {} => d.nr_running = Len(d.tree)
        BY <1>3, <1>4, <1>6, <1>8
    <2>2. \A x \in R \ ToSet(d.tree) : x \in S \ ToSet(c.tree) /\ g[x] = h[x]
        BY <1>1, <1>4, <1>6, <1>8, <1>9
    <2> QED BY <1>3, <2>1, <2>2
<1>14. LockInv(d, g, R, 0, lost)
    BY <1>6, <1>8, <1>11, <1>12, <1>13 DEF LockInv
<1>15. UnitInv(d, g, R, 0, lost)
    BY <1>1, <1>8, <1>14 DEF UnitInv
<1>16. ToSet(d.tree) = ToSet(c.tree) \cup {t}
    BY <1>4, <1>6, <1>8
<1> QED BY <1>8, <1>9, <1>15, <1>16 DEF QueuedUnit

\* cu_down puts the thread to sleep.
LEMMA WaitsKeeps ==
    ASSUME NEW lost, NEW u, NEW t, NEW k, NEW S, Locked(lost, u, t, k, S),
           ~HasRoom(k.cui[u]), NEW i \in 1 .. Len(k.cui[u].tree) + 1,
           kernel' = CuDownWaits(k, u, t, i), Goto(t, "sleep")
    PROVE  IInv(lost)' /\ Fits
<1>1. /\ lost \in SUBSET Tasks /\ IInv(lost) /\ t \in Tasks
      /\ pc[t] = "lock" /\ u = my[t] /\ AccessMutexIsFree(u)
      /\ S = Asleep(u) /\ S \in SUBSET Tasks /\ t \notin S /\ S \cap Dead = {}
      /\ k \in KernelState /\ u \in Ids
      /\ Within(kernel, k, {u}, {t}, Dead)
      /\ \A v \in Ids \ {u} : k.cui[v] = kernel.cui[v]
      /\ k.hwse[t].cfs_rq = u /\ t \notin k.cui[u].tasks
      /\ k.cui[u].maxcount = kernel.cui[u].maxcount
      /\ k.cui[u].count <= kernel.cui[u].count
      /\ k.cui[u].curr = t => u \in Cpus
      /\ UnitInv(k.cui[u], k.hwse, S, 0, lost)
      /\ my' = my /\ balance' = balance /\ InCall
    BY Zenon DEF Locked
<1>2. PICK c, h : c = k.cui[u] /\ h = k.hwse
    OBVIOUS
<1>3. /\ c \in LaxUnit /\ t \notin ToSet(c.tree)
      /\ c.count = Cardinality(Holders(c, h, S)) /\ c.count \in Nat
      /\ c.count < UintMax /\ h[t] \in Entity
    <2>1. Roomy(k.cui[u], k.hwse, S, t)
        BY LockedUnit, Zenon
    <2>2. Roomy(c, h, S, t)
        BY <1>2, <2>1
    <2> QED BY <2>2, Zenon DEF Roomy
<1>4. AtUnit(t) /\ Typed /\ PlaceInv(t) /\ ListInv(t) /\ KindInv
    BY <1>1, AtUnitIs, Zenon DEF IInv
<1>5. /\ kernel \in KernelState /\ pc \in [Tasks -> Labels]
      /\ my \in [Tasks -> Ids \cup {CU_INVALID_HANDLE}]
      /\ u \in 0 .. current_id /\ workstatus[t] > 0
    BY <1>1, <1>4 DEF AtUnit
<1>6. c.maxcount \in Int
    <2>1. c.maxcount \in 0 .. UintMax
        BY <1>3 DEF LaxUnit
    <2> QED BY <2>1, UnitsAssumption
<1>7. u \notin Cpus /\ c.count >= c.maxcount /\ t # c.curr
    <2>1. ~(c.count < c.maxcount)
        BY <1>2 DEF HasRoom
    <2>2. u \in Cpus => c.maxcount = UintMax
        BY <1>1, <1>2, <1>4, Zenon DEF KindInv, Cui
    <2>3. u \notin Cpus
        BY <1>3, <2>1, <2>2
    <2> QED BY <1>1, <1>2, <1>3, <1>6, <2>1, <2>3
<1>8. PICK d : d = Enqueue(c, t, i)
    OBVIOUS
<1>9. PICK a : a = [h[t] EXCEPT !.need_migrate = FALSE]
    OBVIOUS
<1>10. a \in Entity /\ a.cfs_rq = u /\ ~a.need_migrate
    BY <1>1, <1>2, <1>3, <1>9 DEF Entity
<1>11. PICK e : e = [a EXCEPT !.semaphore_up = FALSE]
    OBVIOUS
<1>12. e \in Entity /\ e.cfs_rq = u /\ ~e.need_migrate /\ ~e.semaphore_up
    BY <1>10, <1>11 DEF Entity
<1>13. PICK g : g = [h EXCEPT ![t] = e]
    OBVIOUS
<1>14. h \in [Tasks -> Entity] /\ g[t] = e /\ \A x \in Tasks \ {t} : g[x] = h[x]
    BY <1>1, <1>2, <1>13 DEF KernelState
<1>15. QueuedUnit(c, d, S, t, g, lost)
    <2>1. \A x \in S : g[x] = h[x]
        BY <1>1, <1>14
    <2>2. ~g[t].semaphore_up /\ ~g[t].need_migrate
        BY <1>12, <1>14
    <2>3. i \in 1 .. Len(c.tree) + 1 /\ UnitInv(c, h, S, 0, lost) /\ t \notin c.tasks
        BY <1>1, <1>2
    <2>4. Queued(c, h, S, t, i, d, g, lost)
        BY <1>1, <1>3, <1>7, <1>8, <2>1, <2>2, <2>3, Zenon DEF Queued
    <2> QED BY <2>4, QueuedIs, Zenon
<1>16. /\ UnitInv(d, g, S \cup {t}, 0, lost)
       /\ d.type = c.type /\ d.online = c.online /\ d.listed = c.listed
       /\ d.maxcount = c.maxcount /\ d.tasks = c.tasks /\ d.curr = c.curr
       /\ d.count = c.count /\ ToSet(d.tree) = ToSet(c.tree) \cup {t}
    BY <1>15, Zenon DEF QueuedUnit
<1>17. d \in LaxUnit
    BY <1>16, Zenon DEF UnitInv, LockInv
<1>18. PICK q, p, r : /\ q = WithUnit(k, u, d) /\ p = WithEntity(q, t, a) /\ r = kernel'
    OBVIOUS
<1>19. /\ q \in KernelState /\ q.hwse = h /\ q.cui[u] = d
       /\ \A v \in Ids \ {u} : q.cui[v] = k.cui[v]
    <2>1. UnitPut(k, u, d, q)
        BY <1>1, <1>17, <1>18, UnitIs, Zenon
    <2> QED BY <1>2, <2>1, Zenon DEF UnitPut
<1>20. EntityPut(q, t, a, p)
    BY <1>1, <1>10, <1>18, <1>19, EntityIs, Zenon
<1>21. r = WithEntity(p, t, e)
    <2>1. r = [[[k EXCEPT !.cui[u] = Enqueue(@, t, i)]
                   EXCEPT !.hwse[t].need_migrate = FALSE]
                   EXCEPT !.hwse[t].semaphore_up = FALSE]
        BY <1>18, Zenon DEF CuDownWaits
    <2>2. q = [k EXCEPT !.cui[u] = Enqueue(@, t, i)]
        BY <1>2, <1>8, <1>18, Zenon DEF WithUnit
    <2>3. p = [q EXCEPT !.hwse[t].need_migrate = FALSE]
        BY <1>9, <1>18, <1>19, Zenon DEF WithEntity
    <2>4. r = [p EXCEPT !.hwse[t].semaphore_up = FALSE]
        BY <2>1, <2>2, <2>3, Zenon
    <2>5. p.hwse[t] = a
        BY <1>20, Zenon DEF EntityPut
    <2> QED BY <1>11, <2>4, <2>5, Zenon DEF WithEntity
<1>22. /\ r \in KernelState /\ r.cui = q.cui /\ r.hwse[t] = e
       /\ \A x \in Tasks \ {t} : r.hwse[x] = q.hwse[x]
    <2>1. EntityPut(q, t, e, r)
        BY <1>1, <1>12, <1>20, <1>21, EntityAgain, Zenon
    <2> QED BY <2>1, Zenon DEF EntityPut
<1>23. Within(kernel, r, {u}, {t}, Dead)
    <2>1. Turns(k.cui[u], r.cui[u], {t}, Dead)
        BY <1>2, <1>16, <1>19, <1>22 DEF Turns
    <2>2. /\ \A v \in Ids \ {u} : r.cui[v] = k.cui[v]
          /\ \A x \in Tasks \ {t} : r.hwse[x] = k.hwse[x]
        BY <1>2, <1>19, <1>22
    <2>3. Within(k, r, {u}, {t}, Dead)
        BY <1>1, <1>22, <2>1, <2>2, UnitWithin
    <2>4. {u} \in SUBSET Ids
        BY <1>1
    <2> QED BY <1>1, <2>3, <2>4, WithinTransitive, Zenon
<1>24. pc' = [pc EXCEPT ![t] = "sleep"]
    BY DEF Goto
<1>25. pc'[t] = "sleep" /\ (\A x \in Tasks \ {t} : pc'[x] = pc[x]) /\ my'[t] = u
    BY <1>1, <1>5, <1>24
<1>26. Asleep(u)' = S \cup {t}
    <2>1. \A x \in Tasks : (pc'[x] = "sleep" /\ my'[x] = u) <=> (x = t \/ (pc[x] = "sleep" /\ my[x] = u))
        BY <1>1, <1>25
    <2> QED BY <1>1, <2>1 DEF Asleep
<1>27. UnitInv(r.cui[u], r.hwse, S \cup {t}, 0, lost)
    <2>1. r.hwse \in [Tasks -> Entity]
        BY <1>22 DEF KernelState
    <2>2. r.hwse = g
        BY <1>13, <1>14, <1>19, <1>22, <2>1
    <2> QED BY <1>16, <1>19, <1>22, <2>2
<1>28. /\ current_id' = current_id /\ workstatus' = workstatus
    BY <1>1 DEF InCall
<1>29. PlaceInv(t)'
    <2>1. u \in -1 .. current_id /\ r.hwse[t].cfs_rq = u
        <3>1. current_id \in Nat
            BY <1>4, IdBelow
        <3> QED BY <1>5, <1>12, <1>22, <3>1
    <2> QED BY <1>5, <1>7, <1>18, <1>25, <1>28, <2>1 DEF PlaceInv, Cui, Hwse, Holding
<1>30. \A v \in Ids \ {u} : r.cui[v] = kernel.cui[v]
    BY <1>1, <1>19, <1>22
<1>31. ListInv(t)'
    <2>1. ASSUME NEW v \in Ids PROVE t \notin r.cui[v].tasks
        <3>1. CASE v = u
            BY <1>1, <1>2, <1>16, <1>19, <1>22, <3>1
        <3>2. CASE v # u
            <4>1. t \in kernel.cui[v].tasks => pc[t] \in HolderLabels
                BY <1>4, Zenon DEF ListInv, Cui, Hwse
            <4> QED BY <1>1, <1>30, <3>2, <4>1 DEF HolderLabels, Holding
        <3> QED BY <3>1, <3>2
    <2>2. ASSUME NEW v \in Ids \ Cpus, r.cui[v].curr = t
          PROVE  ~r.cui[v].online
        <3>1. v # u
            BY <1>7, <1>16, <1>19, <1>22, <2>2
        <3>2. r.cui[v] = kernel.cui[v]
            BY <1>30, <3>1
        <3>3. \/ ~kernel.cui[v].online \/ t \in kernel.cui[v].tasks
              \/ t \in Asleep(v) /\ ~kernel.hwse[t].need_migrate
              \/ pc[t] \in {"done", "dead"}
            BY <1>4, <2>2, <3>2, Zenon DEF ListInv, Cui, Hwse
        <3> QED BY <1>1, <2>1, <3>2, <3>3 DEF Asleep
    <2> QED BY <1>18, <2>1, <2>2, Zenon DEF ListInv, Cui, Hwse
<1>32. Fits
    <2>1. kernel.cui \in [Ids -> LaxUnit]
        BY <1>5 DEF KernelState
    <2>2. \A v \in Ids : kernel.cui[v].count \in Int
        BY <2>1 DEF LaxUnit
    <2>3. r.cui[u].count = c.count /\ c.count <= kernel.cui[u].count
        BY <1>1, <1>2, <1>16, <1>19, <1>22
    <2>4. \A v \in Ids : ~(r.cui[v].count > kernel.cui[v].count)
        BY <1>1, <1>3, <1>30, <2>2, <2>3
    <2> QED BY <1>18, <2>4 DEF Fits
<1>33. Steps(lost, {u}, t, "sleep")
    <2>1. Elsewhere(t)
        BY <1>1, <1>4, InCallElsewhere, Zenon
    <2>2. UnitInv(kernel'.cui[u], kernel'.hwse, Asleep(u)', 0, lost)
        BY <1>18, <1>26, <1>27
    <2>3. \A v \in Ids \ {u} : ~(pc[t] = "sleep" /\ my[t] = v) /\ ~("sleep" = "sleep" /\ my'[t] = v)
        BY <1>1, <1>25
    <2>4. pc[t] # "balancing" /\ "sleep" \in Labels /\ {u} \in SUBSET Ids
        BY <1>1 DEF Labels
    <2>5. my' \in [Tasks -> Ids \cup {CU_INVALID_HANDLE}] /\ \A x \in Tasks \ {t} : my'[x] = my[x]
        BY <1>1, <1>5
    <2>6. Within(kernel, kernel', {u}, {t}, Dead)
        BY <1>18, <1>23
    <2>7. \A w \in {u} : /\ AccessMutexIsFree(w)
                         /\ UnitInv(kernel'.cui[w], kernel'.hwse, Asleep(w)', 0, lost)
        <3> SUFFICES ASSUME NEW w \in {u}
                     PROVE  /\ AccessMutexIsFree(w)
                            /\ UnitInv(kernel'.cui[w], kernel'.hwse, Asleep(w)', 0, lost)
            OBVIOUS
        <3>1. w = u
            OBVIOUS
        <3> QED BY <1>1, <2>2, <3>1
    <2> QED BY <1>1, <1>24, <1>29, <1>31, <2>1, <2>3, <2>4, <2>5, <2>6, <2>7, Zenon DEF Steps
<1>34. IInv(lost)'
    BY <1>33, StepIs, Zenon
<1> QED BY <1>32, <1>34

\* The section of alloc.
LEMMA LockUnitKeeps ==
    ASSUME NEW lost \in SUBSET Tasks, IInv(lost), NEW t \in Tasks, LockUnit(t)
    PROVE  IInv(lost)' /\ Fits
<1>1. PICK u, k, S : /\ u = my[t] /\ S = Asleep(u)
                     /\ k = Tidy([kernel EXCEPT !.hwse[t].cfs_rq = u], u, Dead)
    OBVIOUS
<1>2. Locked(lost, u, t, k, S)
    <2>1. Locked(lost, u, t, k, Asleep(u))
        BY <1>1, LockedIs, Zenon
    <2> QED BY <1>1, <2>1
<1>3. \/ Acquire([k EXCEPT !.hwse[t].need_migrate = TRUE], u, t)
      \/ HasRoom(k.cui[u]) /\ Acquire(CuDownDirectly(k, u, t, 1), u, t)
      \/ /\ ~HasRoom(k.cui[u]) /\ Goto(t, "sleep")
         /\ \E i \in 1 .. Len(k.cui[u].tree) + 1 : kernel' = CuDownWaits(k, u, t, i)
    BY <1>1, Zenon DEF LockUnit
<1>4. CASE Acquire([k EXCEPT !.hwse[t].need_migrate = TRUE], u, t)
    BY <1>2, <1>4, LookElsewhereKeeps, Zenon
<1>5. CASE HasRoom(k.cui[u]) /\ Acquire(CuDownDirectly(k, u, t, 1), u, t)
    BY <1>2, <1>5, DirectlyKeeps, Zenon
<1>6. CASE /\ ~HasRoom(k.cui[u]) /\ Goto(t, "sleep")
           /\ \E i \in 1 .. Len(k.cui[u].tree) + 1 : kernel' = CuDownWaits(k, u, t, i)
    BY <1>2, <1>6, WaitsKeeps, Zenon
<1> QED BY <1>3, <1>4, <1>5, <1>6

-----------------------------------------------------------------------------
(* Threads that use their unit.                                            *)

\* The units whose lock another thread keeps do not get thread t as current entity.
LEMMA CurrElsewhere ==
    ASSUME NEW t \in Tasks, ListInv(t), pc[t] \notin {"sleep", "done", "dead"}
    PROVE  \A u \in Ids \ Cpus : kernel.cui[u].curr = t =>
            ~kernel.cui[u].online \/ t \in kernel.cui[u].tasks
BY DEF ListInv, Asleep, Cui

\* The section of rerequest, which tidies the unit.
LEMMA RerequestKeeps ==
    ASSUME NEW lost \in SUBSET Tasks, IInv(lost), NEW t \in Tasks, Rerequest(t)
    PROVE  IInv(lost)' /\ Fits
<1>1. PICK u, S : u = my[t] /\ S = Asleep(u)
    OBVIOUS
<1>2. PICK q, r : q = [kernel EXCEPT !.cui[u].curr = t] /\ r = Tidy(q, u, Dead)
    OBVIOUS
<1>3. PICK l \in {"stay", "leave"} : pc' = [pc EXCEPT ![t] = l]
    BY DEF Rerequest, Goto
<1>4. /\ pc[t] = "rerequest" /\ AccessMutexIsFree(u) /\ kernel' = r
      /\ my' = my /\ balance' = balance /\ InCall
    BY <1>1, <1>2, Zenon DEF Rerequest
<1>5. AtUnit(t) /\ Typed /\ PlaceInv(t) /\ ListInv(t) /\ UnitsInv(lost)
    BY AtUnitIs, Zenon DEF IInv
<1>6. /\ kernel \in KernelState /\ pc \in [Tasks -> Labels]
      /\ my \in [Tasks -> Ids \cup {CU_INVALID_HANDLE}]
      /\ u \in 0 .. current_id /\ u \in Ids /\ workstatus[t] > 0
    BY <1>1, <1>4, <1>5 DEF AtUnit
<1>7. S \in SUBSET Tasks /\ t \notin S /\ S \cap Dead = {} /\ t \notin Dead
    BY <1>1, <1>4 DEF Asleep, Dead
<1>8. kernel.cui \in [Ids -> LaxUnit] /\ kernel.hwse \in [Tasks -> Entity]
    BY <1>6 DEF KernelState
<1>9. PICK c, h : c = kernel.cui[u] /\ h = kernel.hwse
    OBVIOUS
<1>10. UnitInv(c, h, S, 0, lost) /\ c \in LaxUnit
    <2>1. UnitInv(c, h, S, 0, lost)
        BY <1>1, <1>5, <1>6, <1>9, Zenon DEF UnitsInv, Cui, Hwse
    <2> QED BY <2>1, Zenon DEF UnitInv, LockInv
<1>11. PICK d : d = [c EXCEPT !.curr = t]
    OBVIOUS
<1>12. /\ d \in LaxUnit /\ d.type = c.type /\ d.online = c.online /\ d.listed = c.listed
       /\ d.count = c.count /\ d.maxcount = c.maxcount /\ d.tree = c.tree
       /\ d.nr_running = c.nr_running /\ d.tasks = c.tasks /\ d.curr = t
    BY <1>10, <1>11 DEF LaxUnit
<1>13. UnitInv(d, h, S, 0, lost) /\ t \notin ToSet(c.tree)
    <2>1. ToSet(c.tree) \subseteq S
        BY <1>10, Zenon DEF UnitInv, LockInv
    <2>2. t \notin ToSet(c.tree)
        BY <1>7, <2>1
    <2>3. Holders(d, h, S) = Holders(c, h, S)
        BY <1>12 DEF Holders
    <2>4. LockInv(d, h, S, 0, lost)
        BY <1>10, <1>12, <2>2, <2>3 DEF UnitInv, LockInv
    <2> QED BY <1>10, <1>12, <2>2, <2>4 DEF UnitInv
<1>14. q = WithUnit(kernel, u, d)
    BY <1>2, <1>9, <1>11, Zenon DEF WithUnit
<1>15. /\ q \in KernelState /\ q.hwse = h /\ q.cui[u] = d
       /\ \A v \in Ids \ {u} : q.cui[v] = kernel.cui[v]
    <2>1. UnitPut(kernel, u, d, q)
        BY <1>6, <1>12, <1>14, UnitIs, Zenon
    <2> QED BY <1>9, <2>1, Zenon DEF UnitPut
<1>16. Tidied(q, r, u, Dead, S, lost)
    <2>1. UnitInv(q.cui[u], q.hwse, S, 0, lost)
        BY <1>13, <1>15
    <2>2. Tidies(q, u, Dead, S, lost)
        BY <1>6, <1>7, <1>15, <2>1, Zenon DEF Tidies
    <2>3. Tidied(q, Tidy(q, u, Dead), u, Dead, S, lost)
        BY <2>2, TidyIs, Zenon
    <2> QED BY <1>2, <2>3
<1>17. /\ r \in KernelState /\ UnitInv(r.cui[u], r.hwse, S, 0, lost)
       /\ Within(q, r, {u}, {}, Dead)
       /\ \A v \in Ids \ {u} : r.cui[v] = q.cui[v]
       /\ r.cui[u].maxcount = q.cui[u].maxcount /\ r.cui[u].count <= q.cui[u].count
       /\ r.cui[u].online = q.cui[u].online /\ r.cui[u].tasks = q.cui[u].tasks \ Dead
       /\ r.cui[u].curr \in {q.cui[u].curr} \cup ToSet(q.cui[u].tree)
       /\ \A x \in Tasks \ ToSet(q.cui[u].tree) : r.hwse[x] = q.hwse[x]
    BY <1>16, Zenon DEF Tidied
<1>18. /\ \A v \in Ids \ {u} : r.cui[v] = kernel.cui[v]
       /\ r.cui[u].count <= c.count /\ r.cui[u].online = c.online
       /\ r.cui[u].tasks = c.tasks \ Dead
       /\ r.hwse[t] = h[t]
    BY <1>12, <1>13, <1>15, <1>17
<1>19. Within(kernel, r, {u}, {t}, Dead)
    <2>1. PICK Z, W, T : Z = {} /\ W = {u} /\ T = {t}
        OBVIOUS
    <2>2. Turns(kernel.cui[u], q.cui[u], {t}, Dead)
        BY <1>9, <1>12, <1>15 DEF Turns
    <2>3. \A x \in Tasks \ {t} : q.hwse[x] = kernel.hwse[x]
        BY <1>9, <1>15
    <2>4. Within(kernel, q, {u}, {t}, Dead)
        BY <1>6, <1>15, <2>2, <2>3, UnitWithin
    <2>5. Within(q, r, W, Z, Dead) /\ W \subseteq W /\ Z \subseteq T
        BY <1>17, <2>1
    <2>6. Within(q, r, W, T, Dead)
        BY <2>5, WithinMore, Zenon
    <2>7. W \in SUBSET Ids /\ Within(kernel, q, W, T, Dead)
        BY <1>6, <2>1, <2>4
    <2>8. Within(kernel, r, W, T, Dead)
        BY <2>6, <2>7, WithinTransitive, Zenon
    <2> QED BY <2>1, <2>8
<1>20. pc'[t] = l /\ (\A x \in Tasks \ {t} : pc'[x] = pc[x]) /\ my'[t] = u
    BY <1>1, <1>3, <1>4, <1>6
<1>21. Asleep(u)' = S
    <2>1. \A x \in Tasks : (pc'[x] = "sleep" /\ my'[x] = u) <=> (pc[x] = "sleep" /\ my[x] = u)
        BY <1>4, <1>20
    <2> QED BY <1>1, <2>1 DEF Asleep
<1>22. \A v \in Ids : t \in r.cui[v].tasks <=> t \in kernel.cui[v].tasks
    BY <1>7, <1>9, <1>18
<1>23. /\ h[t].cfs_rq \in Ids /\ t \in kernel.cui[h[t].cfs_rq].tasks
       /\ u = h[t].cfs_rq \/ (u \in Cpus /\ h[t].cfs_rq \in Cpus)
       /\ h[t].cfs_rq \in -1 .. current_id
    BY <1>1, <1>4, <1>5, <1>9 DEF PlaceInv, Cui, Hwse, Holding
<1>24. /\ current_id' = current_id /\ workstatus' = workstatus
    BY <1>4 DEF InCall
<1>25. PlaceInv(t)'
    <2>1. t \in r.cui[r.hwse[t].cfs_rq].tasks /\ r.hwse[t].cfs_rq \in Ids
        BY <1>18, <1>22, <1>23
    <2>2. l \in HolderLabels
        BY DEF HolderLabels, Holding
    <2> QED BY <1>4, <1>6, <1>18, <1>20, <1>23, <1>24, <2>1, <2>2 DEF PlaceInv, Cui, Hwse, Holding
<1>26. ListInv(t)'
    <2>1. ASSUME NEW v \in Ids, t \in r.cui[v].tasks PROVE r.hwse[t].cfs_rq = v /\ l \in HolderLabels
        <3>1. t \in kernel.cui[v].tasks
            BY <1>22, <2>1
        <3>2. h[t].cfs_rq = v
            BY <1>5, <1>9, <3>1, Zenon DEF ListInv, Cui, Hwse
        <3> QED BY <1>18, <3>2 DEF HolderLabels, Holding
    <2>2. ASSUME NEW v \in Ids \ Cpus, r.cui[v].curr = t
          PROVE  ~r.cui[v].online \/ t \in r.cui[v].tasks
        <3>1. CASE v = u
            BY <1>22, <1>23, <3>1
        <3>2. CASE v # u
            <4>1. r.cui[v] = kernel.cui[v]
                BY <1>18, <3>2
            <4>2. pc[t] \notin {"sleep", "done", "dead"}
                BY <1>4
            <4> QED BY <1>5, <2>2, <4>1, <4>2, CurrElsewhere
        <3> QED BY <3>1, <3>2
    <2> QED BY <1>4, <1>20, <2>1, <2>2, Zenon DEF ListInv, Cui, Hwse
<1>27. Fits
    <2>1. \A v \in Ids : kernel.cui[v].count \in Int
        BY <1>8 DEF LaxUnit
    <2>2. r.cui[u].count \in Int
        BY <1>6, <1>17 DEF KernelState, LaxUnit
    <2>3. \A v \in Ids : ~(r.cui[v].count > kernel.cui[v].count)
        BY <1>9, <1>18, <2>1, <2>2
    <2> QED BY <1>4, <2>3 DEF Fits
<1>28. Steps(lost, {u}, t, l)
    <2>1. Elsewhere(t)
        BY <1>4, <1>5, InCallElsewhere, Zenon
    <2>2. UnitInv(kernel'.cui[u], kernel'.hwse, Asleep(u)', 0, lost)
        BY <1>4, <1>17, <1>21
    <2>3. \A v \in Ids \ {u} : ~(pc[t] = "sleep" /\ my[t] = v) /\ ~(l = "sleep" /\ my'[t] = v)
        BY <1>4
    <2>4. pc[t] # "balancing" /\ l \in Labels /\ {u} \in SUBSET Ids
        BY <1>4, <1>6 DEF Labels
    <2>5. my' \in [Tasks -> Ids \cup {CU_INVALID_HANDLE}] /\ \A x \in Tasks \ {t} : my'[x] = my[x]
        BY <1>4, <1>6
    <2>6. Within(kernel, kernel', {u}, {t}, Dead)
        BY <1>4, <1>19
    <2>7. \A w \in {u} : /\ AccessMutexIsFree(w)
                         /\ UnitInv(kernel'.cui[w], kernel'.hwse, Asleep(w)', 0, lost)
        <3> SUFFICES ASSUME NEW w \in {u}
                     PROVE  /\ AccessMutexIsFree(w)
                            /\ UnitInv(kernel'.cui[w], kernel'.hwse, Asleep(w)', 0, lost)
            OBVIOUS
        <3>1. w = u
            OBVIOUS
        <3> QED BY <1>4, <2>2, <3>1
    <2> QED BY <1>3, <1>4, <1>25, <1>26, <2>1, <2>3, <2>4, <2>5, <2>6, <2>7, Zenon DEF Steps
<1>29. IInv(lost)'
    BY <1>28, StepIs, Zenon
<1> QED BY <1>27, <1>29

\* Thread t comes to label l in a section of a system call under the lock of unit u,
\* which takes no slot.
StepsIn(lost, u, t, l) ==
    /\ lost \in SUBSET Tasks /\ IInv(lost) /\ t \in Tasks /\ u \in Ids
    /\ l \in Labels \ {"sleep"} /\ pc' = [pc EXCEPT ![t] = l] /\ pc[t] # "balancing"
    /\ pc[t] = "sleep" => my[t] = u
    /\ my' = my /\ balance' = balance /\ Elsewhere(t) /\ AccessMutexIsFree(u)
    /\ Within(kernel, kernel', {u}, {t}, Dead)
    /\ UnitInv(kernel'.cui[u], kernel'.hwse, Asleep(u) \ {t}, 0, lost)
    /\ kernel'.cui[u].count <= kernel.cui[u].count
    /\ PlaceInv(t)' /\ ListInv(t)'

\* Such a step keeps the invariant.
LEMMA StepInIs ==
    ASSUME NEW lost, NEW u, NEW t, NEW l, StepsIn(lost, u, t, l)
    PROVE  IInv(lost)' /\ Fits
<1>1. /\ lost \in SUBSET Tasks /\ IInv(lost) /\ t \in Tasks /\ u \in Ids
      /\ l \in Labels \ {"sleep"} /\ pc' = [pc EXCEPT ![t] = l] /\ pc[t] # "balancing"
      /\ pc[t] = "sleep" => my[t] = u
      /\ my' = my /\ balance' = balance /\ Elsewhere(t) /\ AccessMutexIsFree(u)
      /\ Within(kernel, kernel', {u}, {t}, Dead)
      /\ UnitInv(kernel'.cui[u], kernel'.hwse, Asleep(u) \ {t}, 0, lost)
      /\ kernel'.cui[u].count <= kernel.cui[u].count
      /\ PlaceInv(t)' /\ ListInv(t)'
    BY Zenon DEF StepsIn
<1>2. Typed
    BY <1>1, Zenon DEF IInv
<1>3. /\ kernel \in KernelState /\ pc \in [Tasks -> Labels]
      /\ my \in [Tasks -> Ids \cup {CU_INVALID_HANDLE}]
    BY <1>2, Zenon DEF Typed
<1>4. pc'[t] = l /\ (\A x \in Tasks \ {t} : pc'[x] = pc[x])
    BY <1>1, <1>3
<1>5. Asleep(u)' = Asleep(u) \ {t}
    <2>1. \A x \in Tasks : (pc'[x] = "sleep" /\ my'[x] = u) <=> (x # t /\ pc[x] = "sleep" /\ my[x] = u)
        BY <1>1, <1>4
    <2> QED BY <2>1 DEF Asleep
<1>6. PICK k, r : k = kernel /\ r = kernel'
    OBVIOUS
<1>7. Fits
    <2>1. \A v \in Ids : k.cui[v].count \in Int
        BY <1>3, <1>6 DEF KernelState, LaxUnit
    <2>2. r \in KernelState /\ \A v \in Ids \ {u} : r.cui[v].count = k.cui[v].count
        BY <1>1, <1>6 DEF Within, SameLock
    <2>3. r.cui[u].count \in Int /\ r.cui[u].count <= k.cui[u].count
        BY <1>1, <1>6, <2>2 DEF KernelState, LaxUnit
    <2>4. \A v \in Ids : ~(r.cui[v].count > k.cui[v].count)
        BY <2>1, <2>2, <2>3
    <2> QED BY <1>6, <2>4 DEF Fits
<1>8. Steps(lost, {u}, t, l)
    <2>1. Elsewhere(t)
        BY <1>1
    <2>2. UnitInv(kernel'.cui[u], kernel'.hwse, Asleep(u)', 0, lost)
        BY <1>1, <1>5
    <2>3. \A v \in Ids \ {u} : ~(pc[t] = "sleep" /\ my[t] = v) /\ ~(l = "sleep" /\ my'[t] = v)
        BY <1>1
    <2>4. l \in Labels /\ {u} \in SUBSET Ids
        BY <1>1
    <2>5. my' \in [Tasks -> Ids \cup {CU_INVALID_HANDLE}] /\ \A x \in Tasks \ {t} : my'[x] = my[x]
        BY <1>1, <1>3
    <2>6. \A w \in {u} : /\ AccessMutexIsFree(w)
                         /\ UnitInv(kernel'.cui[w], kernel'.hwse, Asleep(w)', 0, lost)
        <3> SUFFICES ASSUME NEW w \in {u}
                     PROVE  /\ AccessMutexIsFree(w)
                            /\ UnitInv(kernel'.cui[w], kernel'.hwse, Asleep(w)', 0, lost)
            OBVIOUS
        <3>1. w = u
            OBVIOUS
        <3> QED BY <1>1, <2>2, <3>1
    <2>7. UNCHANGED balance
        BY <1>1
    <2> QED BY <1>1, <2>1, <2>3, <2>4, <2>5, <2>6, <2>7, Zenon DEF Steps
<1>9. IInv(lost)'
    BY <1>8, StepIs, Zenon
<1> QED BY <1>7, <1>9

\* A thread gives its slot back, and is in no list of holders any more.
Leaves(c, h, S, lost, t, g, d) ==
    /\ c \in LaxUnit /\ S \in SUBSET Tasks /\ t \in Tasks /\ t \in c.tasks
    /\ UnitInv(c, h, S, 0, lost) /\ \A x \in S : g[x] = h[x]
    /\ d = [[c EXCEPT !.tasks = @ \ {t}] EXCEPT !.curr = NoTask]

Left(c, S, lost, t, g, d) ==
    /\ UnitInv(d, g, S, 0 + 1, lost) /\ d \in LaxUnit
    /\ d.type = c.type /\ d.online = c.online /\ d.listed = c.listed
    /\ d.maxcount = c.maxcount /\ d.tasks = c.tasks \ {t} /\ d.curr = NoTask
    /\ d.count = c.count /\ d.tree = c.tree

\* Its slot is counted, and nobody holds it.
LEMMA LeavesIs ==
    ASSUME NEW c, NEW h, NEW S, NEW lost, NEW t, NEW g, NEW d,
           Leaves(c, h, S, lost, t, g, d)
    PROVE  Left(c, S, lost, t, g, d)
<1>0. /\ c \in LaxUnit /\ S \in SUBSET Tasks /\ t \in Tasks /\ t \in c.tasks
      /\ UnitInv(c, h, S, 0, lost) /\ \A x \in S : g[x] = h[x]
      /\ d = [[c EXCEPT !.tasks = @ \ {t}] EXCEPT !.curr = NoTask]
    BY Zenon DEF Leaves
<1>1. PICK z \in SUBSET Tasks : z = c.tasks \ {t}
    BY <1>0 DEF LaxUnit
<1>2. PICK e : e = [c EXCEPT !.tasks = z]
    OBVIOUS
<1>3. /\ e \in LaxUnit /\ e.type = c.type /\ e.online = c.online /\ e.listed = c.listed
      /\ e.maxcount = c.maxcount /\ e.tasks = z /\ e.curr = c.curr
      /\ e.count = c.count /\ e.tree = c.tree /\ e.nr_running = c.nr_running
    BY <1>0, <1>2 DEF LaxUnit
<1>4. d = [e EXCEPT !.curr = NoTask]
    BY <1>0, <1>1, <1>2, Zenon
<1>5. /\ d \in LaxUnit /\ d.type = e.type /\ d.online = e.online /\ d.listed = e.listed
      /\ d.maxcount = e.maxcount /\ d.tasks = e.tasks /\ d.curr = NoTask
      /\ d.count = e.count /\ d.tree = e.tree /\ d.nr_running = e.nr_running
    BY <1>3, <1>4 DEF LaxUnit
<1>6. /\ Injective(c.tree) /\ ToSet(c.tree) \subseteq S
      /\ \A x \in ToSet(c.tree) : ~h[x].semaphore_up /\ ~h[x].need_migrate
      /\ c.tasks \cap S = {}
      /\ c.count = Cardinality(Holders(c, h, S)) + 0
      /\ \A x \in S : ~(h[x].semaphore_up /\ h[x].need_migrate)
      /\ c.tree # <<>> => c.count >= c.maxcount
    BY <1>0, Zenon DEF UnitInv, LockInv
<1>7. /\ lost = {} => c.nr_running = Len(c.tree)
      /\ \A x \in S \ ToSet(c.tree) : h[x].semaphore_up \/ h[x].need_migrate \/ x \in lost
    BY <1>0, Zenon DEF UnitInv, LockInv
<1>8. PICK H, G : H = Holders(c, h, S) /\ G = Holders(d, g, S)
    OBVIOUS
<1>9. IsFiniteSet(H) /\ Cardinality(H) \in Nat /\ t \in H
    <2>1. t \in H
        BY <1>0, <1>8 DEF Holders
    <2> QED BY <1>0, <1>8, <2>1, HoldersFinite, Zenon
<1>10. G = H \ {t}
    <2>1. t \notin S
        BY <1>0, <1>6
    <2> QED BY <1>0, <1>1, <1>3, <1>5, <1>8, <2>1 DEF Holders
<1>11. Cardinality(H) = Cardinality(G) + 1
    <2>1. Cardinality(H \ {t}) = Cardinality(H) - 1
        BY <1>9, FS_RemoveElement
    <2> QED BY <1>9, <1>10, <2>1
<1>12. d.count = Cardinality(G) + (0 + 1)
    <2>1. Cardinality(H) + 0 = Cardinality(G) + (0 + 1)
        BY <1>9, <1>11
    <2> QED BY <1>3, <1>5, <1>6, <1>8, <2>1
<1>13. /\ ToSet(d.tree) \subseteq S /\ d.tasks \cap S = {} /\ d.curr \notin ToSet(d.tree)
       /\ \A x \in ToSet(d.tree) : ~g[x].semaphore_up /\ ~g[x].need_migrate
       /\ \A x \in S : ~(g[x].semaphore_up /\ g[x].need_migrate)
       /\ Injective(d.tree)
    <2>1. d.tree = c.tree /\ d.curr = NoTask /\ d.tasks \subseteq c.tasks
        BY <1>1, <1>3, <1>5
    <2>2. NoTask \notin S
        BY <1>0, UnitsAssumption
    <2> QED BY <1>0, <1>6, <2>1, <2>2
<1>14. /\ lost = {} => d.nr_running = Len(d.tree)
       /\ \A x \in S \ ToSet(d.tree) : g[x].semaphore_up \/ g[x].need_migrate \/ x \in lost
    <2>1. d.tree = c.tree /\ d.nr_running = c.nr_running
        BY <1>3, <1>5
    <2> QED BY <1>0, <1>7, <2>1
<1>15. LockInv(d, g, S, 0 + 1, lost)
    BY <1>5, <1>8, <1>12, <1>13, <1>14, Zenon DEF LockInv
<1>16. UnitInv(d, g, S, 0 + 1, lost)
    <2>1. d.tree # <<>> => d.count >= d.maxcount
        BY <1>3, <1>5, <1>6
    <2> QED BY <1>15, <2>1, Zenon DEF UnitInv
<1> QED BY <1>1, <1>3, <1>5, <1>16 DEF Left

\* Who is not in a list need not leave it.
LEMMA NotInList ==
    ASSUME NEW c \in LaxUnit, NEW t, t \notin c.tasks
    PROVE  [c EXCEPT !.tasks = @ \ {t}] = c
<1>1. c.tasks \ {t} = c.tasks
    OBVIOUS
<1>2. PICK z \in SUBSET Tasks : z = c.tasks
    BY DEF LaxUnit
<1>3. [c EXCEPT !.tasks = z] = c
    BY <1>2 DEF LaxUnit
<1>4. [c EXCEPT !.tasks = @ \ {t}] = [c EXCEPT !.tasks = z]
    BY <1>1, <1>2, Zenon
<1> QED BY <1>3, <1>4

\* list_del_init for a thread that only unit u may have in its list.
LEMMA LeaveListIs ==
    ASSUME NEW x \in [Ids -> LaxUnit], NEW u \in Ids, NEW t \in Tasks,
           \A v \in Ids \ {u} : t \notin x[v].tasks,
           NEW d, d = [x[u] EXCEPT !.tasks = @ \ {t}]
    PROVE  LeaveList(x, t) = [x EXCEPT ![u] = d]
<1>1. PICK y : y = [v \in Ids |-> [x[v] EXCEPT !.tasks = @ \ {t}]]
    OBVIOUS
<1>2. LeaveList(x, t) = y
    BY <1>1, Zenon DEF LeaveList
<1>3. \A v \in Ids : y[v] = [x[v] EXCEPT !.tasks = @ \ {t}]
    BY <1>1, Zenon
<1>4. \A v \in Ids \ {u} : [x[v] EXCEPT !.tasks = @ \ {t}] = x[v]
    BY NotInList
<1>5. y[u] = d /\ \A v \in Ids \ {u} : y[v] = x[v]
    BY <1>3, <1>4
<1>6. y \in [Ids -> {y[v] : v \in Ids}]
    BY <1>1
<1>7. y = [x EXCEPT ![u] = d]
    BY <1>5, <1>6
<1> QED BY <1>2, <1>7

\* The section of free.
LEMMA FreeUnitKeeps ==
    ASSUME NEW lost \in SUBSET Tasks, IInv(lost), NEW t \in Tasks, FreeUnit(t), ~astray'
    PROVE  IInv(lost)' /\ Fits
<1>1. PICK u, S : u = my[t] /\ S = Asleep(u)
    OBVIOUS
<1>2. PICK q, r :
        /\ q = [kernel EXCEPT !.hwse[t].cfs_rq = CU_INVALID_HANDLE,
                              !.cui = [LeaveList(@, t) EXCEPT ![u].curr = NoTask]]
        /\ r = CuUp(q, u, Dead)
    OBVIOUS
<1>3. /\ pc[t] = "freeing" /\ AccessMutexIsFree(u) /\ kernel' = r
      /\ pc' = [pc EXCEPT ![t] = "freed"] /\ my' = my /\ balance' = balance /\ FreesSlot(t)
    BY <1>1, <1>2, Zenon DEF FreeUnit, Goto
<1>4. AtUnit(t) /\ Typed /\ PlaceInv(t) /\ ListInv(t) /\ UnitsInv(lost)
    BY AtUnitIs, Zenon DEF IInv
<1>5. /\ kernel \in KernelState /\ pc \in [Tasks -> Labels]
      /\ my \in [Tasks -> Ids \cup {CU_INVALID_HANDLE}]
      /\ u \in 0 .. current_id /\ u \in Ids /\ kernel.hwse[t] \in Entity
    BY <1>1, <1>3, <1>4 DEF AtUnit
<1>6. S \in SUBSET Tasks /\ t \notin S /\ S \cap Dead = {} /\ t \notin Dead
    BY <1>1, <1>3 DEF Asleep, Dead
<1>7. kernel.cui \in [Ids -> LaxUnit] /\ kernel.hwse \in [Tasks -> Entity]
    BY <1>5 DEF KernelState
<1>8. PICK c, h : c = kernel.cui[u] /\ h = kernel.hwse
    OBVIOUS
<1>9. UnitInv(c, h, S, 0, lost) /\ c \in LaxUnit
    <2>1. UnitInv(c, h, S, 0, lost)
        BY <1>1, <1>4, <1>5, <1>8, Zenon DEF UnitsInv, Cui, Hwse
    <2> QED BY <2>1, Zenon DEF UnitInv, LockInv
<1>10. h[t].cfs_rq = u /\ t \in c.tasks
    <2>1. my[t] = Hwse[t].cfs_rq
        BY <1>3 DEF FreesSlot
    <2> QED BY <1>1, <1>3, <1>4, <1>8, <2>1 DEF PlaceInv, Cui, Hwse, Holding
<1>11. \A v \in Ids \ {u} : t \notin kernel.cui[v].tasks
    BY <1>4, <1>8, <1>10 DEF ListInv, Cui, Hwse
<1>12. PICK b : b = [c EXCEPT !.tasks = @ \ {t}]
    OBVIOUS
<1>13. PICK d : d = [b EXCEPT !.curr = NoTask]
    OBVIOUS
<1>14. PICK e : e = [h[t] EXCEPT !.cfs_rq = CU_INVALID_HANDLE]
    OBVIOUS
<1>15. /\ e \in Entity /\ e.cfs_rq = CU_INVALID_HANDLE
    BY <1>5, <1>8, <1>14 DEF Entity
<1>16. PICK p : p = WithEntity(kernel, t, e)
    OBVIOUS
<1>17. /\ p \in KernelState /\ p.cui = kernel.cui /\ p.hwse[t] = e
       /\ \A x \in Tasks \ {t} : p.hwse[x] = kernel.hwse[x]
       /\ Within(kernel, p, {}, {t}, Dead)
    <2>1. EntityPut(kernel, t, e, p)
        BY <1>5, <1>15, <1>16, EntityIs, Zenon
    <2> QED BY <2>1, Zenon DEF EntityPut
<1>18. q = WithUnit(p, u, d)
    <2>1. q = [p EXCEPT !.cui = [LeaveList(@, t) EXCEPT ![u].curr = NoTask]]
        BY <1>2, <1>8, <1>14, <1>16, Zenon DEF WithEntity
    <2>2. PICK y : y = [kernel.cui EXCEPT ![u] = b]
        OBVIOUS
    <2>3. LeaveList(kernel.cui, t) = y
        <3>1. PICK x : x = kernel.cui
            OBVIOUS
        <3>2. /\ x \in [Ids -> LaxUnit] /\ b = [x[u] EXCEPT !.tasks = @ \ {t}]
              /\ \A v \in Ids \ {u} : t \notin x[v].tasks
            <4>1. b = [x[u] EXCEPT !.tasks = @ \ {t}]
                BY <1>8, <1>12, <3>1, Zenon
            <4> QED BY <1>7, <1>11, <3>1, <4>1
        <3>3. LeaveList(x, t) = [x EXCEPT ![u] = b]
            <4>1. x \in [Ids -> LaxUnit]
                BY <3>2
            <4>2. b = [x[u] EXCEPT !.tasks = @ \ {t}]
                BY <3>2
            <4>3. \A v \in Ids \ {u} : t \notin x[v].tasks
                BY <3>2
            <4>4. u \in Ids
                BY <1>5
            <4> QED BY <4>1, <4>2, <4>3, <4>4, LeaveListIs
        <3> QED BY <2>2, <3>1, <3>3
    <2>4. y[u] = b
        BY <1>5, <1>7, <2>2
    <2>5. [y EXCEPT ![u].curr = NoTask] = [y EXCEPT ![u] = d]
        BY <1>13, <2>4, Zenon
    <2>6. [y EXCEPT ![u] = d] = [kernel.cui EXCEPT ![u] = d]
        BY <1>7, <2>2
    <2>7. q = [p EXCEPT !.cui = [p.cui EXCEPT ![u] = d]]
        BY <1>17, <2>1, <2>3, <2>5, <2>6, Zenon
    <2> QED BY <2>7, Zenon DEF WithUnit
<1>19. /\ UnitInv(d, p.hwse, S, 0 + 1, lost) /\ d \in LaxUnit
       /\ d.type = c.type /\ d.online = c.online /\ d.listed = c.listed
       /\ d.maxcount = c.maxcount /\ d.tasks = c.tasks \ {t} /\ d.curr = NoTask
       /\ d.count = c.count /\ d.tree = c.tree
    <2>1. PICK g : g = p.hwse
        OBVIOUS
    <2>2. \A x \in S : g[x] = h[x]
        BY <1>6, <1>8, <1>17, <2>1
    <2>3. d = [[c EXCEPT !.tasks = @ \ {t}] EXCEPT !.curr = NoTask]
        BY <1>12, <1>13
    <2>4. Leaves(c, h, S, lost, t, g, d)
        BY <1>6, <1>9, <1>10, <2>2, <2>3, Zenon DEF Leaves
    <2>5. Left(c, S, lost, t, g, d)
        BY <2>4, LeavesIs, Zenon
    <2> QED BY <2>1, <2>5, Zenon DEF Left
<1>20. /\ q \in KernelState /\ q.hwse = p.hwse /\ q.cui[u] = d
       /\ \A v \in Ids \ {u} : q.cui[v] = kernel.cui[v]
    <2>1. UnitPut(p, u, d, q)
        BY <1>5, <1>17, <1>18, <1>19, UnitIs, Zenon
    <2> QED BY <1>17, <2>1, Zenon DEF UnitPut
<1>21. Served(q, r, u, S, lost)
    <2>1. UnitInv(q.cui[u], q.hwse, S, 0 + 1, lost)
        BY <1>19, <1>20
    <2>2. Releases(q, u, Dead, S, lost)
        BY <1>5, <1>6, <1>20, <2>1, Zenon DEF Releases
    <2>3. Served(q, CuUp(q, u, Dead), u, S, lost)
        BY <2>2, CuUpIs, Zenon
    <2> QED BY <1>2, <2>3
<1>22. /\ r \in KernelState /\ UnitInv(r.cui[u], r.hwse, S, 0, lost)
       /\ Serves(q, r, u) /\ r.cui[u].count <= q.cui[u].count
    BY <1>21, Zenon DEF Served
<1>23. /\ \A v \in Ids \ {u} : r.cui[v] = kernel.cui[v]
       /\ r.cui[u].count <= c.count /\ r.cui[u].online = c.online
       /\ r.cui[u].tasks = c.tasks \ {t} /\ r.cui[u].curr # t /\ r.hwse[t] = e
    <2>1. ToSet(c.tree) \subseteq S
        BY <1>9, Zenon DEF UnitInv, LockInv
    <2>2. /\ \A v \in Ids \ {u} : r.cui[v] = q.cui[v]
          /\ r.cui[u].online = q.cui[u].online /\ r.cui[u].tasks = q.cui[u].tasks
          /\ r.cui[u].curr \in {q.cui[u].curr} \cup ToSet(q.cui[u].tree)
          /\ r.hwse[t] = q.hwse[t] \/ t \in ToSet(q.cui[u].tree)
        BY <1>22 DEF Serves
    <2>3. t \notin ToSet(q.cui[u].tree) /\ NoTask # t
        BY <1>6, <1>19, <1>20, <2>1, UnitsAssumption
    <2> QED BY <1>17, <1>19, <1>20, <1>22, <2>2, <2>3
<1>24. Within(kernel, r, {u}, {t}, Dead)
    <2>1. PICK Z, W, T : Z = {} /\ W = {u} /\ T = {t}
        OBVIOUS
    <2>2. Turns(p.cui[u], q.cui[u], {t}, Dead)
        BY <1>8, <1>17, <1>19, <1>20 DEF Turns
    <2>3. \A x \in Tasks \ {t} : q.hwse[x] = p.hwse[x]
        BY <1>20
    <2>4. Within(p, q, {u}, {t}, Dead)
        BY <1>5, <1>17, <1>20, <2>2, <2>3, UnitWithin
    <2>5. Within(kernel, p, Z, T, Dead) /\ Z \subseteq W /\ T \subseteq T
        BY <1>17, <2>1
    <2>6. Within(kernel, p, W, T, Dead)
        BY <2>5, WithinMore, Zenon
    <2>7. W \in SUBSET Ids /\ Within(p, q, W, T, Dead)
        BY <1>5, <2>1, <2>4
    <2>8. Within(kernel, q, W, T, Dead)
        BY <2>6, <2>7, WithinTransitive, Zenon
    <2>9. Within(q, r, {u}, T, Dead)
        BY <1>5, <1>20, <1>22, ServesWithin, Zenon
    <2>10. Within(q, r, W, T, Dead)
        BY <2>1, <2>9
    <2>11. Within(kernel, r, W, T, Dead)
        BY <2>7, <2>8, <2>10, WithinTransitive, Zenon
    <2> QED BY <2>1, <2>11
<1>25. /\ pc'[t] = "freed" /\ my'[t] = u
       /\ current_id' = current_id /\ workstatus' = workstatus
    BY <1>1, <1>3, <1>5 DEF FreesSlot
<1>26. PlaceInv(t)'
    <2>1. r.hwse[t].cfs_rq = -1 /\ current_id \in Nat
        BY <1>4, <1>15, <1>23, IdBelow DEF CU_INVALID_HANDLE
    <2>2. r.hwse[t].cfs_rq \in -1 .. current_id
        BY <2>1
    <2>3. r.hwse[t].cfs_rq \notin Cpus
        BY <2>1, UnitsAssumption DEF Ids
    <2> QED BY <1>3, <1>5, <1>25, <2>2, <2>3 DEF PlaceInv, Cui, Hwse, Holding
<1>27. ListInv(t)'
    <2>1. \A v \in Ids : t \notin r.cui[v].tasks
        BY <1>11, <1>23
    <2>2. ASSUME NEW v \in Ids \ Cpus, r.cui[v].curr = t PROVE ~r.cui[v].online
        <3>1. v # u
            BY <1>23, <2>2
        <3>2. r.cui[v] = kernel.cui[v] /\ t \notin kernel.cui[v].tasks
            BY <1>11, <1>23, <3>1
        <3>3. pc[t] \notin {"sleep", "done", "dead"}
            BY <1>3
        <3> QED BY <1>4, <2>2, <3>2, <3>3, CurrElsewhere
    <2> QED BY <1>3, <2>1, <2>2, Zenon DEF ListInv, Cui, Hwse
<1>28. StepsIn(lost, u, t, "freed")
    <2>1. "freed" \in Labels \ {"sleep"} /\ pc[t] # "balancing" /\ (pc[t] = "sleep" => my[t] = u)
        BY <1>1, <1>3 DEF Labels
    <2>2. S = Asleep(u) \ {t}
        BY <1>1, <1>6
    <2>3. UnitInv(kernel'.cui[u], kernel'.hwse, Asleep(u) \ {t}, 0, lost)
        BY <1>3, <1>22, <2>2
    <2>4. Within(kernel, kernel', {u}, {t}, Dead) /\ kernel'.cui[u].count <= kernel.cui[u].count
        BY <1>3, <1>8, <1>23, <1>24
    <2>5. Elsewhere(t)
        BY <1>3, <1>4 DEF FreesSlot, Typed, Elsewhere
    <2> QED BY <1>3, <1>5, <1>26, <1>27, <2>1, <2>3, <2>4, <2>5, Zenon DEF StepsIn
<1> QED BY <1>28, StepInIs, Zenon

\* The lock of a unit after thread t has left its tree without a slot: it sleeps no
\* more, or is told to migrate (the threads R sleep afterwards).
Unqueues(c, h, S, t, d, g, R, lost) ==
    /\ c \in LaxUnit /\ S \in SUBSET Tasks /\ UnitInv(c, h, S, 0, lost)
    /\ t \in S /\ ~h[t].semaphore_up
    /\ lost = {} => t \in ToSet(c.tree)
    /\ d = Dequeue(c, t)
    /\ S \ {t} \subseteq R /\ R \subseteq S
    /\ t \in R => g[t].need_migrate /\ ~g[t].semaphore_up
    /\ \A x \in S \ {t} : g[x] = h[x]

Unqueued(c, d, R, t, g, lost) ==
    /\ UnitInv(d, g, R, 0, lost) /\ d \in LaxUnit
    /\ d.type = c.type /\ d.online = c.online /\ d.listed = c.listed
    /\ d.maxcount = c.maxcount /\ d.tasks = c.tasks /\ d.curr = c.curr
    /\ d.count = c.count /\ ToSet(d.tree) = ToSet(c.tree) \ {t}

\* The lock is intact.
LEMMA UnqueuedIs ==
    ASSUME NEW c, NEW h, NEW S, NEW t, NEW d, NEW g, NEW R, NEW lost,
           Unqueues(c, h, S, t, d, g, R, lost)
    PROVE  Unqueued(c, d, R, t, g, lost)
<1>1. /\ c \in LaxUnit /\ S \in SUBSET Tasks /\ UnitInv(c, h, S, 0, lost)
      /\ t \in S /\ ~h[t].semaphore_up
      /\ lost = {} => t \in ToSet(c.tree)
      /\ d = Dequeue(c, t)
      /\ S \ {t} \subseteq R /\ R \subseteq S
      /\ t \in R => g[t].need_migrate /\ ~g[t].semaphore_up
      /\ \A x \in S \ {t} : g[x] = h[x]
    BY Zenon DEF Unqueues
<1>2. /\ Injective(c.tree) /\ ToSet(c.tree) \subseteq S
      /\ \A x \in ToSet(c.tree) : ~h[x].semaphore_up /\ ~h[x].need_migrate
      /\ c.curr \notin ToSet(c.tree)
      /\ c.tasks \cap S = {}
      /\ c.count = Cardinality(Holders(c, h, S)) + 0
      /\ \A x \in S : ~(h[x].semaphore_up /\ h[x].need_migrate)
      /\ c.tree # <<>> => c.count >= c.maxcount
    BY <1>1, Zenon DEF UnitInv, LockInv
<1>3. /\ lost = {} => c.nr_running = Len(c.tree)
      /\ \A x \in S \ ToSet(c.tree) : h[x].semaphore_up \/ h[x].need_migrate \/ x \in lost
    BY <1>1, Zenon DEF UnitInv, LockInv
<1>4. PICK a : a = c.tree
    OBVIOUS
<1>5. a \in Seq(Tasks) /\ Injective(a) /\ t \in Tasks
    BY <1>1, <1>2, <1>4 DEF LaxUnit
<1>6. PICK s : s = IF t = c.curr THEN a ELSE RemoveFirst(a, t)
    OBVIOUS
<1>8. /\ s \in Seq(Tasks) /\ Injective(s) /\ ToSet(s) = ToSet(a) \ {t}
      /\ lost = {} => Len(s) = Len(a) - 1
      /\ a = <<>> => s = <<>>
    <2>1. CASE t \in ToSet(a)
        <3>1. s = RemoveFirst(a, t)
            BY <1>2, <1>4, <1>6, <2>1
        <3>2. /\ s \in Seq(Tasks) /\ Injective(s) /\ Len(s) = Len(a) - 1
              /\ ToSet(s) = ToSet(a) \ {t}
            BY <1>5, <2>1, <3>1, RemovedIs, Zenon
        <3>3. a # <<>>
            BY <1>5, <2>1, SeqFacts
        <3> QED BY <3>2, <3>3
    <2>2. CASE t \notin ToSet(a)
        <3>1. ~(\E i \in 1 .. Len(a) : a[i] = t)
            BY <1>5, <2>2, SeqFacts
        <3>2. RemoveFirst(a, t) = a
            BY <3>1, Zenon DEF RemoveFirst
        <3> QED BY <1>1, <1>4, <1>5, <1>6, <2>2, <3>2
    <2> QED BY <2>1, <2>2
<1>9. Requeued(c, d, c.count, s, c.nr_running - 1)
    <2>1. s = IF t = c.curr THEN c.tree ELSE RemoveFirst(c.tree, t)
        BY <1>4, <1>6
    <2> QED BY <1>1, <1>5, <1>8, <2>1, DequeueIs, Zenon
<1>10. /\ d \in LaxUnit /\ d.type = c.type /\ d.online = c.online /\ d.listed = c.listed
       /\ d.maxcount = c.maxcount /\ d.tasks = c.tasks /\ d.curr = c.curr
       /\ d.count = c.count /\ d.tree = s /\ d.nr_running = c.nr_running - 1
    BY <1>9, Zenon DEF Requeued
<1>11. Holders(d, g, R) = Holders(c, h, S)
    <2>1. ASSUME NEW x
          PROVE  (x \in R /\ g[x].semaphore_up) <=> (x \in S /\ h[x].semaphore_up)
        <3>1. CASE x = t
            BY <1>1, <3>1
        <3>2. CASE x # t
            BY <1>1, <3>2
        <3> QED BY <3>1, <3>2
    <2> QED BY <1>10, <2>1 DEF Holders
<1>12. d.count = Cardinality(Holders(d, g, R)) + 0
    BY <1>2, <1>10, <1>11
<1>13. /\ ToSet(d.tree) \subseteq R /\ d.tasks \cap R = {} /\ d.curr \notin ToSet(d.tree)
       /\ \A x \in ToSet(d.tree) : ~g[x].semaphore_up /\ ~g[x].need_migrate
       /\ \A x \in R : ~(g[x].semaphore_up /\ g[x].need_migrate)
    BY <1>1, <1>2, <1>4, <1>8, <1>10
<1>14. /\ lost = {} => d.nr_running = Len(d.tree)
       /\ \A x \in R \ ToSet(d.tree) : g[x].semaphore_up \/ g[x].need_migrate \/ x \in lost
    <2>1. lost = {} => d.nr_running = Len(d.tree)
        BY <1>3, <1>4, <1>8, <1>10
    <2>2. \A x \in R \ ToSet(d.tree) :
            x = t \/ (x \in S \ ToSet(c.tree) /\ g[x] = h[x])
        BY <1>1, <1>4, <1>8, <1>10
    <2> QED BY <1>1, <1>3, <2>1, <2>2
<1>15. LockInv(d, g, R, 0, lost)
    BY <1>8, <1>10, <1>12, <1>13, <1>14 DEF LockInv
<1>16. UnitInv(d, g, R, 0, lost)
    <2>1. d.tree # <<>> => d.count >= d.maxcount
        BY <1>2, <1>4, <1>8, <1>10
    <2> QED BY <1>15, <2>1, Zenon DEF UnitInv
<1> QED BY <1>4, <1>8, <1>10, <1>16 DEF Unqueued

\* A signal wakes a sleeper.
LEMMA InterruptedKeeps ==
    ASSUME NEW lost \in SUBSET Tasks, IInv(lost), NEW t \in Tasks, Interrupted(t)
    PROVE  IInv(lost)' /\ Fits
<1>1. PICK u, S : u = my[t] /\ S = Asleep(u)
    OBVIOUS
<1>2. PICK d, r : d = Dequeue(kernel.cui[u], t) /\ r = [kernel EXCEPT !.cui[u] = Dequeue(@, t)]
    OBVIOUS
<1>3. /\ pc[t] = "sleep" /\ ~kernel.hwse[t].need_migrate /\ ~kernel.hwse[t].semaphore_up
      /\ AccessMutexIsFree(u) /\ kernel' = r
      /\ pc' = [pc EXCEPT ![t] = "done"] /\ my' = my /\ balance' = balance /\ InCall
    BY <1>1, <1>2, Zenon DEF Interrupted, Goto, Hwse
<1>4. AtUnit(t) /\ Typed /\ PlaceInv(t) /\ ListInv(t) /\ UnitsInv(lost)
    BY AtUnitIs, Zenon DEF IInv
<1>5. /\ kernel \in KernelState /\ pc \in [Tasks -> Labels]
      /\ my \in [Tasks -> Ids \cup {CU_INVALID_HANDLE}]
      /\ u \in 0 .. current_id /\ u \in Ids
    BY <1>1, <1>3, <1>4 DEF AtUnit
<1>6. S \in SUBSET Tasks /\ t \in S
    BY <1>1, <1>3 DEF Asleep
<1>7. PICK c, h : c = kernel.cui[u] /\ h = kernel.hwse
    OBVIOUS
<1>8. UnitInv(c, h, S, 0, lost) /\ c \in LaxUnit
    <2>1. UnitInv(c, h, S, 0, lost)
        BY <1>1, <1>4, <1>5, <1>7, Zenon DEF UnitsInv, Cui, Hwse
    <2> QED BY <2>1, Zenon DEF UnitInv, LockInv
<1>9. lost = {} => t \in ToSet(c.tree)
    <2>1. \A x \in S \ ToSet(c.tree) : h[x].semaphore_up \/ h[x].need_migrate \/ x \in lost
        BY <1>8, Zenon DEF UnitInv, LockInv
    <2> QED BY <1>3, <1>6, <1>7, <2>1
<1>10. PICK R : R = S \ {t}
    OBVIOUS
<1>11. Unqueued(c, d, R, t, h, lost)
    <2>1. /\ ~h[t].semaphore_up /\ d = Dequeue(c, t) /\ S \ {t} \subseteq R /\ R \subseteq S
          /\ t \notin R
        BY <1>2, <1>3, <1>7, <1>10
    <2>2. t \in R => h[t].need_migrate /\ ~h[t].semaphore_up
        BY <2>1
    <2>3. \A x \in S \ {t} : h[x] = h[x]
        OBVIOUS
    <2>4. Unqueues(c, h, S, t, d, h, R, lost)
        BY <1>6, <1>8, <1>9, <2>1, <2>2, <2>3, Zenon DEF Unqueues
    <2> QED BY <2>4, UnqueuedIs, Zenon
<1>12. /\ UnitInv(d, h, R, 0, lost) /\ d \in LaxUnit
       /\ d.type = c.type /\ d.online = c.online /\ d.listed = c.listed
       /\ d.maxcount = c.maxcount /\ d.tasks = c.tasks /\ d.curr = c.curr
       /\ d.count = c.count /\ ToSet(d.tree) = ToSet(c.tree) \ {t}
    BY <1>11, Zenon DEF Unqueued
<1>13. /\ r \in KernelState /\ r.hwse = h /\ r.cui[u] = d
       /\ \A v \in Ids \ {u} : r.cui[v] = kernel.cui[v]
    <2>1. r = WithUnit(kernel, u, d)
        BY <1>2, Zenon DEF WithUnit
    <2>2. UnitPut(kernel, u, d, r)
        BY <1>5, <1>12, <2>1, UnitIs, Zenon
    <2> QED BY <1>7, <2>2, Zenon DEF UnitPut
<1>14. Within(kernel, r, {u}, {t}, Dead)
    <2>1. Turns(kernel.cui[u], r.cui[u], {t}, Dead)
        BY <1>7, <1>12, <1>13 DEF Turns
    <2>2. \A x \in Tasks \ {t} : r.hwse[x] = kernel.hwse[x]
        BY <1>7, <1>13
    <2> QED BY <1>5, <1>13, <2>1, <2>2, UnitWithin
<1>15. /\ pc'[t] = "done" /\ my'[t] = u
       /\ current_id' = current_id /\ workstatus' = workstatus
    BY <1>1, <1>3, <1>5 DEF InCall
<1>16. /\ h[t].cfs_rq \in -1 .. current_id /\ h[t].cfs_rq \notin Cpus
    <2>1. h[t].cfs_rq \in -1 .. current_id /\ (h[t].cfs_rq \in Cpus => pc[t] \in HolderLabels)
        BY <1>4, <1>7, Zenon DEF PlaceInv, Hwse
    <2>2. pc[t] \notin HolderLabels
        BY <1>3 DEF HolderLabels, Holding
    <2> QED BY <2>1, <2>2
<1>17. PlaceInv(t)'
    BY <1>3, <1>5, <1>13, <1>15, <1>16 DEF PlaceInv, Cui, Hwse, Holding
<1>18. ListInv(t)'
    <2>1. \A v \in Ids : t \notin r.cui[v].tasks
        <3>1. \A v \in Ids : t \in kernel.cui[v].tasks => pc[t] \in HolderLabels
            BY <1>4, Zenon DEF ListInv, Cui, Hwse
        <3>2. \A v \in Ids : r.cui[v].tasks = kernel.cui[v].tasks
            BY <1>7, <1>12, <1>13
        <3> QED BY <1>3, <3>1, <3>2 DEF HolderLabels, Holding
    <2>2. pc'[t] \in {"done", "dead"}
        BY <1>15
    <2> QED BY <1>3, <2>1, <2>2, Zenon DEF ListInv, Cui, Hwse
<1>19. StepsIn(lost, u, t, "done")
    <2>1. "done" \in Labels \ {"sleep"} /\ pc[t] # "balancing" /\ (pc[t] = "sleep" => my[t] = u)
        BY <1>1, <1>3 DEF Labels
    <2>2. UnitInv(kernel'.cui[u], kernel'.hwse, Asleep(u) \ {t}, 0, lost)
        BY <1>1, <1>3, <1>10, <1>12, <1>13
    <2>3. Within(kernel, kernel', {u}, {t}, Dead)
        BY <1>3, <1>14
    <2>4. kernel'.cui[u].count <= kernel.cui[u].count
        <3>1. c.count \in Int
            BY <1>8 DEF LaxUnit
        <3> QED BY <1>3, <1>7, <1>12, <1>13, <3>1
    <2>5. Elsewhere(t)
        BY <1>3, <1>4, InCallElsewhere, Zenon
    <2> QED BY <1>3, <1>5, <1>17, <1>18, <2>1, <2>2, <2>3, <2>4, <2>5, Zenon DEF StepsIn
<1> QED BY <1>19, StepInIs, Zenon

-----------------------------------------------------------------------------
(* Load balancing.                                                         *)

\* The state of a balancing that begins.
LEMMA StartTyped ==
    ASSUME NEW cui \in [Ids -> LaxUnit], NEW by \in Tasks \cup {Admin}, NEW u \in Ids
    PROVE  /\ StartBalance(by, u, cui) \in BalanceState
           /\ StartBalance(by, u, cui).by = by
           /\ StartBalance(by, u, cui).pass = 1
           /\ StartBalance(by, u, cui).cand = NoTask
<1>1. PICK n \in Int : n = FreeSlots(cui[u]) + CU_HW_QUEUE_LIMIT
    <2>1. cui[u].count \in Int /\ cui[u].nr_running \in Int /\ cui[u].maxcount \in 0 .. UintMax
        BY DEF LaxUnit
    <2>2. cui[u].maxcount \in Int /\ CU_HW_QUEUE_LIMIT \in Int
        BY <2>1, UnitsAssumption
    <2>3. FreeSlots(cui[u]) + CU_HW_QUEUE_LIMIT \in Int
        BY <2>1, <2>2 DEF FreeSlots, NumberOfTasksOn
    <2> QED BY <2>3
<1>2. PICK U \in SUBSET Ids : U = OtherUnits(cui, u)
    BY DEF OtherUnits, ListOfCus
<1>3. StartBalance(by, u, cui) =
        [by |-> by, unit |-> u, pass |-> 1, rest |-> U,
         cand |-> NoTask, from |-> CU_INVALID_HANDLE, affinity |-> 1, load |-> 0,
         free_slots |-> n]
    BY <1>1, <1>2, Zenon DEF StartBalance
<1> QED BY <1>3 DEF BalanceState

\* The end of free: the unit is deleted, or a balancing begins.
LEMMA DeleteOrBalanceKeeps ==
    ASSUME NEW lost \in SUBSET Tasks, IInv(lost), NEW t \in Tasks, DeleteOrBalance(t)
    PROVE  IInv(lost)' /\ Fits
<1>1. PICK u : u = my[t]
    OBVIOUS
<1>2. /\ pc[t] = "balance" /\ CusMutexIsFree /\ my' = my /\ InCall
      /\ \/ /\ kernel' = TryToDel(kernel, u)
            /\ pc' = [pc EXCEPT ![t] = "user"]
            /\ balance' = balance
         \/ /\ pc' = [pc EXCEPT ![t] = "user"]
            /\ kernel' = kernel /\ balance' = balance
         \/ /\ balance' = StartBalance(t, u, Cui)
            /\ pc' = [pc EXCEPT ![t] = "balancing"]
            /\ kernel' = kernel
    BY <1>1, Zenon DEF DeleteOrBalance, Goto
<1>3. AtUnit(t) /\ Typed /\ PlaceInv(t) /\ ListInv(t)
    BY AtUnitIs, Zenon DEF IInv
<1>4. /\ kernel \in KernelState /\ pc \in [Tasks -> Labels]
      /\ my \in [Tasks -> Ids \cup {CU_INVALID_HANDLE}]
      /\ u \in 0 .. current_id /\ u \in Ids
    BY <1>1, <1>2, <1>3 DEF AtUnit
<1>5. Elsewhere(t)
    BY <1>2, <1>3, InCallElsewhere, Zenon
<1>6. ASSUME pc' = [pc EXCEPT ![t] = "user"], balance' = balance,
             kernel' = TryToDel(kernel, u) \/ kernel' = kernel
      PROVE  IInv(lost)' /\ Fits
    <2>1. Within(kernel, kernel', {}, {t}, Dead) /\ kernel'.hwse[t].cfs_rq = kernel.hwse[t].cfs_rq
        <3>1. PICK r, T : r = kernel' /\ T = {t}
            OBVIOUS
        <3>2. CASE r = TryToDel(kernel, u)
            <4>1. Within(kernel, r, {}, T, Dead) /\ r.hwse = kernel.hwse
                BY <1>4, <3>2, TryToDelIs, Zenon
            <4> QED BY <3>1, <4>1
        <3>3. CASE r = kernel
            <4>1. Within(kernel, kernel, {}, T, Dead)
                BY <1>4, NothingWithin, Zenon
            <4> QED BY <3>1, <3>3, <4>1
        <3> QED BY <1>6, <3>1, <3>2, <3>3
    <2>2. Quiet(lost, t, "user")
        BY <1>2, <1>4, <1>5, <1>6, <2>1 DEF Quiet, Labels, HolderLabels, Holding
    <2> QED BY <2>2, QuietIs, Zenon
<1>7. ASSUME balance' = StartBalance(t, u, Cui),
             pc' = [pc EXCEPT ![t] = "balancing"],
             kernel' = kernel
      PROVE  IInv(lost)' /\ Fits
    <2>1. /\ pc'[t] = "balancing" /\ pc' \in [Tasks -> Labels]
          /\ \A x \in Tasks \ {t} : pc'[x] = pc[x]
        BY <1>4, <1>7 DEF Labels
    <2>2. PICK b : b = StartBalance(t, u, Cui)
        OBVIOUS
    <2>3. b \in BalanceState /\ b.by = t /\ b.pass = 1 /\ b.cand = NoTask
        <3>1. PICK x : x = kernel.cui
            OBVIOUS
        <3>2. x \in [Ids -> LaxUnit]
            BY <1>4, <3>1 DEF KernelState
        <3>3. /\ StartBalance(t, u, x) \in BalanceState
              /\ StartBalance(t, u, x).by = t
              /\ StartBalance(t, u, x).pass = 1
              /\ StartBalance(t, u, x).cand = NoTask
            BY <1>4, <3>2, StartTyped
        <3> QED BY <2>2, <3>1, <3>3 DEF Cui
    <2>4. Typed'
        <3>1. current_id' = current_id /\ workstatus' = workstatus /\ cpu' = cpu
            BY <1>2 DEF InCall
        <3>2. balance' \in BalanceState \cup {NoBalance}
            BY <1>7, <2>2, <2>3
        <3> QED BY <1>2, <1>3, <1>7, <2>1, <3>1, <3>2, Zenon DEF Typed
    <2>5. BalanceInv'
        <3>1. balance' = b
            BY <1>7, <2>2
        <3>2. b.pass # 2
            BY <2>3
        <3> QED BY <2>1, <2>3, <3>1, <3>2 DEF BalanceInv
    <2>6. /\ my'[t] = u /\ current_id' = current_id /\ workstatus' = workstatus
        BY <1>1, <1>2 DEF InCall
    <2>7. PlaceInv(t)'
        BY <1>2, <1>3, <1>4, <1>7, <2>1, <2>6 DEF PlaceInv, Cui, Hwse, Holding, HolderLabels
    <2>8. ListInv(t)'
        <3>1. \A v \in Ids : t \notin kernel.cui[v].tasks
            BY <1>2, <1>3 DEF ListInv, Cui, HolderLabels, Holding
        <3>2. \A v \in Ids \ Cpus : kernel.cui[v].curr = t => ~kernel.cui[v].online
            <4>1. pc[t] \notin {"sleep", "done", "dead"}
                BY <1>2
            <4> QED BY <1>3, <3>1, <4>1, CurrElsewhere
        <3> QED BY <1>7, <3>1, <3>2, Zenon DEF ListInv, Cui, Hwse
    <2>9. PICK W, T : W = {} /\ T = {t}
        OBVIOUS
    <2>10. Section(lost, W, T)
        <3>1. Within(kernel, kernel', W, T, Dead)
            <4>1. Within(kernel, kernel, W, T, Dead)
                BY <1>4, NothingWithin, Zenon
            <4> QED BY <1>7, <4>1
        <3>2. \A x \in Tasks \ T :
                pc'[x] = pc[x] /\ my'[x] = my[x] /\ workstatus'[x] = workstatus[x]
            BY <1>2, <2>1, <2>6, <2>9
        <3>3. \A x \in Tasks \cap T : \A v \in Ids \ W :
                ~(pc[x] = "sleep" /\ my[x] = v) /\ ~(pc'[x] = "sleep" /\ my'[x] = v)
            BY <1>2, <2>1, <2>9
        <3>4. W \in SUBSET Ids
            BY <2>9
        <3> QED BY <2>6, <3>1, <3>2, <3>3, <3>4, Zenon DEF Section
    <2>11. /\ \A w \in W : UnitInv(kernel'.cui[w], kernel'.hwse, Asleep(w)', 0, lost)
           /\ \A x \in Tasks \cap T : PlaceInv(x)' /\ ListInv(x)'
        <3>1. \A x \in Tasks \cap T : x = t
            BY <2>9
        <3>2. \A w \in W : FALSE
            BY <2>9
        <3> QED BY <2>7, <2>8, <3>1, <3>2
    <2>12. IInv(lost)'
        BY <2>4, <2>5, <2>10, <2>11, Assembled, Zenon
    <2>13. Fits
        <3>1. \A v \in Ids : kernel.cui[v].count \in Int
            BY <1>4 DEF KernelState, LaxUnit
        <3> QED BY <1>7, <3>1 DEF Fits
    <2> QED BY <2>12, <2>13
<1> QED BY <1>2, <1>6, <1>7

\* What a step of the balancing does: it works under the locks of the units W, and
\* takes the sleeping threads T out of their trees.
Goes(b) ==
    /\ b \in BalanceState /\ b.by = balance.by
    /\ b.pass = 2 => b.cand = NoTask
    /\ b.cand # NoTask => b.from \in Ids /\ b.cand \in ToSet(kernel'.cui[b.from].tree)

Balances(lost, W, T) ==
    /\ lost \in SUBSET Tasks /\ W \in SUBSET Ids /\ T \in SUBSET Tasks /\ IInv(lost)
    /\ balance # NoBalance /\ my' = my /\ InCall
    /\ Within(kernel, kernel', W, T, Dead)
    /\ EndBalance \/ (pc' = pc /\ Goes(balance'))
    /\ \A w \in W : /\ UnitInv(kernel'.cui[w], kernel'.hwse, Asleep(w), 0, lost)
                    /\ kernel'.cui[w].count <= kernel.cui[w].count
    /\ \A x \in T : pc[x] = "sleep" /\ my[x] \in W
    /\ \A x \in T : pc'[x] = pc[x] => PlaceInv(x)' /\ ListInv(x)'

\* Such a step keeps the invariant.
LEMMA BalanceIs ==
    ASSUME NEW lost, NEW W, NEW T, Balances(lost, W, T)
    PROVE  IInv(lost)' /\ Fits
<1>1. /\ lost \in SUBSET Tasks /\ W \in SUBSET Ids /\ T \in SUBSET Tasks /\ IInv(lost)
      /\ balance # NoBalance /\ my' = my /\ InCall
      /\ Within(kernel, kernel', W, T, Dead)
      /\ EndBalance \/ (pc' = pc /\ Goes(balance'))
      /\ \A w \in W : /\ UnitInv(kernel'.cui[w], kernel'.hwse, Asleep(w), 0, lost)
                      /\ kernel'.cui[w].count <= kernel.cui[w].count
      /\ \A x \in T : pc[x] = "sleep" /\ my[x] \in W
      /\ \A x \in T : pc'[x] = pc[x] => PlaceInv(x)' /\ ListInv(x)'
    BY Zenon DEF Balances
<1>2. Typed /\ BalanceInv /\ UnitsInv(lost) /\ \A t \in Tasks : PlaceInv(t) /\ ListInv(t)
    BY <1>1, Zenon DEF IInv
<1>3. PICK k, r : k = kernel /\ r = kernel'
    OBVIOUS
<1>4. k \in KernelState /\ r \in KernelState /\ pc \in [Tasks -> Labels]
    BY <1>1, <1>2, <1>3, Zenon DEF Typed, Within
<1>5. PICK U \in SUBSET Tasks : U = {balance.by} \cap Tasks
    OBVIOUS
<1>6. \A x \in U : x = balance.by /\ x \in Tasks /\ pc[x] = "balancing"
    BY <1>1, <1>2, <1>5 DEF BalanceInv
<1>7. /\ pc' \in [Tasks -> Labels]
      /\ \A x \in Tasks \ U : pc'[x] = pc[x]
      /\ \A x \in U : pc'[x] \in {"user", "balancing"}
    <2>1. CASE pc' = pc
        BY <1>4, <1>6, <2>1
    <2>2. CASE EndBalance
        <3>1. CASE balance.by \in Tasks
            <4>1. pc' = [pc EXCEPT ![balance.by] = "user"]
                BY <2>2, <3>1 DEF EndBalance
            <4> QED BY <1>4, <1>5, <1>6, <3>1, <4>1 DEF Labels
        <3>2. CASE balance.by \notin Tasks
            <4>1. pc' = pc
                BY <2>2, <3>2 DEF EndBalance
            <4> QED BY <1>4, <1>6, <4>1
        <3> QED BY <3>1, <3>2
    <2> QED BY <1>1, <2>1, <2>2
<1>8. /\ current_id' = current_id /\ workstatus' = workstatus /\ cpu' = cpu
    BY <1>1 DEF InCall
<1>9. Typed'
    <2>1. balance' \in BalanceState \cup {NoBalance}
        BY <1>1 DEF EndBalance, Goes
    <2> QED BY <1>1, <1>2, <1>3, <1>4, <1>7, <1>8, <2>1, Zenon DEF Typed
<1>10. BalanceInv'
    <2> SUFFICES ASSUME pc' = pc, Goes(balance')
                 PROVE  BalanceInv'
        BY <1>1, Zenon DEF EndBalance, BalanceInv
    <2>1. PICK b : b = balance'
        OBVIOUS
    <2>2. /\ b.by = balance.by
          /\ b.pass = 2 => b.cand = NoTask
          /\ b.cand # NoTask => b.from \in Ids /\ b.cand \in ToSet(kernel'.cui[b.from].tree)
        BY <2>1, Zenon DEF Goes
    <2>3. balance.by \in Tasks => pc[balance.by] = "balancing"
        BY <1>1, <1>2 DEF BalanceInv
    <2> QED BY <2>1, <2>2, <2>3 DEF BalanceInv, Cui
<1>11. \A v \in Ids : Asleep(v)' = Asleep(v)
    <2> SUFFICES ASSUME NEW v \in Ids PROVE Asleep(v)' = Asleep(v)
        OBVIOUS
    <2>1. ASSUME NEW x \in Tasks PROVE pc'[x] = "sleep" <=> pc[x] = "sleep"
        BY <1>6, <1>7
    <2> QED BY <1>1, <2>1 DEF Asleep
<1>12. ASSUME NEW x \in U PROVE PlaceInv(x)' /\ ListInv(x)'
    <2>1. x \in Tasks /\ pc[x] = "balancing" /\ x \notin T
        BY <1>1, <1>6
    <2>2. PlaceInv(x) /\ ListInv(x)
        BY <1>2, <2>1
    <2>3. r.hwse[x].cfs_rq = k.hwse[x].cfs_rq
        BY <1>1, <1>3, <2>1 DEF Within
    <2>4. PlaceInv(x)'
        <3>1. /\ my[x] \in 0 .. current_id
              /\ k.hwse[x].cfs_rq \in -1 .. current_id
              /\ k.hwse[x].cfs_rq \notin Cpus
            BY <1>3, <2>1, <2>2 DEF PlaceInv, Hwse, HolderLabels, Holding
        <3>2. pc'[x] \in {"user", "balancing"}
            BY <1>7
        <3> QED BY <1>1, <1>3, <1>8, <2>3, <3>1, <3>2 DEF PlaceInv, Cui, Hwse, HolderLabels, Holding
    <2>5. \A v \in Ids : x \notin k.cui[v].tasks
        BY <1>3, <2>1, <2>2 DEF ListInv, Cui, Hwse, HolderLabels, Holding
    <2>6. \A v \in Ids : x \notin r.cui[v].tasks
        BY <1>1, <1>3, <2>1, <2>5 DEF Within
    <2>7. ASSUME NEW v \in Ids \ Cpus, r.cui[v].curr = x PROVE ~r.cui[v].online
        <3>1. ToSet(k.cui[v].tree) \subseteq Asleep(v)
            BY <1>2, <1>3, Zenon DEF UnitsInv, UnitInv, LockInv, Cui, Hwse
        <3>2. x \notin ToSet(k.cui[v].tree) /\ x # NoTask
            BY <2>1, <3>1, UnitsAssumption DEF Asleep
        <3>3. /\ r.cui[v].curr \in {k.cui[v].curr, NoTask} \cup T \cup ToSet(k.cui[v].tree)
              /\ r.cui[v].online => k.cui[v].online \/ v \in Cpus
            BY <1>1, <1>3 DEF Within
        <3>4. k.cui[v].curr = x
            BY <2>1, <2>7, <3>2, <3>3
        <3>5. pc[x] \notin {"sleep", "done", "dead"}
            BY <2>1
        <3>6. ~k.cui[v].online \/ x \in k.cui[v].tasks
            BY <1>3, <2>1, <2>2, <3>4, <3>5, CurrElsewhere
        <3> QED BY <2>5, <3>3, <3>6
    <2>8. ListInv(x)'
        BY <1>3, <2>6, <2>7, Zenon DEF ListInv, Cui, Hwse
    <2> QED BY <2>4, <2>8
<1>13. PICK V : V = T \cup U
    OBVIOUS
<1>14. Section(lost, W, V)
    <2>1. W \subseteq W /\ T \subseteq V
        BY <1>13
    <2>2. Within(kernel, kernel', W, V, Dead)
        <3>1. Within(k, r, W, T, Dead)
            BY <1>1, <1>3
        <3>2. Within(k, r, W, V, Dead)
            BY <2>1, <3>1, WithinMore, Zenon
        <3> QED BY <1>3, <3>2
    <2>3. \A x \in Tasks \ V :
            pc'[x] = pc[x] /\ my'[x] = my[x] /\ workstatus'[x] = workstatus[x]
        BY <1>1, <1>7, <1>8, <1>13
    <2>4. \A x \in Tasks \cap V : \A v \in Ids \ W :
            ~(pc[x] = "sleep" /\ my[x] = v) /\ ~(pc'[x] = "sleep" /\ my'[x] = v)
        <3>1. ASSUME NEW x \in T, NEW v \in Ids \ W PROVE my[x] # v
            BY <1>1
        <3>2. ASSUME NEW x \in U PROVE pc[x] # "sleep" /\ pc'[x] # "sleep"
            BY <1>6, <1>7
        <3> QED BY <1>1, <1>13, <3>1, <3>2
    <2> QED BY <1>1, <1>8, <2>2, <2>3, <2>4, Zenon DEF Section
<1>15. /\ \A w \in W : UnitInv(kernel'.cui[w], kernel'.hwse, Asleep(w)', 0, lost)
       /\ \A x \in Tasks \cap V : PlaceInv(x)' /\ ListInv(x)'
    <2>1. \A w \in W : UnitInv(kernel'.cui[w], kernel'.hwse, Asleep(w)', 0, lost)
        BY <1>1, <1>11
    <2>2. ASSUME NEW x \in T PROVE PlaceInv(x)' /\ ListInv(x)'
        <3>1. x \in Tasks \ U
            BY <1>1, <1>6
        <3> QED BY <1>1, <1>7, <3>1
    <2> QED BY <1>12, <1>13, <2>1, <2>2
<1>16. IInv(lost)'
    BY <1>9, <1>10, <1>14, <1>15, Assembled, Zenon
<1>17. Fits
    <2>1. \A v \in Ids : k.cui[v].count \in Int /\ r.cui[v].count \in Int
        BY <1>4 DEF KernelState, LaxUnit
    <2>2. \A v \in Ids \ W : r.cui[v].count = k.cui[v].count
        BY <1>1, <1>3 DEF Within, SameLock
    <2>3. \A w \in W : r.cui[w].count <= k.cui[w].count
        BY <1>1, <1>3
    <2>4. \A v \in Ids : ~(r.cui[v].count > k.cui[v].count)
        BY <2>1, <2>2, <2>3
    <2> QED BY <1>3, <2>4 DEF Fits
<1> QED BY <1>16, <1>17

\* The fields of a balancing after a step.
LooksAt(b, o, found, d) ==
    /\ b \in BalanceState
    /\ found.cand \in Tasks \cup {NoTask} /\ found.from \in Ids \cup {CU_INVALID_HANDLE}
    /\ found.affinity \in Int /\ found.load \in Int
    /\ d = [b EXCEPT !.rest = @ \ {o}, !.cand = found.cand, !.from = found.from,
                     !.affinity = found.affinity, !.load = found.load]

Looked(b, found, d) ==
    /\ d \in BalanceState /\ d.by = b.by /\ d.pass = b.pass
    /\ d.cand = found.cand /\ d.from = found.from

\* It remains well-formed in the first pass,
LEMMA BalanceLooks ==
    ASSUME NEW b, NEW o, NEW found, NEW d, LooksAt(b, o, found, d)
    PROVE  Looked(b, found, d)
<1>0. /\ b \in BalanceState
      /\ found.cand \in Tasks \cup {NoTask} /\ found.from \in Ids \cup {CU_INVALID_HANDLE}
      /\ found.affinity \in Int /\ found.load \in Int
    BY Zenon DEF LooksAt
<1>1. PICK R \in SUBSET Ids : R = b.rest \ {o}
    BY <1>0 DEF BalanceState
<1>2. PICK b1, b2, b3, b4 :
        /\ b1 = [b EXCEPT !.rest = @ \ {o}] /\ b2 = [b1 EXCEPT !.cand = found.cand]
        /\ b3 = [b2 EXCEPT !.from = found.from] /\ b4 = [b3 EXCEPT !.affinity = found.affinity]
    OBVIOUS
<1>3. d = [b4 EXCEPT !.load = found.load]
    BY <1>2, Zenon DEF LooksAt
<1>4. b1 = [b EXCEPT !.rest = R]
    BY <1>1, <1>2, Zenon
<1>5. PICK fc \in Tasks \cup {NoTask}, ff \in Ids \cup {CU_INVALID_HANDLE}, fa \in Int, fl \in Int :
        fc = found.cand /\ ff = found.from /\ fa = found.affinity /\ fl = found.load
    BY <1>0
<1>6. /\ b2 = [b1 EXCEPT !.cand = fc] /\ b3 = [b2 EXCEPT !.from = ff]
      /\ b4 = [b3 EXCEPT !.affinity = fa] /\ d = [b4 EXCEPT !.load = fl]
    BY <1>2, <1>3, <1>5
<1>7. b1 \in BalanceState /\ b1.by = b.by /\ b1.pass = b.pass
    BY <1>0, <1>4 DEF BalanceState
<1>8. b2 \in BalanceState /\ b2.by = b.by /\ b2.pass = b.pass /\ b2.cand = fc
    BY <1>6, <1>7 DEF BalanceState
<1>9. b3 \in BalanceState /\ b3.by = b.by /\ b3.pass = b.pass /\ b3.cand = fc /\ b3.from = ff
    BY <1>6, <1>8 DEF BalanceState
<1>10. b4 \in BalanceState /\ b4.by = b.by /\ b4.pass = b.pass /\ b4.cand = fc /\ b4.from = ff
    BY <1>6, <1>9 DEF BalanceState
<1>11. d \in BalanceState /\ d.by = b.by /\ d.pass = b.pass /\ d.cand = fc /\ d.from = ff
    BY <1>6, <1>10 DEF BalanceState
<1> QED BY <1>5, <1>11 DEF Looked

OffersAt(b, R, n, d) ==
    /\ b \in BalanceState /\ R \in SUBSET Ids /\ n \in Int
    /\ d = [b EXCEPT !.pass = 2, !.rest = R, !.cand = NoTask,
                     !.from = CU_INVALID_HANDLE, !.free_slots = n]

\* and in the second.
LEMMA BalanceOffers ==
    ASSUME NEW b, NEW R, NEW n, NEW d, OffersAt(b, R, n, d)
    PROVE  d \in BalanceState /\ d.by = b.by /\ d.cand = NoTask
<1>1. PICK b1, b2, b3, b4 :
        /\ b1 = [b EXCEPT !.pass = 2] /\ b2 = [b1 EXCEPT !.rest = R]
        /\ b3 = [b2 EXCEPT !.cand = NoTask] /\ b4 = [b3 EXCEPT !.from = CU_INVALID_HANDLE]
    OBVIOUS
<1>2. d = [b4 EXCEPT !.free_slots = n]
    BY <1>1, Zenon DEF OffersAt
<1>3. b1 \in BalanceState /\ b1.by = b.by /\ R \in SUBSET Ids /\ n \in Int
    BY <1>1 DEF BalanceState, OffersAt
<1>4. b2 \in BalanceState /\ b2.by = b.by
    BY <1>1, <1>3 DEF BalanceState
<1>5. b3 \in BalanceState /\ b3.by = b.by /\ b3.cand = NoTask
    BY <1>1, <1>4 DEF BalanceState
<1>6. b4 \in BalanceState /\ b4.by = b.by /\ b4.cand = NoTask
    BY <1>1, <1>5, ZenonT(40) DEF BalanceState
<1> QED BY <1>2, <1>3, <1>6 DEF BalanceState

\* What follows of the invariant for the balancing.
LEMMA Balancing ==
    ASSUME NEW lost, IInv(lost), balance # NoBalance
    PROVE  /\ kernel \in KernelState /\ balance \in BalanceState
           /\ balance.pass = 2 => balance.cand = NoTask
           /\ balance.cand # NoTask =>
                balance.from \in Ids /\ balance.cand \in ToSet(kernel.cui[balance.from].tree)
BY Zenon DEF IInv, Typed, BalanceInv, Cui

\* The first pass looks at who waits for the next unit.
LEMMA LookAtWaitingKeeps ==
    ASSUME NEW lost \in SUBSET Tasks, IInv(lost), LookAtWaiting
    PROVE  IInv(lost)' /\ Fits
<1>1. PICK b, x : b = balance /\ x = kernel.cui
    OBVIOUS
<1>2. PICK o : o = NextCu(x, b.rest)
    OBVIOUS
<1>3. PICK best : best = [cand |-> b.cand, from |-> b.from,
                          affinity |-> b.affinity, load |-> b.load]
    OBVIOUS
<1>4. PICK found : found = ScanWaiting(x, b.unit, o, best)
    OBVIOUS
<1>5. /\ balance # NoBalance /\ b.pass = 1 /\ b.rest # {}
      /\ balance' = [b EXCEPT !.rest = @ \ {o}, !.cand = found.cand, !.from = found.from,
                              !.affinity = found.affinity, !.load = found.load]
      /\ kernel' = kernel /\ pc' = pc /\ my' = my /\ InCall
    BY <1>1, <1>2, <1>3, <1>4, Zenon DEF LookAtWaiting, Cui
<1>6. /\ kernel \in KernelState /\ b \in BalanceState /\ x \in [Ids -> LaxUnit]
      /\ b.cand # NoTask => b.from \in Ids /\ b.cand \in ToSet(x[b.from].tree)
    BY <1>1, <1>5, Balancing DEF KernelState
<1>7. /\ b.rest \in SUBSET Ids /\ b.unit \in Ids
      /\ b.cand \in Tasks \cup {NoTask} /\ b.from \in Ids \cup {CU_INVALID_HANDLE}
      /\ b.affinity \in Int /\ b.load \in Int
    BY <1>6 DEF BalanceState
<1>8. o \in Ids
    <2>1. PICK R : R = b.rest
        OBVIOUS
    <2>2. NextCu(x, R) \in R
        BY <1>5, <1>6, <1>7, <2>1, NextCuIs
    <2> QED BY <1>2, <1>7, <2>1, <2>2
<1>9. /\ found.cand \in Tasks \cup {NoTask} /\ found.from \in Ids \cup {CU_INVALID_HANDLE}
      /\ found.affinity \in Int /\ found.load \in Int
      /\ found.cand # NoTask => found.from \in Ids /\ found.cand \in ToSet(x[found.from].tree)
    <2>1. \/ found = best
          \/ \E t \in ToSet(x[o].tree), a \in Int, l \in Int :
                found = [cand |-> t, from |-> o, affinity |-> a, load |-> l]
        <3>1. PICK u : u = b.unit
            OBVIOUS
        <3>2. \/ ScanWaiting(x, u, o, best) = best
              \/ \E t \in ToSet(x[o].tree), a \in Int, l \in Int :
                    ScanWaiting(x, u, o, best) =
                        [cand |-> t, from |-> o, affinity |-> a, load |-> l]
            BY <1>6, <1>7, <1>8, <3>1, ScanIs
        <3> QED BY <1>4, <3>1, <3>2
    <2>2. CASE found = best
        BY <1>3, <1>6, <1>7, <2>2
    <2>3. CASE \E t \in ToSet(x[o].tree), a \in Int, l \in Int :
                found = [cand |-> t, from |-> o, affinity |-> a, load |-> l]
        <3>1. x[o].tree \in Seq(Tasks)
            BY <1>6, <1>8 DEF LaxUnit
        <3>2. ToSet(x[o].tree) \subseteq Tasks
            BY <3>1, SeqFacts
        <3> QED BY <1>8, <2>3, <3>2
    <2> QED BY <2>1, <2>2, <2>3
<1>12. PICK d : d = balance'
    OBVIOUS
<1>14. /\ d \in BalanceState /\ d.by = b.by /\ d.pass = b.pass
       /\ d.cand = found.cand /\ d.from = found.from
    <2>1. d = [b EXCEPT !.rest = @ \ {o}, !.cand = found.cand, !.from = found.from,
                        !.affinity = found.affinity, !.load = found.load]
        BY <1>5, <1>12
    <2>2. LooksAt(b, o, found, d)
        BY <1>6, <1>9, <2>1, Zenon DEF LooksAt
    <2>3. Looked(b, found, d)
        BY <2>2, BalanceLooks, Zenon
    <2> QED BY <2>3, Zenon DEF Looked
<1>15. Goes(balance')
    <2>1. d.pass # 2 /\ kernel'.cui = x
        BY <1>1, <1>5, <1>14
    <2>2. d.cand # NoTask => d.from \in Ids /\ d.cand \in ToSet(kernel'.cui[d.from].tree)
        BY <1>9, <1>14, <2>1
    <2>3. Goes(d)
        BY <1>1, <1>14, <2>1, <2>2, Zenon DEF Goes
    <2> QED BY <1>12, <2>3
<1>16. PICK W, T : W = {} /\ T = {}
    OBVIOUS
<1>17. Balances(lost, W, T)
    <2>1. Within(kernel, kernel, W, T, Dead)
        BY <1>6, NothingWithin, Zenon
    <2>2. Within(kernel, kernel', W, T, Dead)
        BY <1>5, <2>1
    <2>3. (\A w \in W : FALSE) /\ (\A x1 \in T : FALSE) /\ W \in SUBSET Ids /\ T \in SUBSET Tasks
        BY <1>16
    <2> QED BY <1>5, <1>15, <2>2, <2>3, Zenon DEF Balances
<1> QED BY <1>17, BalanceIs, Zenon

\* The candidate of a balancing leaves its tree and is told to migrate.
Pulling(lost, u, b, f, t) ==
    /\ lost \in SUBSET Tasks /\ IInv(lost) /\ b \in BalanceState /\ u = b.unit
    /\ f = b.from /\ f \in Ids /\ t = b.cand /\ t \in Tasks
    /\ t \in ToSet(kernel.cui[f].tree)

Pulls(lost, f, t, r) ==
    /\ Within(kernel, r, {f}, {t}, Dead)
    /\ UnitInv(r.cui[f], r.hwse, Asleep(f), 0, lost)
    /\ r.cui[f].count <= kernel.cui[f].count
    /\ pc[t] = "sleep" /\ my[t] = f
    /\ r.hwse[t].cfs_rq = kernel.hwse[t].cfs_rq
    /\ \A v \in Ids : r.cui[v].tasks = kernel.cui[v].tasks
    /\ \A v \in Ids : r.cui[v].curr = kernel.cui[v].curr
    /\ \A v \in Ids : r.cui[v].online = kernel.cui[v].online
    /\ kernel.cui[f].curr # t

\* The lock of its unit is intact.
LEMMA PulledIs ==
    ASSUME NEW lost, NEW u, NEW b, NEW f, NEW t, Pulling(lost, u, b, f, t),
           NEW r, r = Pulled(kernel, u, b)
    PROVE  Pulls(lost, f, t, r)
<1>1. /\ lost \in SUBSET Tasks /\ IInv(lost) /\ b \in BalanceState /\ u = b.unit
      /\ f = b.from /\ f \in Ids /\ t = b.cand /\ t \in Tasks
      /\ t \in ToSet(kernel.cui[f].tree)
    BY Zenon DEF Pulling
<1>2. /\ kernel \in KernelState /\ UnitsInv(lost) /\ u \in Ids
      /\ b.affinity \in Int
    BY <1>1 DEF IInv, Typed, BalanceState
<1>3. PICK c, h, S : c = kernel.cui[f] /\ h = kernel.hwse /\ S = Asleep(f)
    OBVIOUS
<1>4. UnitInv(c, h, S, 0, lost) /\ c \in LaxUnit
    <2>1. UnitInv(c, h, S, 0, lost)
        BY <1>1, <1>2, <1>3, Zenon DEF UnitsInv, Cui, Hwse
    <2> QED BY <2>1, Zenon DEF UnitInv, LockInv
<1>5. /\ ToSet(c.tree) \subseteq S /\ c.curr \notin ToSet(c.tree)
      /\ \A x \in ToSet(c.tree) : ~h[x].semaphore_up /\ ~h[x].need_migrate
    BY <1>4, Zenon DEF UnitInv, LockInv
<1>6. t \in ToSet(c.tree)
    BY <1>1, <1>3
<1>7. t \in S /\ ~h[t].semaphore_up /\ c.curr # t /\ S \in SUBSET Tasks
    BY <1>3, <1>5, <1>6 DEF Asleep
<1>8. h \in [Tasks -> Entity] /\ h[t] \in Entity /\ kernel.cui \in [Ids -> LaxUnit]
    BY <1>1, <1>2, <1>3 DEF KernelState
<1>9. PICK d : d = Dequeue(c, t)
    OBVIOUS
<1>10. PICK e1, e2, e : /\ e1 = [h[t] EXCEPT !.offerer = u]
                        /\ e2 = [e1 EXCEPT !.offered_affinity = b.affinity]
                        /\ e = [e2 EXCEPT !.need_migrate = TRUE]
    OBVIOUS
<1>11. e1 \in Entity /\ e1.cfs_rq = h[t].cfs_rq /\ e1.semaphore_up = h[t].semaphore_up
    BY <1>2, <1>8, <1>10 DEF Entity
<1>12. e2 \in Entity /\ e2.cfs_rq = h[t].cfs_rq /\ e2.semaphore_up = h[t].semaphore_up
    <2>1. PICK a \in Int : a = b.affinity
        BY <1>2
    <2>2. e2 = [e1 EXCEPT !.offered_affinity = a]
        BY <1>10, <2>1
    <2> QED BY <1>11, <2>2 DEF Entity
<1>13. e \in Entity /\ e.cfs_rq = h[t].cfs_rq /\ ~e.semaphore_up /\ e.need_migrate
    BY <1>7, <1>10, <1>12 DEF Entity
<1>14. PICK g : g = [h EXCEPT ![t] = e]
    OBVIOUS
<1>15. g[t] = e /\ \A x \in Tasks \ {t} : g[x] = h[x]
    <2>1. t \in Tasks /\ h \in [Tasks -> Entity]
        BY <1>1, <1>8
    <2> QED BY <1>14, <2>1
<1>16. Unqueued(c, d, S, t, g, lost)
    <2>1. /\ lost = {} => t \in ToSet(c.tree)
          /\ S \ {t} \subseteq S /\ S \subseteq S
          /\ t \in S => g[t].need_migrate /\ ~g[t].semaphore_up
          /\ \A x \in S \ {t} : g[x] = h[x]
        BY <1>6, <1>7, <1>13, <1>15
    <2>2. Unqueues(c, h, S, t, d, g, S, lost)
        BY <1>4, <1>7, <1>9, <2>1, Zenon DEF Unqueues
    <2> QED BY <2>2, UnqueuedIs, Zenon
<1>17. /\ UnitInv(d, g, S, 0, lost) /\ d \in LaxUnit
       /\ d.type = c.type /\ d.online = c.online /\ d.listed = c.listed
       /\ d.maxcount = c.maxcount /\ d.tasks = c.tasks /\ d.curr = c.curr
       /\ d.count = c.count /\ ToSet(d.tree) = ToSet(c.tree) \ {t}
    BY <1>16, Zenon DEF Unqueued
<1>18. PICK q, p1, p2 : /\ q = WithUnit(kernel, f, d) /\ p1 = WithEntity(q, t, e1)
                        /\ p2 = WithEntity(p1, t, e2)
    OBVIOUS
<1>19. /\ q \in KernelState /\ q.hwse = h /\ q.cui[f] = d
       /\ \A v \in Ids \ {f} : q.cui[v] = kernel.cui[v]
    <2>1. UnitPut(kernel, f, d, q)
        BY <1>1, <1>2, <1>17, <1>18, UnitIs, Zenon
    <2> QED BY <1>3, <2>1, Zenon DEF UnitPut
<1>20. EntityPut(q, t, e1, p1)
    BY <1>1, <1>11, <1>18, <1>19, EntityIs, Zenon
<1>21. EntityPut(q, t, e2, p2)
    BY <1>1, <1>12, <1>18, <1>20, EntityAgain, Zenon
<1>22. r = WithEntity(p2, t, e)
    <2>1. r = [[[[kernel EXCEPT !.cui[f] = Dequeue(@, t)]
                   EXCEPT !.hwse[t].offerer = u]
                   EXCEPT !.hwse[t].offered_affinity = b.affinity]
                   EXCEPT !.hwse[t].need_migrate = TRUE]
        BY <1>1, Zenon DEF Pulled
    <2>2. q = [kernel EXCEPT !.cui[f] = Dequeue(@, t)]
        BY <1>3, <1>9, <1>18, Zenon DEF WithUnit
    <2>3. p1 = [q EXCEPT !.hwse[t].offerer = u]
        BY <1>10, <1>18, <1>19, Zenon DEF WithEntity
    <2>4. p1.hwse[t] = e1 /\ p2.hwse[t] = e2
        BY <1>20, <1>21, Zenon DEF EntityPut
    <2>5. p2 = [p1 EXCEPT !.hwse[t].offered_affinity = b.affinity]
        BY <1>10, <1>18, <2>4, Zenon DEF WithEntity
    <2>6. r = [p2 EXCEPT !.hwse[t].need_migrate = TRUE]
        BY <2>1, <2>2, <2>3, <2>5, Zenon
    <2> QED BY <1>10, <2>4, <2>6, Zenon DEF WithEntity
<1>23. /\ r \in KernelState /\ r.cui = q.cui /\ r.hwse[t] = e
       /\ \A x \in Tasks \ {t} : r.hwse[x] = h[x]
    <2>1. EntityPut(q, t, e, r)
        BY <1>1, <1>13, <1>21, <1>22, EntityAgain, Zenon
    <2> QED BY <1>19, <2>1, Zenon DEF EntityPut
<1>24. Within(kernel, r, {f}, {t}, Dead)
    <2>1. Turns(kernel.cui[f], r.cui[f], {t}, Dead)
        BY <1>3, <1>17, <1>19, <1>23 DEF Turns
    <2>2. /\ \A v \in Ids \ {f} : r.cui[v] = kernel.cui[v]
          /\ \A x \in Tasks \ {t} : r.hwse[x] = kernel.hwse[x]
        BY <1>3, <1>19, <1>23
    <2> QED BY <1>1, <1>2, <1>23, <2>1, <2>2, UnitWithin
<1>25. UnitInv(r.cui[f], r.hwse, S, 0, lost)
    <2>1. r.hwse \in [Tasks -> Entity]
        BY <1>23 DEF KernelState
    <2>2. r.hwse = g
        BY <1>8, <1>14, <1>15, <1>23, <2>1
    <2> QED BY <1>17, <1>19, <1>23, <2>2
<1>26. /\ \A v \in Ids : r.cui[v].tasks = kernel.cui[v].tasks
       /\ \A v \in Ids : r.cui[v].curr = kernel.cui[v].curr
       /\ \A v \in Ids : r.cui[v].online = kernel.cui[v].online
    BY <1>3, <1>17, <1>19, <1>23
<1>27. r.cui[f].count <= kernel.cui[f].count
    <2>1. c.count \in Int
        BY <1>4 DEF LaxUnit
    <2> QED BY <1>3, <1>17, <1>19, <1>23, <2>1
<1>28. /\ pc[t] = "sleep" /\ my[t] = f
       /\ r.hwse[t].cfs_rq = kernel.hwse[t].cfs_rq /\ kernel.cui[f].curr # t
    BY <1>3, <1>7, <1>13, <1>23 DEF Asleep
<1> QED BY <1>3, <1>24, <1>25, <1>26, <1>27, <1>28, Zenon DEF Pulls

\* The balancing goes on with offers to the threads that run.
Reversing(b, R, n, d) ==
    /\ b = balance /\ b \in BalanceState /\ R \in SUBSET Ids /\ n \in Int
    /\ d = [b EXCEPT !.pass = 2, !.rest = R, !.cand = NoTask,
                     !.from = CU_INVALID_HANDLE, !.free_slots = n]

\* The second pass begins.
LEMMA PassTwo ==
    ASSUME NEW b, NEW R, NEW n, NEW d, Reversing(b, R, n, d)
    PROVE  Goes(d)
<1>1. OffersAt(b, R, n, d)
    BY Zenon DEF Reversing, OffersAt
<1>2. d \in BalanceState /\ d.by = b.by /\ d.cand = NoTask
    BY <1>1, BalanceOffers, Zenon
<1>3. b = balance
    BY Zenon DEF Reversing
<1> QED BY <1>2, <1>3, Zenon DEF Goes

\* The end of the first pass.
LEMMA PullCandidateKeeps ==
    ASSUME NEW lost \in SUBSET Tasks, IInv(lost), PullCandidate
    PROVE  IInv(lost)' /\ Fits
<1>1. PICK b, n : /\ b = balance
                  /\ n = b.free_slots - (IF b.cand = NoTask THEN 0 ELSE 1)
    OBVIOUS
<1>2. /\ balance # NoBalance /\ b.pass = 1 /\ my' = my /\ InCall
      /\ kernel' = IF b.cand = NoTask THEN kernel ELSE Pulled(kernel, b.unit, b)
      /\ \/ EndBalance
         \/ /\ pc' = pc
            /\ balance' = [b EXCEPT !.pass = 2, !.rest = OtherUnits(kernel'.cui, b.unit),
                                !.cand = NoTask, !.from = CU_INVALID_HANDLE, !.free_slots = n]
    BY <1>1, Zenon DEF PullCandidate
<1>3. /\ kernel \in KernelState /\ b \in BalanceState
      /\ b.cand # NoTask => b.from \in Ids /\ b.cand \in ToSet(kernel.cui[b.from].tree)
    BY <1>1, <1>2, Balancing
<1>4. n \in Int /\ b.cand \in Tasks \cup {NoTask}
    BY <1>1, <1>3 DEF BalanceState
<1>5. ASSUME kernel' \in KernelState
      PROVE  EndBalance \/ (pc' = pc /\ Goes(balance'))
    <2> SUFFICES ASSUME ~EndBalance PROVE pc' = pc /\ Goes(balance')
        OBVIOUS
    <2>1. PICK R \in SUBSET Ids : R = OtherUnits(kernel'.cui, b.unit)
        BY DEF OtherUnits, ListOfCus
    <2>2. PICK d : d = balance'
        OBVIOUS
    <2>3. d = [b EXCEPT !.pass = 2, !.rest = R, !.cand = NoTask,
                        !.from = CU_INVALID_HANDLE, !.free_slots = n]
        BY <1>2, <2>1, <2>2
    <2>4. Reversing(b, R, n, d)
        BY <1>1, <1>3, <1>4, <2>3, Zenon DEF Reversing
    <2>5. Goes(d)
        BY <2>4, PassTwo, Zenon
    <2> QED BY <1>2, <2>2, <2>5
<1>6. CASE b.cand = NoTask
    <2>1. kernel' = kernel
        BY <1>2, <1>6
    <2>2. PICK W, T : W = {} /\ T = {}
        OBVIOUS
    <2>3. Balances(lost, W, T)
        <3>1. Within(kernel, kernel, W, T, Dead)
            BY <1>3, NothingWithin, Zenon
        <3>2. Within(kernel, kernel', W, T, Dead)
            BY <2>1, <3>1
        <3>3. (\A w \in W : FALSE) /\ (\A x1 \in T : FALSE) /\ W \in SUBSET Ids /\ T \in SUBSET Tasks
            BY <2>2
        <3>4. EndBalance \/ (pc' = pc /\ Goes(balance'))
            BY <1>3, <1>5, <2>1
        <3> QED BY <1>2, <3>2, <3>3, <3>4, Zenon DEF Balances
    <2> QED BY <2>3, BalanceIs, Zenon
<1>7. CASE b.cand # NoTask
    <2>1. PICK u, f, t, r : u = b.unit /\ f = b.from /\ t = b.cand /\ r = kernel'
        OBVIOUS
    <2>2. t \in Tasks /\ f \in Ids /\ t \in ToSet(kernel.cui[f].tree)
        BY <1>3, <1>4, <1>7, <2>1
    <2>3. Pulls(lost, f, t, r)
        <3>1. Pulling(lost, u, b, f, t)
            BY <1>3, <2>1, <2>2, Zenon DEF Pulling
        <3>2. r = Pulled(kernel, u, b)
            BY <1>2, <1>7, <2>1
        <3> QED BY <3>1, <3>2, PulledIs, Zenon
    <2>4. /\ Within(kernel, r, {f}, {t}, Dead)
          /\ UnitInv(r.cui[f], r.hwse, Asleep(f), 0, lost)
          /\ r.cui[f].count <= kernel.cui[f].count
          /\ pc[t] = "sleep" /\ my[t] = f
          /\ r.hwse[t].cfs_rq = kernel.hwse[t].cfs_rq
          /\ \A v \in Ids : r.cui[v].tasks = kernel.cui[v].tasks
          /\ \A v \in Ids : r.cui[v].curr = kernel.cui[v].curr
          /\ \A v \in Ids : r.cui[v].online = kernel.cui[v].online
          /\ kernel.cui[f].curr # t
        BY <2>3, Zenon DEF Pulls
    <2>5. PlaceInv(t) /\ ListInv(t)
        BY <2>2, Zenon DEF IInv
    <2>6. current_id' = current_id /\ workstatus' = workstatus
        BY <1>2 DEF InCall
    <2>7. ASSUME pc'[t] = pc[t] PROVE PlaceInv(t)' /\ ListInv(t)'
        <3>1. PlaceInv(t)'
            BY <1>2, <2>1, <2>4, <2>5, <2>6, <2>7 DEF PlaceInv, Cui, Hwse, Holding, HolderLabels
        <3>2. \A v \in Ids : t \notin kernel.cui[v].tasks
            BY <2>4, <2>5 DEF ListInv, Cui, HolderLabels, Holding
        <3>3. ASSUME NEW v \in Ids \ Cpus, kernel.cui[v].curr = t PROVE ~kernel.cui[v].online
            <4>1. t \notin Asleep(v)
                BY <2>4, <3>3 DEF Asleep
            <4> QED BY <2>4, <2>5, <3>2, <3>3, <4>1 DEF ListInv, Cui
        <3>4. \A v \in Ids : t \notin r.cui[v].tasks
            BY <2>4, <3>2
        <3>5. \A v \in Ids \ Cpus : r.cui[v].curr = t => ~r.cui[v].online
            BY <2>4, <3>3
        <3>6. ListInv(t)'
            BY <2>1, <3>4, <3>5, Zenon DEF ListInv, Cui, Hwse
        <3> QED BY <3>1, <3>6, SMTT(30)
    <2>8. PICK W, T : W = {f} /\ T = {t}
        OBVIOUS
    <2>9. Balances(lost, W, T)
        <3>1. Within(kernel, kernel', W, T, Dead)
            BY <2>1, <2>4, <2>8
        <3>2. W \in SUBSET Ids /\ T \in SUBSET Tasks
            BY <2>2, <2>8
        <3>3. \A w \in W : /\ UnitInv(kernel'.cui[w], kernel'.hwse, Asleep(w), 0, lost)
                           /\ kernel'.cui[w].count <= kernel.cui[w].count
            <4> SUFFICES ASSUME NEW w \in W
                         PROVE  /\ UnitInv(kernel'.cui[w], kernel'.hwse, Asleep(w), 0, lost)
                                /\ kernel'.cui[w].count <= kernel.cui[w].count
                OBVIOUS
            <4>1. w = f
                BY <2>8
            <4> QED BY <2>1, <2>4, <4>1
        <3>4. \A x \in T : pc[x] = "sleep" /\ my[x] \in W
            BY <2>4, <2>8
        <3>5. \A x \in T : pc'[x] = pc[x] => PlaceInv(x)' /\ ListInv(x)'
            <4> SUFFICES ASSUME NEW x \in T, pc'[x] = pc[x] PROVE PlaceInv(x)' /\ ListInv(x)'
                OBVIOUS
            <4>1. x = t
                BY <2>8
            <4> QED BY <2>7, <4>1
        <3>6. EndBalance \/ (pc' = pc /\ Goes(balance'))
            BY <1>5, <3>1 DEF Within
        <3> QED BY <1>2, <3>1, <3>2, <3>3, <3>4, <3>5, <3>6, Zenon DEF Balances
    <2> QED BY <2>9, BalanceIs, Zenon
<1> QED BY <1>6, <1>7

\* An entity gets an offer.
GetsOffer(h, u, a, e) ==
    /\ h \in Entity /\ u \in Ids /\ a \in Int
    /\ e = [h EXCEPT !.offerer = u, !.offered_affinity = a]

HasOffer(h, e) ==
    /\ e \in Entity /\ e.cfs_rq = h.cfs_rq
    /\ e.semaphore_up = h.semaphore_up /\ e.need_migrate = h.need_migrate

\* Nothing else of it changes.
LEMMA OfferedIs ==
    ASSUME NEW h, NEW u, NEW a, NEW e, GetsOffer(h, u, a, e)
    PROVE  HasOffer(h, e)
<1>0. h \in Entity /\ u \in Ids /\ a \in Int
    BY Zenon DEF GetsOffer
<1>1. PICK d : d = [h EXCEPT !.offerer = u]
    OBVIOUS
<1>2. e = [d EXCEPT !.offered_affinity = a]
    BY <1>1, Zenon DEF GetsOffer
<1>3. /\ d \in Entity /\ d.cfs_rq = h.cfs_rq
      /\ d.semaphore_up = h.semaphore_up /\ d.need_migrate = h.need_migrate
    BY <1>0, <1>1 DEF Entity
<1> QED BY <1>0, <1>2, <1>3 DEF Entity, HasOffer

\* Offers do not touch the locks of the units.
LEMMA OffersAre ==
    ASSUME NEW s \in KernelState, NEW u \in Ids, NEW o \in Ids,
           NEW r, r = MakeOffers(s, u, o), NEW T, NEW dead
    PROVE  Within(s, r, {}, T, dead)
<1>1. PICK found : found = Offered(s, u, o)
    OBVIOUS
<1>2. CASE found = {}
    <2>1. r = s
        BY <1>1, <1>2, Zenon DEF MakeOffers
    <2> QED BY <2>1, NothingWithin
<1>3. CASE found # {}
    <2>1. PICK x, h, c : x = s.cui /\ h = s.hwse /\ c = s.cui[u]
        OBVIOUS
    <2>2. x \in [Ids -> LaxUnit] /\ h \in [Tasks -> Entity] /\ c \in LaxUnit
        BY <2>1 DEF KernelState
    <2>3. PICK n : n = CU_HW_QUEUE_LIMIT - c.nr_running
        OBVIOUS
    <2>4. n \in Int
        <3>1. c.nr_running \in Int /\ CU_HW_QUEUE_LIMIT \in Int
            BY <2>2, UnitsAssumption DEF LaxUnit
        <3> QED BY <2>3, <3>1
    <2>5. PICK d : d = [c EXCEPT !.offers_outstanding = n]
        OBVIOUS
    <2>6. /\ d \in LaxUnit /\ d.type = c.type /\ d.online = c.online /\ d.listed = c.listed
          /\ d.count = c.count /\ d.maxcount = c.maxcount /\ d.tree = c.tree
          /\ d.nr_running = c.nr_running /\ d.tasks = c.tasks /\ d.curr = c.curr
        BY <2>2, <2>4, <2>5 DEF LaxUnit
    <2>7. SameLock(c, d)
        BY <2>6, Zenon DEF SameLock
    <2>8. PICK q : q = WithUnit(s, u, d)
        OBVIOUS
    <2>9. Within(s, q, {}, T, dead) /\ q.hwse = h /\ q \in KernelState
        <3>1. PutsQuietly(s, u, d, q)
            BY <2>1, <2>6, <2>7, <2>8 DEF PutsQuietly
        <3>2. Within(s, q, {}, T, dead) /\ q.hwse = s.hwse
            BY <3>1, UnitQuiet, Zenon
        <3> QED BY <2>1, <3>2, Zenon DEF Within
    <2>10. PICK g : g = [t \in Tasks |->
                            IF t \in found
                            THEN [h[t] EXCEPT !.offerer = u,
                                              !.offered_affinity = HwAffinity(x, t, u)]
                            ELSE h[t]]
        OBVIOUS
    <2>11. r = [q EXCEPT !.hwse = g]
        <3>1. q = [s EXCEPT !.cui[u].offers_outstanding =
                                CU_HW_QUEUE_LIMIT - s.cui[u].nr_running]
            BY <2>1, <2>3, <2>5, <2>8, Zenon DEF WithUnit
        <3>2. r = [q EXCEPT !.hwse =
                    [t \in Tasks |->
                        IF t \in found
                        THEN [@[t] EXCEPT !.offerer = u,
                                          !.offered_affinity = HwAffinity(s.cui, t, u)]
                        ELSE @[t]]]
            BY <1>1, <1>3, <3>1, Zenon DEF MakeOffers
        <3> QED BY <2>1, <2>9, <2>10, <3>2, Zenon
    <2>12. ASSUME NEW t \in Tasks
           PROVE  /\ g[t] \in Entity /\ g[t].cfs_rq = h[t].cfs_rq
                  /\ g[t].semaphore_up = h[t].semaphore_up
                  /\ g[t].need_migrate = h[t].need_migrate
        <3>1. CASE t \in found
            <4>1. PICK a, e : a = HwAffinity(x, t, u) /\ e = g[t]
                OBVIOUS
            <4>2. a \in Int
                BY <2>2, <4>1, AffinityIs DEF HwAffinity
            <4>3. e = [h[t] EXCEPT !.offerer = u, !.offered_affinity = a]
                BY <2>10, <3>1, <4>1, Zenon
            <4>4. h[t] \in Entity
                BY <2>2
            <4>5. GetsOffer(h[t], u, a, e)
                BY <4>2, <4>3, <4>4, Zenon DEF GetsOffer
            <4>6. HasOffer(h[t], e)
                BY <4>5, OfferedIs, Zenon
            <4> QED BY <4>1, <4>6, Zenon DEF HasOffer
        <3>2. CASE t \notin found
            <4>1. g[t] = h[t]
                BY <2>10, <3>2
            <4> QED BY <2>2, <4>1
        <3> QED BY <3>1, <3>2
    <2>13. r \in KernelState /\ r.cui = q.cui /\ r.hwse = g
        <3>1. g \in [Tasks -> Entity]
            <4>1. \E f : g = [t \in Tasks |-> f[t]]
                <5>1. g = [t \in Tasks |-> g[t]]
                    BY <2>10, Zenon
                <5> QED BY <5>1
            <4> QED BY <2>12, <4>1
        <3> QED BY <2>9, <2>11, <3>1 DEF KernelState
    <2>14. Within(q, r, {}, T, dead)
        <3>1. \A v \in Ids : r.cui[v] = q.cui[v]
            BY <2>13
        <3>2. \A t \in Tasks : /\ r.hwse[t].cfs_rq = q.hwse[t].cfs_rq
                               /\ r.hwse[t].semaphore_up = q.hwse[t].semaphore_up
                               /\ r.hwse[t].need_migrate = q.hwse[t].need_migrate
            BY <2>9, <2>12, <2>13
        <3> QED BY <2>13, <3>1, <3>2 DEF Within, SameLock
    <2>15. PICK V \in SUBSET Ids : V = {}
        OBVIOUS
    <2>16. Within(s, q, V, T, dead) /\ Within(q, r, V, T, dead)
        BY <2>9, <2>14, <2>15
    <2>17. Within(s, r, V, T, dead)
        BY <2>16, WithinTransitive, Zenon
    <2> QED BY <2>15, <2>17
<1> QED BY <1>2, <1>3

\* The second pass tidies the next unit and makes offers.
LEMMA OfferToRunningKeeps ==
    ASSUME NEW lost \in SUBSET Tasks, IInv(lost), OfferToRunning
    PROVE  IInv(lost)' /\ Fits
<1>1. PICK b, o, S : b = balance /\ o = NextCu(Cui, b.rest) /\ S = Asleep(o)
    OBVIOUS
<1>2. PICK q, r : q = Tidy(kernel, o, Dead) /\ r = MakeOffers(q, b.unit, o)
    OBVIOUS
<1>3. /\ balance # NoBalance /\ b.pass = 2 /\ b.rest # {} /\ my' = my /\ InCall
      /\ kernel' = r
      /\ \/ EndBalance
         \/ pc' = pc /\ balance' = [b EXCEPT !.rest = @ \ {o}]
    BY <1>1, <1>2, Zenon DEF OfferToRunning
<1>4. /\ kernel \in KernelState /\ b \in BalanceState /\ b.cand = NoTask
      /\ UnitsInv(lost) /\ BalanceInv
    BY <1>1, <1>3, Balancing, Zenon DEF IInv
<1>5. b.rest \in SUBSET Ids /\ b.unit \in Ids
    BY <1>4 DEF BalanceState
<1>6. o \in Ids
    <2>1. PICK R, x : R = b.rest /\ x = kernel.cui
        OBVIOUS
    <2>2. NextCu(x, R) \in R
        BY <1>3, <1>4, <1>5, <2>1, NextCuIs DEF KernelState
    <2> QED BY <1>1, <1>5, <2>1, <2>2 DEF Cui
<1>7. S \in SUBSET Tasks /\ S \cap Dead = {}
    BY <1>1 DEF Asleep, Dead
<1>8. Tidied(kernel, q, o, Dead, S, lost)
    <2>1. UnitInv(kernel.cui[o], kernel.hwse, S, 0, lost)
        BY <1>1, <1>4, <1>6, Zenon DEF UnitsInv, Cui, Hwse
    <2>2. Tidies(kernel, o, Dead, S, lost)
        BY <1>4, <1>6, <1>7, <2>1, Zenon DEF Tidies
    <2>3. Tidied(kernel, Tidy(kernel, o, Dead), o, Dead, S, lost)
        BY <2>2, TidyIs, Zenon
    <2> QED BY <1>2, <2>3
<1>9. /\ q \in KernelState /\ Within(kernel, q, {o}, {}, Dead)
      /\ UnitInv(q.cui[o], q.hwse, S, 0, lost)
      /\ q.cui[o].count <= kernel.cui[o].count
    BY <1>8, Zenon DEF Tidied
<1>10. PICK W, T : W = {o} /\ T = {}
    OBVIOUS
<1>11. Within(q, r, {}, T, Dead)
    BY <1>2, <1>5, <1>6, <1>9, OffersAre, Zenon
<1>12. Within(kernel, r, W, T, Dead)
    <2>1. Within(kernel, q, W, T, Dead)
        BY <1>9, <1>10
    <2>2. Within(q, r, W, T, Dead)
        <3>1. PICK V : V = {}
            OBVIOUS
        <3>2. Within(q, r, V, T, Dead) /\ V \subseteq W /\ T \subseteq T
            BY <1>11, <3>1
        <3> QED BY <3>2, WithinMore, Zenon
    <2>3. W \in SUBSET Ids
        BY <1>6, <1>10
    <2> QED BY <2>1, <2>2, <2>3, WithinTransitive, Zenon
<1>13. /\ SameLock(q.cui[o], r.cui[o]) /\ r \in KernelState
       /\ \A x \in Tasks : /\ r.hwse[x].semaphore_up = q.hwse[x].semaphore_up
                           /\ r.hwse[x].need_migrate = q.hwse[x].need_migrate
    BY <1>6, <1>10, <1>11 DEF Within
<1>14. UnitInv(r.cui[o], r.hwse, S, 0, lost) /\ r.cui[o].count <= kernel.cui[o].count
    <2>1. PICK c, d, h, g : c = q.cui[o] /\ d = r.cui[o] /\ h = q.hwse /\ g = r.hwse
        OBVIOUS
    <2>2. d \in LaxUnit
        BY <1>6, <1>13, <2>1 DEF KernelState
    <2>3. \A x \in S : /\ g[x].semaphore_up = h[x].semaphore_up
                       /\ g[x].need_migrate = h[x].need_migrate
        BY <1>7, <1>13, <2>1
    <2>4. UnitInv(c, h, S, 0, lost) /\ SameLock(c, d)
        BY <1>9, <1>13, <2>1
    <2>5. UnitInv(d, g, S, 0, lost)
        BY <2>2, <2>3, <2>4, UnitFrame, Zenon
    <2>6. d.count = c.count
        BY <2>4 DEF SameLock
    <2> QED BY <1>9, <2>1, <2>5, <2>6
<1>15. EndBalance \/ (pc' = pc /\ Goes(balance'))
    <2> SUFFICES ASSUME ~EndBalance PROVE pc' = pc /\ Goes(balance')
        OBVIOUS
    <2>1. PICK R \in SUBSET Ids : R = b.rest \ {o}
        BY <1>5
    <2>2. PICK d : d = balance'
        OBVIOUS
    <2>3. pc' = pc /\ d = [b EXCEPT !.rest = R]
        BY <1>3, <2>1, <2>2, Zenon
    <2>4. d \in BalanceState /\ d.by = b.by /\ d.cand = NoTask
        BY <1>4, <2>3 DEF BalanceState
    <2>5. Goes(d)
        BY <1>1, <2>4, Zenon DEF Goes
    <2> QED BY <2>2, <2>3, <2>5
<1>16. Balances(lost, W, T)
    <2>1. Within(kernel, kernel', W, T, Dead)
        BY <1>3, <1>12
    <2>2. W \in SUBSET Ids /\ T \in SUBSET Tasks
        BY <1>6, <1>10
    <2>3. \A w \in W : /\ UnitInv(kernel'.cui[w], kernel'.hwse, Asleep(w), 0, lost)
                       /\ kernel'.cui[w].count <= kernel.cui[w].count
        <3> SUFFICES ASSUME NEW w \in W
                     PROVE  /\ UnitInv(kernel'.cui[w], kernel'.hwse, Asleep(w), 0, lost)
                            /\ kernel'.cui[w].count <= kernel.cui[w].count
            OBVIOUS
        <3>1. w = o
            BY <1>10
        <3> QED BY <1>1, <1>3, <1>14, <3>1
    <2>4. \A x \in T : FALSE
        BY <1>10
    <2> QED BY <1>3, <1>15, <2>1, <2>2, <2>3, <2>4, Zenon DEF Balances
<1> QED BY <1>16, BalanceIs, Zenon

-----------------------------------------------------------------------------
(* The administrator.                                                      *)

\* What the administrator does under the locks of the units W.
Administers(lost, W) ==
    /\ lost \in SUBSET Tasks /\ IInv(lost) /\ W \in SUBSET Ids /\ balance = NoBalance
    /\ current_id' = current_id /\ balance' = balance /\ pc' = pc /\ my' = my
    /\ cpu' = cpu /\ workstatus' = workstatus
    /\ Within(kernel, kernel', W, {}, Dead)
    /\ \A w \in W :
        /\ UnitInv(kernel'.cui[w], kernel'.hwse, Asleep(w), 0, lost)
        /\ \/ kernel'.cui[w].count <= kernel.cui[w].count
           \/ kernel'.cui[w].maxcount # kernel.cui[w].maxcount

\* Such a call keeps the invariant.
LEMMA AdministersIs ==
    ASSUME NEW lost, NEW W, Administers(lost, W)
    PROVE  IInv(lost)' /\ Fits
<1>1. /\ lost \in SUBSET Tasks /\ IInv(lost) /\ W \in SUBSET Ids /\ balance = NoBalance
      /\ current_id' = current_id /\ balance' = balance /\ pc' = pc /\ my' = my
      /\ cpu' = cpu /\ workstatus' = workstatus
      /\ Within(kernel, kernel', W, {}, Dead)
      /\ \A w \in W :
          /\ UnitInv(kernel'.cui[w], kernel'.hwse, Asleep(w), 0, lost)
          /\ \/ kernel'.cui[w].count <= kernel.cui[w].count
             \/ kernel'.cui[w].maxcount # kernel.cui[w].maxcount
    BY Zenon DEF Administers
<1>2. PICK k, r, T : k = kernel /\ r = kernel' /\ T = {}
    OBVIOUS
<1>3. Typed /\ k \in KernelState /\ r \in KernelState
    BY <1>1, <1>2, Zenon DEF IInv, Typed, Within
<1>4. Typed'
    BY <1>1, <1>2, <1>3, Zenon DEF Typed
<1>5. BalanceInv'
    BY <1>1, Zenon DEF BalanceInv
<1>6. \A w \in W : UnitInv(kernel'.cui[w], kernel'.hwse, Asleep(w)', 0, lost)
    <2>1. \A w \in W : Asleep(w)' = Asleep(w)
        BY <1>1 DEF Asleep
    <2> QED BY <1>1, <2>1
<1>7. Section(lost, W, T)
    <2>1. Within(kernel, kernel', W, T, Dead)
        BY <1>1, <1>2
    <2>2. \A x \in Tasks \ T :
            pc'[x] = pc[x] /\ my'[x] = my[x] /\ workstatus'[x] = workstatus[x]
        BY <1>1
    <2>3. \A x \in Tasks \cap T : FALSE
        BY <1>2
    <2> QED BY <1>1, <2>1, <2>2, <2>3, Zenon DEF Section
<1>8. \A x \in Tasks \cap T : PlaceInv(x)' /\ ListInv(x)'
    BY <1>2
<1>9. IInv(lost)'
    BY <1>4, <1>5, <1>6, <1>7, <1>8, Assembled, Zenon
<1>10. Fits
    <2> SUFFICES ASSUME NEW v \in Ids, r.cui[v].count > k.cui[v].count,
                        r.cui[v].maxcount = k.cui[v].maxcount
                 PROVE  r.cui[v].count <= r.cui[v].maxcount
        BY <1>2, Zenon DEF Fits
    <2>1. r.cui[v].count \in Int /\ k.cui[v].count \in Int
        BY <1>3 DEF KernelState, LaxUnit
    <2>2. CASE v \in W
        BY <1>1, <1>2, <2>1, <2>2
    <2>3. CASE v \notin W
        <3>1. r.cui[v].count = k.cui[v].count
            BY <1>1, <1>2, <2>3 DEF Within, SameLock
        <3> QED BY <2>1, <3>1
    <2> QED BY <2>2, <2>3
<1> QED BY <1>9, <1>10

\* add enables a processor again.
LEMMA EnableCpuKeeps ==
    ASSUME NEW lost \in SUBSET Tasks, IInv(lost), NEW u \in Cpus, EnableCpu(u)
    PROVE  IInv(lost)' /\ Fits
<1>1. PICK c, d, q : /\ c = kernel.cui[u] /\ d = [c EXCEPT !.online = TRUE]
                     /\ q = WithUnit(kernel, u, d)
    OBVIOUS
<1>2. /\ balance = NoBalance /\ current_id' = current_id /\ balance' = balance
      /\ pc' = pc /\ my' = my /\ cpu' = cpu /\ workstatus' = workstatus
      /\ kernel' = [kernel EXCEPT !.cui[u].online = TRUE, !.active = @ \cup {u}]
    BY Zenon DEF EnableCpu, CusMutexIsFree
<1>3. kernel \in KernelState /\ u \in Ids
    BY UnitsAssumption, Zenon DEF IInv, Typed
<1>4. c \in LaxUnit /\ kernel.active \in SUBSET Cpus
    BY <1>1, <1>3 DEF KernelState
<1>5. /\ d \in LaxUnit /\ d.type = c.type /\ d.listed = c.listed
      /\ d.count = c.count /\ d.maxcount = c.maxcount /\ d.tree = c.tree
      /\ d.nr_running = c.nr_running /\ d.tasks = c.tasks /\ d.curr = c.curr
    BY <1>1, <1>4 DEF LaxUnit
<1>6. /\ q \in KernelState /\ q.hwse = kernel.hwse /\ q.cui[u] = d
      /\ \A v \in Ids \ {u} : q.cui[v] = kernel.cui[v]
      /\ q.active = kernel.active
    <2>1. UnitPut(kernel, u, d, q)
        BY <1>1, <1>3, <1>5, UnitIs, Zenon
    <2> QED BY <2>1, Zenon DEF UnitPut
<1>7. PICK r : r = kernel'
    OBVIOUS
<1>8. r = [q EXCEPT !.active = @ \cup {u}]
    BY <1>1, <1>2, <1>7, Zenon DEF WithUnit
<1>9. r \in KernelState /\ r.cui = q.cui /\ r.hwse = q.hwse
    <2>1. PICK a \in SUBSET Cpus : a = q.active \cup {u}
        BY <1>4, <1>6
    <2>2. r = [q EXCEPT !.active = a]
        BY <1>8, <2>1
    <2> QED BY <1>6, <2>2 DEF KernelState
<1>10. Within(kernel, r, {}, {}, Dead)
    <2>1. ASSUME NEW v \in Ids
          PROVE  /\ SameLock(kernel.cui[v], r.cui[v])
                 /\ r.cui[v].type = kernel.cui[v].type
                 /\ r.cui[v].listed = kernel.cui[v].listed
                 /\ r.cui[v].online => kernel.cui[v].online \/ v \in Cpus
        <3>1. CASE v = u
            BY <1>1, <1>5, <1>6, <1>9, <3>1 DEF SameLock
        <3>2. CASE v # u
            BY <1>6, <1>9, <3>2 DEF SameLock
        <3> QED BY <3>1, <3>2
    <2> QED BY <1>6, <1>9, <2>1 DEF Within, SameLock
<1>11. PICK W : W = {}
    OBVIOUS
<1>12. Administers(lost, W)
    <2>1. Within(kernel, kernel', W, {}, Dead)
        BY <1>7, <1>10, <1>11
    <2>2. W \in SUBSET Ids /\ \A w \in W : FALSE
        BY <1>11
    <2> QED BY <1>2, <2>1, <2>2, Zenon DEF Administers
<1> QED BY <1>12, AdministersIs, Zenon

\* del takes a unit offline, tidies it and deletes it if it is idle.
LEMMA DelUnitKeeps ==
    ASSUME NEW lost \in SUBSET Tasks, IInv(lost), NEW u \in Ids, DelUnit(u)
    PROVE  IInv(lost)' /\ Fits
<1>1. PICK c, d, p, q, r, S :
        /\ c = kernel.cui[u] /\ d = [c EXCEPT !.online = FALSE]
        /\ p = WithUnit(kernel, u, d) /\ q = Tidy(p, u, Dead) /\ r = TryToDel(q, u)
        /\ S = Asleep(u)
    OBVIOUS
<1>2. /\ balance = NoBalance /\ current_id' = current_id /\ balance' = balance
      /\ pc' = pc /\ my' = my /\ cpu' = cpu /\ workstatus' = workstatus
      /\ kernel' = TryToDel(Tidy([kernel EXCEPT !.cui[u].online = FALSE], u, Dead), u)
    BY Zenon DEF DelUnit, CusMutexIsFree
<1>3. kernel' = r
    <2>1. p = [kernel EXCEPT !.cui[u].online = FALSE]
        BY <1>1, Zenon DEF WithUnit
    <2> QED BY <1>1, <1>2, <2>1, Zenon
<1>4. kernel \in KernelState /\ UnitsInv(lost)
    BY Zenon DEF IInv, Typed
<1>5. c \in LaxUnit
    BY <1>1, <1>4 DEF KernelState
<1>6. /\ d \in LaxUnit /\ d.type = c.type /\ d.listed = c.listed /\ ~d.online
      /\ d.count = c.count /\ d.maxcount = c.maxcount /\ d.tree = c.tree
      /\ d.nr_running = c.nr_running /\ d.tasks = c.tasks /\ d.curr = c.curr
    BY <1>1, <1>5 DEF LaxUnit
<1>7. SameLock(c, d)
    BY <1>6, Zenon DEF SameLock
<1>8. PICK W, T : W = {u} /\ T = {}
    OBVIOUS
<1>9. /\ p \in KernelState /\ p.hwse = kernel.hwse /\ p.cui[u] = d
      /\ \A v \in Ids \ {u} : p.cui[v] = kernel.cui[v]
    <2>1. UnitPut(kernel, u, d, p)
        BY <1>1, <1>4, <1>6, UnitIs, Zenon
    <2> QED BY <2>1, Zenon DEF UnitPut
<1>10. Within(kernel, p, {}, T, Dead)
    <2>1. PutsQuietly(kernel, u, d, p)
        BY <1>1, <1>4, <1>6, <1>7 DEF PutsQuietly
    <2> QED BY <2>1, UnitQuiet, Zenon
<1>11. S \in SUBSET Tasks /\ S \cap Dead = {}
    BY <1>1 DEF Asleep, Dead
<1>12. UnitInv(d, p.hwse, S, 0, lost)
    <2>1. PICK h : h = p.hwse
        OBVIOUS
    <2>2. UnitInv(c, h, S, 0, lost)
        BY <1>1, <1>4, <1>9, <2>1, Zenon DEF UnitsInv, Cui, Hwse
    <2>3. \A x \in S : /\ h[x].semaphore_up = h[x].semaphore_up
                       /\ h[x].need_migrate = h[x].need_migrate
        OBVIOUS
    <2>4. UnitInv(d, h, S, 0, lost)
        BY <1>6, <1>7, <2>2, <2>3, UnitFrame, Zenon
    <2> QED BY <2>1, <2>4
<1>13. Tidied(p, q, u, Dead, S, lost)
    <2>1. Tidies(p, u, Dead, S, lost)
        BY <1>9, <1>11, <1>12, Zenon DEF Tidies
    <2>2. Tidied(p, Tidy(p, u, Dead), u, Dead, S, lost)
        BY <2>1, TidyIs, Zenon
    <2> QED BY <1>1, <2>2
<1>14. /\ q \in KernelState /\ Within(p, q, {u}, {}, Dead)
       /\ UnitInv(q.cui[u], q.hwse, S, 0, lost)
       /\ q.cui[u].count <= p.cui[u].count
    BY <1>13, Zenon DEF Tidied
<1>15. Within(q, r, {}, T, Dead) /\ r.hwse = q.hwse
    BY <1>1, <1>14, TryToDelIs, ZenonT(40)
<1>16. Within(kernel, r, W, T, Dead)
    <2>1. PICK V : V = {}
        OBVIOUS
    <2>2. V \subseteq W /\ T \subseteq T /\ W \in SUBSET Ids
        BY <1>8, <2>1
    <2>3. Within(kernel, p, V, T, Dead) /\ Within(q, r, V, T, Dead)
        BY <1>10, <1>15, <2>1
    <2>4. Within(kernel, p, W, T, Dead) /\ Within(q, r, W, T, Dead)
        BY <2>2, <2>3, WithinMore, Zenon
    <2>5. Within(p, q, W, T, Dead)
        BY <1>8, <1>14
    <2>6. Within(kernel, q, W, T, Dead)
        BY <2>2, <2>4, <2>5, WithinTransitive, Zenon
    <2> QED BY <2>2, <2>4, <2>6, WithinTransitive, Zenon
<1>17. UnitInv(r.cui[u], r.hwse, S, 0, lost) /\ r.cui[u].count <= c.count
    <2>1. PICK a, b, h : a = q.cui[u] /\ b = r.cui[u] /\ h = q.hwse
        OBVIOUS
    <2>2. SameLock(a, b) /\ r \in KernelState
        BY <1>15, <2>1 DEF Within
    <2>3. b \in LaxUnit
        BY <2>1, <2>2 DEF KernelState
    <2>4. UnitInv(a, h, S, 0, lost)
        BY <1>14, <2>1
    <2>5. \A x \in S : /\ h[x].semaphore_up = h[x].semaphore_up
                       /\ h[x].need_migrate = h[x].need_migrate
        OBVIOUS
    <2>6. UnitInv(b, h, S, 0, lost)
        BY <2>2, <2>3, <2>4, <2>5, UnitFrame, Zenon
    <2>7. b.count = a.count
        BY <2>2 DEF SameLock
    <2> QED BY <1>6, <1>9, <1>14, <1>15, <2>1, <2>6, <2>7
<1>18. Administers(lost, W)
    <2>1. Within(kernel, kernel', W, {}, Dead)
        BY <1>3, <1>8, <1>16
    <2>2. W \in SUBSET Ids /\ \A w \in W : w = u
        BY <1>8
    <2>3. \A w \in W :
            /\ UnitInv(kernel'.cui[w], kernel'.hwse, Asleep(w), 0, lost)
            /\ kernel'.cui[w].count <= kernel.cui[w].count
        <3> SUFFICES ASSUME NEW w \in W
                     PROVE  /\ UnitInv(kernel'.cui[w], kernel'.hwse, Asleep(w), 0, lost)
                            /\ kernel'.cui[w].count <= kernel.cui[w].count
            OBVIOUS
        <3>1. w = u
            BY <2>2
        <3> QED BY <1>1, <1>3, <1>17, <3>1
    <2> QED BY <1>2, <2>1, <2>2, <2>3, Zenon DEF Administers
<1> QED BY <1>18, AdministersIs, Zenon

\* Steps that change nothing the invariant speaks of.
LEMMA NothingKeeps ==
    ASSUME NEW lost \in SUBSET Tasks, IInv(lost),
           kernel' = kernel, current_id' = current_id, balance' = balance, pc' = pc,
           my' = my, cpu' \in [Tasks -> Cpus], workstatus' = workstatus
    PROVE  IInv(lost)' /\ Fits
<1>1. /\ Typed /\ UnitsInv(lost) /\ KindInv /\ BalanceInv
      /\ \A t \in Tasks : PlaceInv(t) /\ ListInv(t)
    BY Zenon DEF IInv
<1>2. Typed'
    BY <1>1, Zenon DEF Typed
<1>3. \A u \in Ids : Asleep(u)' = Asleep(u)
    BY DEF Asleep
<1>4. UnitsInv(lost)'
    BY <1>1, <1>3 DEF UnitsInv, Cui, Hwse
<1>5. KindInv' /\ BalanceInv'
    BY <1>1 DEF KindInv, BalanceInv, Cui
<1>6. ASSUME NEW t \in Tasks PROVE PlaceInv(t)' /\ ListInv(t)'
    <2>1. PlaceInv(t)'
        BY <1>1, Zenon DEF PlaceInv, Cui, Hwse
    <2>2. ListInv(t)'
        BY <1>1, <1>3, Zenon DEF ListInv, Cui, Hwse
    <2> QED BY <2>1, <2>2
<1>7. Fits
    <2>1. \A v \in Ids : kernel.cui[v].count \in Int
        BY <1>1 DEF Typed, KernelState, LaxUnit
    <2> QED BY <2>1 DEF Fits
<1> QED BY <1>2, <1>4, <1>5, <1>6, <1>7, Zenon DEF IInv

\* A unit that nobody uses.
Unused(c) ==
    /\ c \in LaxUnit /\ c.count = 0 /\ c.tree = <<>> /\ c.nr_running = 0
    /\ c.tasks = {} /\ c.curr = NoTask

\* Its lock is intact.
LEMMA UnusedIs ==
    ASSUME NEW c, Unused(c), NEW h, NEW lost \in SUBSET Tasks
    PROVE  UnitInv(c, h, {}, 0, lost)
<1>1. /\ c \in LaxUnit /\ c.count = 0 /\ c.tree = <<>> /\ c.nr_running = 0
      /\ c.tasks = {} /\ c.curr = NoTask
    BY Zenon DEF Unused
<1>2. PICK S : S = {}
    OBVIOUS
<1>3. Injective(c.tree) /\ ToSet(c.tree) = {}
    BY <1>1 DEF Injective, ToSet
<1>4. Holders(c, h, S) = {}
    BY <1>1, <1>2 DEF Holders
<1>5. c.count = Cardinality(Holders(c, h, S)) + 0
    BY <1>1, <1>4, FS_EmptySet
<1>6. c.nr_running = Len(c.tree)
    BY <1>1
<1>7. /\ ToSet(c.tree) \subseteq S /\ c.curr \notin ToSet(c.tree)
      /\ c.tasks \cap S = {} /\ (\A x \in S : FALSE) /\ \A x \in ToSet(c.tree) : FALSE
    BY <1>1, <1>2, <1>3
<1>8. LockInv(c, h, S, 0, lost)
    BY <1>1, <1>3, <1>5, <1>6, <1>7, Zenon DEF LockInv
<1>9. UnitInv(c, h, S, 0, lost)
    BY <1>1, <1>8, Zenon DEF UnitInv
<1> QED BY <1>2, <1>9

\* A new unit is one.
LEMMA NewUnitIs ==
    ASSUME NEW type \in Types, NEW maxcount \in 0 .. UintMax
    PROVE  /\ Unused(NewUnit(type, maxcount)) /\ NewUnit(type, maxcount).type = type
           /\ NewUnit(type, maxcount).maxcount = maxcount
<1>1. UintMax \in Nat /\ 0 \in Int
    BY UnitsAssumption
<1>2. <<>> \in Seq(Tasks)
    OBVIOUS
<1> QED BY <1>1, <1>2 DEF NewUnit, LaxUnit, Unused

\* add of a hardware unit: nobody has its handle yet.
LEMMA AddUnitKeeps ==
    ASSUME NEW lost \in SUBSET Tasks, IInv(lost), NEW b \in Additions, AddUnit(b)
    PROVE  IInv(lost)' /\ Fits
<1>1. PICK u, d, q : /\ u = current_id + 1 /\ d = NewUnit(b.type, b.slots)
                     /\ q = WithUnit(kernel, u, d)
    OBVIOUS
<1>2. /\ current_id < MaxId /\ current_id' = u /\ pc' = pc /\ my' = my
      /\ cpu' = cpu /\ workstatus' = workstatus
      /\ kernel' = [kernel EXCEPT !.cui[u] = d, !.nr_devices = @ + 1]
      /\ balance' = StartBalance(Admin, u, kernel'.cui)
    BY <1>1, Zenon DEF AddUnit
<1>3. /\ Typed /\ UnitsInv(lost) /\ KindInv
      /\ \A t \in Tasks : PlaceInv(t) /\ ListInv(t)
    BY Zenon DEF IInv
<1>4. kernel \in KernelState /\ Cpus \subseteq 0 .. current_id
    BY <1>3, Zenon DEF Typed
<1>5. current_id \in Nat /\ current_id <= MaxId /\ MaxId \in Nat
    BY <1>3, IdBelow, UnitsAssumption
<1>6. u \in Ids /\ u \in Nat /\ u > current_id /\ u \notin Cpus
    BY <1>1, <1>2, <1>4, <1>5 DEF Ids
<1>7. /\ b.type \in Types \ {CPU} /\ b.slots \in 1 .. UintMax - 1 /\ UintMax \in Nat
    BY KssAssumption, UnitsAssumption DEF HardwareUnit
<1>8. /\ Unused(d) /\ d \in LaxUnit /\ d.type = b.type /\ d.maxcount = b.slots
      /\ d.count = 0 /\ d.tasks = {} /\ d.curr = NoTask
    <2>1. b.slots \in 0 .. UintMax /\ b.type \in Types
        BY <1>7
    <2> QED BY <1>1, <2>1, NewUnitIs DEF Unused
<1>9. /\ q \in KernelState /\ q.hwse = kernel.hwse /\ q.cui[u] = d
      /\ \A v \in Ids \ {u} : q.cui[v] = kernel.cui[v]
    <2>1. UnitPut(kernel, u, d, q)
        BY <1>1, <1>4, <1>6, <1>8, UnitIs, Zenon
    <2> QED BY <2>1, Zenon DEF UnitPut
<1>10. PICK k, r : k = kernel /\ r = kernel'
    OBVIOUS
<1>11. r \in KernelState /\ r.cui = q.cui /\ r.hwse = q.hwse
    <2>1. r = [q EXCEPT !.nr_devices = @ + 1]
        BY <1>1, <1>2, <1>10, Zenon DEF WithUnit
    <2> QED BY <1>9, <2>1 DEF KernelState
<1>12. /\ r.hwse = k.hwse /\ r.cui[u] = d
       /\ \A v \in Ids \ {u} : r.cui[v] = k.cui[v]
    BY <1>9, <1>10, <1>11
<1>13. PICK e : e = balance'
    OBVIOUS
<1>14. e \in BalanceState /\ e.by = Admin /\ e.pass = 1 /\ e.cand = NoTask
    <2>1. PICK x : x = r.cui
        OBVIOUS
    <2>2. x \in [Ids -> LaxUnit]
        BY <1>11, <2>1 DEF KernelState
    <2>3. Admin \in Tasks \cup {Admin}
        OBVIOUS
    <2>4. /\ StartBalance(Admin, u, x) \in BalanceState
          /\ StartBalance(Admin, u, x).by = Admin
          /\ StartBalance(Admin, u, x).pass = 1
          /\ StartBalance(Admin, u, x).cand = NoTask
        BY <1>6, <2>2, <2>3, StartTyped
    <2> QED BY <1>2, <1>10, <1>13, <2>1, <2>4
<1>15. Typed'
    <2>1. current_id' \in Ids /\ Cpus \subseteq 0 .. current_id'
        BY <1>1, <1>2, <1>4, <1>5, <1>6
    <2>2. kernel' \in KernelState /\ balance' \in BalanceState \cup {NoBalance}
        BY <1>10, <1>11, <1>13, <1>14
    <2> QED BY <1>2, <1>3, <2>1, <2>2, Zenon DEF Typed
<1>16. BalanceInv'
    <2>1. Admin \notin Tasks
        BY KssAssumption
    <2> QED BY <1>13, <1>14, <2>1 DEF BalanceInv
<1>17. \A v \in Ids : Asleep(v)' = Asleep(v)
    BY <1>2 DEF Asleep
<1>18. Asleep(u) = {}
    <2> SUFFICES ASSUME NEW x \in Tasks, pc[x] = "sleep", my[x] = u
                 PROVE  FALSE
        BY DEF Asleep
    <2>1. my[x] \in 0 .. current_id
        BY <1>3 DEF PlaceInv
    <2> QED BY <1>5, <1>6, <2>1
<1>19. UnitsInv(lost)'
    <2> SUFFICES ASSUME NEW v \in Ids
                 PROVE  UnitInv(r.cui[v], r.hwse, Asleep(v), 0, lost)
        BY <1>10, <1>17 DEF UnitsInv, Cui, Hwse
    <2>1. CASE v # u
        <3>1. UnitInv(k.cui[v], k.hwse, Asleep(v), 0, lost)
            BY <1>3, <1>10, Zenon DEF UnitsInv, Cui, Hwse
        <3> QED BY <1>12, <2>1, <3>1
    <2>2. CASE v = u
        <3>1. UnitInv(d, r.hwse, {}, 0, lost)
            BY <1>8, UnusedIs, Zenon
        <3> QED BY <1>12, <1>18, <2>2, <3>1
    <2> QED BY <2>1, <2>2
<1>20. KindInv'
    <2> SUFFICES ASSUME NEW v \in Ids
                 PROVE  /\ v \in Cpus => IsCpu(r.cui[v]) /\ r.cui[v].maxcount = UintMax
                        /\ v \notin Cpus /\ v <= u => ~IsCpu(r.cui[v])
                        /\ v > u => ~r.cui[v].listed
        BY <1>2, <1>10 DEF KindInv, Cui
    <2>1. CASE v # u
        <3>1. /\ v \in Cpus => IsCpu(k.cui[v]) /\ k.cui[v].maxcount = UintMax
              /\ v \notin Cpus /\ v <= current_id => ~IsCpu(k.cui[v])
              /\ v > current_id => ~k.cui[v].listed
            BY <1>3, <1>10 DEF KindInv, Cui
        <3>2. v \in Nat /\ (v <= u => v <= current_id) /\ (v > u => v > current_id)
            BY <1>1, <1>5, <2>1 DEF Ids
        <3> QED BY <1>12, <2>1, <3>1, <3>2
    <2>2. CASE v = u
        <3>1. ~IsCpu(d) /\ ~(u > u)
            BY <1>6, <1>7, <1>8 DEF IsCpu
        <3> QED BY <1>6, <1>12, <2>2, <3>1
    <2> QED BY <2>1, <2>2
<1>21. ASSUME NEW t \in Tasks PROVE PlaceInv(t)'
    <2>1. PlaceInv(t)
        BY <1>3
    <2>2. \A v \in 0 .. current_id : v \in Ids /\ v # u /\ v \in 0 .. u
        BY <1>1, <1>3, <1>5, <1>6, IdBelow
    <2>3. \A v \in -1 .. current_id : v # u /\ v \in -1 .. u
        BY <1>1, <1>5
    <2>4. pc[t] \notin {"user", "search", "done", "dead"} => my[t] \in 0 .. current_id
        BY <2>1 DEF PlaceInv
    <2>5. k.hwse[t].cfs_rq \in -1 .. current_id
        BY <1>10, <2>1 DEF PlaceInv, Hwse
    <2>6. pc[t] = "lock" => my[t] \in Cpus \/ r.cui[my[t]].curr # t
        BY <1>10, <1>12, <2>1, <2>2, <2>4 DEF PlaceInv, Cui
    <2>7. pc[t] \in {"got"} \cup Holding =>
            /\ k.hwse[t].cfs_rq \in Ids /\ t \in r.cui[k.hwse[t].cfs_rq].tasks
            /\ my[t] = k.hwse[t].cfs_rq \/ (my[t] \in Cpus /\ k.hwse[t].cfs_rq \in Cpus)
        <3> SUFFICES ASSUME pc[t] \in {"got"} \cup Holding
                     PROVE  /\ k.hwse[t].cfs_rq \in Ids /\ t \in r.cui[k.hwse[t].cfs_rq].tasks
                            /\ \/ my[t] = k.hwse[t].cfs_rq
                               \/ my[t] \in Cpus /\ k.hwse[t].cfs_rq \in Cpus
            OBVIOUS
        <3>1. /\ k.hwse[t].cfs_rq \in Ids /\ t \in k.cui[k.hwse[t].cfs_rq].tasks
              /\ \/ my[t] = k.hwse[t].cfs_rq
                 \/ my[t] \in Cpus /\ k.hwse[t].cfs_rq \in Cpus
            BY <1>10, <2>1, Zenon DEF PlaceInv, Cui, Hwse
        <3>2. k.hwse[t].cfs_rq # u
            BY <2>3, <2>5
        <3> QED BY <1>12, <3>1, <3>2
    <2>8. /\ pc[t] = "sleep" => my[t] \notin Cpus /\ k.hwse[t].cfs_rq = my[t]
          /\ k.hwse[t].cfs_rq \in Cpus => pc[t] \in HolderLabels
          /\ pc[t] \in {"search", "lock", "sleep", "trydel", "got", "compute",
                        "rerequest", "stay"} => workstatus[t] > 0
        BY <1>10, <2>1, Zenon DEF PlaceInv, Hwse
    <2>9. /\ pc[t] \notin {"user", "search", "done", "dead"} => my[t] \in 0 .. u
          /\ k.hwse[t].cfs_rq \in -1 .. u
        BY <2>2, <2>3, <2>4, <2>5
    <2> QED BY <1>2, <1>10, <1>12, <2>6, <2>7, <2>8, <2>9, Zenon DEF PlaceInv, Cui, Hwse
<1>22. ASSUME NEW t \in Tasks PROVE ListInv(t)'
    <2>1. ListInv(t)
        BY <1>3
    <2>2. t # NoTask /\ t \notin d.tasks /\ d.curr # t
        BY <1>8, UnitsAssumption
    <2>3. ASSUME NEW v \in Ids, t \in r.cui[v].tasks
          PROVE  k.hwse[t].cfs_rq = v /\ pc[t] \in HolderLabels
        <3>1. v # u
            BY <1>12, <2>2, <2>3
        <3> QED BY <1>10, <1>12, <2>1, <2>3, <3>1 DEF ListInv, Cui, Hwse
    <2>4. ASSUME NEW v \in Ids \ Cpus, r.cui[v].curr = t
          PROVE  \/ ~r.cui[v].online \/ t \in r.cui[v].tasks
                 \/ t \in Asleep(v) /\ ~k.hwse[t].need_migrate
                 \/ pc[t] \in {"done", "dead"}
        <3>1. v # u
            BY <1>12, <2>2, <2>4
        <3> QED BY <1>10, <1>12, <2>1, <2>4, <3>1 DEF ListInv, Cui, Hwse
    <2> QED BY <1>2, <1>10, <1>12, <1>17, <2>3, <2>4, Zenon DEF ListInv, Cui, Hwse
<1>23. Fits
    <2> SUFFICES ASSUME NEW v \in Ids, r.cui[v].count > k.cui[v].count
                 PROVE  r.cui[v].count <= r.cui[v].maxcount
        BY <1>10, Zenon DEF Fits
    <2>1. k.cui[v].count \in Int
        BY <1>4, <1>10 DEF KernelState, LaxUnit
    <2>2. v = u
        BY <1>12, <2>1
    <2> QED BY <1>7, <1>8, <1>12, <2>2
<1> QED BY <1>15, <1>16, <1>19, <1>20, <1>21, <1>22, <1>23, Zenon DEF IInv

\* set gives slots to who waits, and takes none from who computes.
LEMMA SetUnitKeeps ==
    ASSUME NEW before \in SUBSET Tasks, IInv(before), before = forgotten,
           NEW u \in Ids, NEW slots \in Slots, SetUnit(u, slots),
           NEW lost, lost = forgotten'
    PROVE  lost \in SUBSET Tasks /\ IInv(lost)' /\ Fits
<1>1. PICK c, m, n, S :
        /\ c = kernel.cui[u] /\ m = c.maxcount /\ S = Asleep(u)
        /\ n = IF slots - m > 0 THEN slots - m ELSE 0
    OBVIOUS
<1>2. PICK d, p, s, a :
        /\ d = [c EXCEPT !.maxcount = slots] /\ p = WithUnit(kernel, u, d)
        /\ s = [cui |-> [kernel.cui EXCEPT ![u].maxcount = slots], hwse |-> kernel.hwse]
        /\ a = Woken(s, u, Dead)[n]
    OBVIOUS
<1>3. /\ balance = NoBalance /\ current_id' = current_id /\ balance' = balance
      /\ pc' = pc /\ my' = my /\ cpu' = cpu /\ workstatus' = workstatus
      /\ ~IsCpu(c) /\ slots - m # 0
      /\ kernel' = [kernel EXCEPT !.cui = a.cui, !.hwse = a.hwse]
      /\ lost = before \cup a.lost
    BY <1>1, <1>2, Zenon DEF SetUnit, CusMutexIsFree, Cui, Hwse
<1>4. kernel \in KernelState /\ UnitsInv(before) /\ KindInv
    BY Zenon DEF IInv, Typed
<1>5. c \in LaxUnit /\ u \notin Cpus
    BY <1>1, <1>3, <1>4 DEF KernelState, KindInv, Cui
<1>6. m \in Int /\ slots \in 0 .. UintMax /\ slots \in Int /\ c.count \in Int
    <2>1. m \in 0 .. UintMax /\ c.count \in Int /\ UintMax \in Nat
        BY <1>1, <1>5, UnitsAssumption DEF LaxUnit
    <2>2. slots \in 1 .. UintMax - 1
        BY KssAssumption
    <2> QED BY <2>1, <2>2
<1>7. n \in Nat /\ slots <= m + n /\ (n = 0 \/ (slots = m + n /\ slots > m)) /\ slots # m
    <2>1. m \in Int /\ slots \in Int /\ slots - m # 0
        BY <1>3, <1>6
    <2>2. CASE slots - m > 0
        <3>1. n = slots - m
            BY <1>1, <2>2
        <3> QED BY <2>1, <2>2, <3>1
    <2>3. CASE ~(slots - m > 0)
        <3>1. n = 0
            BY <1>1, <2>3
        <3> QED BY <2>1, <2>3, <3>1
    <2> QED BY <2>2, <2>3
<1>8. /\ d \in LaxUnit /\ d.type = c.type /\ d.listed = c.listed /\ d.online = c.online
      /\ d.count = c.count /\ d.maxcount = slots /\ d.tree = c.tree
      /\ d.nr_running = c.nr_running /\ d.tasks = c.tasks /\ d.curr = c.curr
    BY <1>2, <1>5, <1>6 DEF LaxUnit
<1>9. /\ p \in KernelState /\ p.hwse = kernel.hwse /\ p.cui[u] = d
      /\ \A v \in Ids \ {u} : p.cui[v] = kernel.cui[v]
    <2>1. UnitPut(kernel, u, d, p)
        BY <1>2, <1>4, <1>8, UnitIs, Zenon
    <2> QED BY <2>1, Zenon DEF UnitPut
<1>10. s.cui = p.cui /\ s.hwse = p.hwse
    <2>1. p = [kernel EXCEPT !.cui = [@ EXCEPT ![u] = d]]
        BY <1>2, Zenon DEF WithUnit
    <2>2. PICK x : x = [kernel.cui EXCEPT ![u] = d]
        OBVIOUS
    <2>3. p = [kernel EXCEPT !.cui = x]
        BY <2>1, <2>2, Zenon
    <2>4. p.cui = x
        BY <1>4, <2>3 DEF KernelState
    <2>5. s.cui = x
        BY <1>1, <1>2, <2>2, Zenon
    <2> QED BY <1>2, <1>9, <2>4, <2>5
<1>11. S \in SUBSET Tasks /\ S \cap Dead = {}
    BY <1>1 DEF Asleep, Dead
<1>12. PICK r : r = kernel'
    OBVIOUS
<1>13. Sets(s, u, S, m, n, before)
    <2>1. PICK h : h = kernel.hwse
        OBVIOUS
    <2>2. UnitInv(c, h, S, 0, before)
        BY <1>1, <1>4, <2>1, Zenon DEF UnitsInv, Cui, Hwse
    <2>3. /\ Injective(c.tree) /\ ToSet(c.tree) \subseteq S
          /\ \A t \in ToSet(c.tree) : ~h[t].semaphore_up /\ ~h[t].need_migrate
          /\ c.curr \notin ToSet(c.tree)
          /\ c.tasks \cap S = {}
          /\ c.count = Cardinality(Holders(c, h, S)) + 0
          /\ \A t \in S : ~(h[t].semaphore_up /\ h[t].need_migrate)
          /\ before = {} => c.nr_running = Len(c.tree)
          /\ \A t \in S \ ToSet(c.tree) :
                  h[t].semaphore_up \/ h[t].need_migrate \/ t \in before
          /\ c.tree # <<>> => c.count >= c.maxcount
        BY <2>2, Zenon DEF UnitInv, LockInv
    <2>4. Holders(d, h, S) = Holders(c, h, S)
        BY <1>8 DEF Holders
    <2>5. LockInv(d, h, S, 0, before)
        BY <1>8, <2>3, <2>4, Zenon DEF LockInv
    <2>6. s.cui \in [Ids -> LaxUnit] /\ s.hwse \in [Tasks -> Entity]
        BY <1>9, <1>10 DEF KernelState
    <2>7. s.cui[u] = d /\ s.hwse = h
        BY <1>9, <1>10, <2>1
    <2>8. d.tree # <<>> => d.count >= m
        BY <1>1, <1>8, <2>3
    <2>9. d.maxcount <= m + n
        BY <1>7, <1>8
    <2> QED BY <1>6, <1>7, <1>11, <2>5, <2>6, <2>7, <2>8, <2>9, Zenon DEF Sets
<1>14. /\ a \in WokenState /\ Serves(s, a, u)
       /\ UnitInv(a.cui[u], a.hwse, S, 0, lost)
    <2>1. /\ a \in WokenState /\ Serves(s, a, u)
          /\ UnitInv(a.cui[u], a.hwse, S, 0, before \cup a.lost)
        BY <1>2, <1>11, <1>13, WokenWakes, Zenon
    <2> QED BY <1>3, <2>1, Zenon
<1>15. lost \in SUBSET Tasks /\ IInv(lost)
    <2>1. lost \in SUBSET Tasks
        BY <1>3, <1>14 DEF WokenState
    <2>2. before \subseteq lost
        BY <1>3
    <2> QED BY <2>1, <2>2, InvGrows, Zenon
<1>16. r \in KernelState /\ r.cui = a.cui /\ r.hwse = a.hwse
    <2>1. a \in WokenState
        BY <1>14
    <2>2. PICK x \in [Ids -> LaxUnit], h \in [Tasks -> Entity] : x = a.cui /\ h = a.hwse
        BY <2>1 DEF WokenState
    <2>3. PICK q : q = [kernel EXCEPT !.cui = x]
        OBVIOUS
    <2>4. r = [q EXCEPT !.hwse = h]
        BY <1>3, <1>12, <2>2, <2>3, Zenon
    <2>5. q \in KernelState /\ q.cui = x
        BY <1>4, <2>3 DEF KernelState
    <2> QED BY <2>2, <2>4, <2>5 DEF KernelState
<1>17. Serves(p, r, u)
    BY <1>10, <1>14, <1>16, Zenon DEF Serves
<1>18. r.cui[u].maxcount = slots /\ \A v \in Ids \ {u} : r.cui[v] = kernel.cui[v]
    <2>1. r.cui[u].maxcount = p.cui[u].maxcount /\ \A v \in Ids \ {u} : r.cui[v] = p.cui[v]
        BY <1>17, Zenon DEF Serves
    <2> QED BY <1>8, <1>9, <2>1
<1>20. UnitInv(r.cui[u], r.hwse, S, 0, lost)
    BY <1>14, <1>16
<1>21. Within(p, r, {u}, {}, Dead)
    BY <1>9, <1>16, <1>17, ServesWithin
<1>22. Within(kernel, p, {u}, {}, Dead)
    <2>1. \A v \in Ids \ {u} : SameLock(kernel.cui[v], p.cui[v])
        BY <1>9 DEF SameLock
    <2>2. ASSUME NEW v \in Ids
          PROVE  /\ p.cui[v].type = kernel.cui[v].type
                 /\ p.cui[v].listed = kernel.cui[v].listed
                 /\ p.cui[v].online = kernel.cui[v].online
                 /\ v \in Cpus => p.cui[v].maxcount = kernel.cui[v].maxcount
                 /\ p.cui[v].tasks = kernel.cui[v].tasks
                 /\ p.cui[v].tree = kernel.cui[v].tree
                 /\ p.cui[v].curr = kernel.cui[v].curr
        <3>1. CASE v = u
            BY <1>1, <1>5, <1>8, <1>9, <3>1
        <3>2. CASE v # u
            BY <1>9, <3>2
        <3> QED BY <3>1, <3>2
    <2>3. ASSUME NEW v \in Ids
          PROVE  /\ p.cui[v].type = kernel.cui[v].type
                 /\ p.cui[v].listed => kernel.cui[v].listed
                 /\ p.cui[v].online => kernel.cui[v].online \/ v \in Cpus
                 /\ v \in Cpus => p.cui[v].maxcount = kernel.cui[v].maxcount
                 /\ kernel.cui[v].tasks \ p.cui[v].tasks \subseteq Dead \cup {}
                 /\ p.cui[v].tasks \subseteq kernel.cui[v].tasks \cup {}
                 /\ ToSet(p.cui[v].tree) \subseteq ToSet(kernel.cui[v].tree) \cup {}
                 /\ p.cui[v].curr \in {kernel.cui[v].curr, NoTask} \cup {} \cup ToSet(kernel.cui[v].tree)
        BY <2>2
    <2>4. \A x \in Tasks \ {} :
            /\ p.hwse[x].cfs_rq = kernel.hwse[x].cfs_rq
            /\ p.hwse[x].need_migrate = kernel.hwse[x].need_migrate
            /\ p.hwse[x].semaphore_up = kernel.hwse[x].semaphore_up
        BY <1>9
    <2> QED BY <1>9, <2>1, <2>3, <2>4, Zenon DEF Within
<1>23. PICK W : W = {u}
    OBVIOUS
<1>24. Within(kernel, r, W, {}, Dead) /\ W \in SUBSET Ids
    <2>1. PICK T : T = {}
        OBVIOUS
    <2>2. Within(kernel, p, W, T, Dead) /\ Within(p, r, W, T, Dead) /\ W \in SUBSET Ids
        BY <1>21, <1>22, <1>23, <2>1
    <2>3. Within(kernel, r, W, T, Dead)
        BY <2>2, WithinTransitive, Zenon
    <2> QED BY <2>1, <2>2, <2>3
<1>25. Administers(lost, W)
    <2>1. Within(kernel, kernel', W, {}, Dead)
        BY <1>12, <1>24
    <2>2. \A w \in W :
            /\ UnitInv(kernel'.cui[w], kernel'.hwse, Asleep(w), 0, lost)
            /\ kernel'.cui[w].maxcount # kernel.cui[w].maxcount
        <3> SUFFICES ASSUME NEW w \in W
                     PROVE  /\ UnitInv(kernel'.cui[w], kernel'.hwse, Asleep(w), 0, lost)
                            /\ kernel'.cui[w].maxcount # kernel.cui[w].maxcount
            OBVIOUS
        <3>1. w = u
            BY <1>23
        <3> QED BY <1>1, <1>7, <1>12, <1>18, <1>20, <3>1
    <2> QED BY <1>3, <1>15, <1>24, <2>1, <2>2, Zenon DEF Administers
<1> QED BY <1>15, <1>25, AdministersIs, Zenon

-----------------------------------------------------------------------------
(* A thread on a CPU moves to another one with its slot.                   *)

\* Nobody sleeps for a CPU.
LEMMA CpuLockIs ==
    ASSUME NEW lost \in SUBSET Tasks, IInv(lost), NEW u \in Cpus
    PROVE  /\ Asleep(u) = {}
           /\ UnitInv(kernel.cui[u], kernel.hwse, {}, 0, lost)
<1>1. u \in Ids
    BY UnitsAssumption
<1>2. Asleep(u) = {}
    BY DEF IInv, PlaceInv, Asleep
<1>3. UnitInv(kernel.cui[u], kernel.hwse, Asleep(u), 0, lost)
    BY <1>1, Zenon DEF IInv, UnitsInv, Cui, Hwse
<1> QED BY <1>2, <1>3

\* One of its holders more or less.
Recounts(c, h, lost, t, n, d, g) ==
    /\ c \in LaxUnit /\ UnitInv(c, h, {}, 0, lost) /\ t \in Tasks
    /\ d \in LaxUnit /\ d.tree = c.tree /\ d.nr_running = c.nr_running /\ d.curr = c.curr
    /\ \/ n = -1 /\ t \in c.tasks /\ d.tasks = c.tasks \ {t} /\ d.count = Down(c.count)
       \/ n = 1 /\ t \notin c.tasks /\ d.tasks = c.tasks \cup {t} /\ d.count = Up(c.count)

\* The lock is intact.
LEMMA RecountsIs ==
    ASSUME NEW c, NEW h, NEW lost, NEW t, NEW n, NEW d, NEW g,
           Recounts(c, h, lost, t, n, d, g)
    PROVE  /\ UnitInv(d, g, {}, 0, lost) /\ d.count = c.count + n
           /\ d.count <= UintMax
<1>1. /\ c \in LaxUnit /\ UnitInv(c, h, {}, 0, lost) /\ t \in Tasks
      /\ d \in LaxUnit /\ d.tree = c.tree /\ d.nr_running = c.nr_running /\ d.curr = c.curr
      /\ \/ n = -1 /\ t \in c.tasks /\ d.tasks = c.tasks \ {t} /\ d.count = Down(c.count)
         \/ n = 1 /\ t \notin c.tasks /\ d.tasks = c.tasks \cup {t} /\ d.count = Up(c.count)
    BY Zenon DEF Recounts
<1>2. PICK S : S = {}
    OBVIOUS
<1>3. UnitInv(c, h, S, 0, lost) /\ S \in SUBSET Tasks
    BY <1>1, <1>2
<1>4. /\ Injective(c.tree) /\ ToSet(c.tree) \subseteq S
      /\ c.curr \notin ToSet(c.tree)
      /\ c.count = Cardinality(Holders(c, h, S)) + 0
      /\ lost = {} => c.nr_running = Len(c.tree)
    BY <1>3, Zenon DEF UnitInv, LockInv
<1>5. Holders(c, h, S) = c.tasks /\ Holders(d, g, S) = d.tasks
    BY <1>2 DEF Holders
<1>6. PICK H, G : H = c.tasks /\ G = d.tasks
    OBVIOUS
<1>7. /\ IsFiniteSet(H) /\ Cardinality(H) \in Nat /\ Cardinality(H) <= UintMax
      /\ t \notin H => Cardinality(H) < UintMax
    <2>1. /\ IsFiniteSet(Holders(c, h, S)) /\ Cardinality(Holders(c, h, S)) \in Nat
          /\ Cardinality(Holders(c, h, S)) <= UintMax
          /\ \A x \in Tasks \ Holders(c, h, S) : Cardinality(Holders(c, h, S)) < UintMax
        BY <1>1, <1>3, HoldersFinite, HoldersBound, Zenon
    <2> QED BY <1>1, <1>5, <1>6, <2>1
<1>8. c.count = Cardinality(H) /\ UintMax \in Nat
    BY <1>4, <1>5, <1>6, <1>7, UnitsAssumption
<1>9. d.count = Cardinality(G) /\ d.count = c.count + n /\ d.count <= UintMax
    <2>1. CASE /\ n = -1 /\ t \in c.tasks /\ d.tasks = c.tasks \ {t}
               /\ d.count = Down(c.count)
        <3>1. t \in H /\ G = H \ {t}
            BY <1>6, <2>1
        <3>2. Cardinality(H \ {t}) = Cardinality(H) - 1
            BY <1>7, <3>1, FS_RemoveElement
        <3>3. Cardinality(H) # 0
            BY <1>7, <3>1, FS_EmptySet
        <3>4. Down(c.count) = Cardinality(H) - 1
            BY <1>7, <1>8, <3>3 DEF Down
        <3> QED BY <1>7, <1>8, <2>1, <3>1, <3>2, <3>4
    <2>2. CASE /\ n = 1 /\ t \notin c.tasks /\ d.tasks = c.tasks \cup {t}
               /\ d.count = Up(c.count)
        <3>1. t \notin H /\ G = H \cup {t}
            BY <1>6, <2>2
        <3>2. Cardinality(H \cup {t}) = Cardinality(H) + 1
            BY <1>7, <3>1, FS_AddElement
        <3>3. Cardinality(H) + 1 \in 0 .. UintMax
            BY <1>7, <1>8, <3>1
        <3>4. Up(c.count) = Cardinality(H) + 1
            BY <1>7, <1>8, <3>3 DEF Up
        <3> QED BY <1>7, <1>8, <2>2, <3>1, <3>2, <3>3, <3>4
    <2> QED BY <1>1, <2>1, <2>2
<1>10. c.tree = <<>>
    <2>1. ToSet(c.tree) = {} /\ c.tree \in Seq(Tasks)
        BY <1>1, <1>2, <1>4 DEF LaxUnit
    <2> QED BY <2>1, SeqFacts
<1>11. UnitInv(d, g, S, 0, lost)
    <2>1. d.count = Cardinality(Holders(d, g, S)) + 0
        <3>1. d.count \in Int
            BY <1>1 DEF LaxUnit
        <3> QED BY <1>5, <1>6, <1>9, <3>1
    <2>2. /\ Injective(d.tree) /\ ToSet(d.tree) \subseteq S /\ d.curr \notin ToSet(d.tree)
          /\ lost = {} => d.nr_running = Len(d.tree)
        BY <1>1, <1>4, Zenon
    <2>3. /\ d.tasks \cap S = {} /\ (\A x \in S : FALSE) /\ \A x \in ToSet(d.tree) : FALSE
        BY <1>2, <2>2
    <2>4. LockInv(d, g, S, 0, lost)
        BY <1>1, <2>1, <2>2, <2>3, Zenon DEF LockInv
    <2>5. d.tree = <<>>
        BY <1>1, <1>10
    <2> QED BY <2>4, <2>5, Zenon DEF UnitInv
<1> QED BY <1>2, <1>9, <1>11

Moving(lost, t, old, c) ==
    /\ lost \in SUBSET Tasks /\ IInv(lost) /\ t \in Tasks
    /\ old \in Cpus /\ c \in Cpus /\ old # c
    /\ kernel.hwse[t].cfs_rq = old /\ t \in kernel.cui[old].tasks
    /\ \A v \in Ids \ {old} : t \notin kernel.cui[v].tasks

HasMoved(lost, t, old, c, r) ==
    /\ Within(kernel, r, {old, c}, {t}, Dead)
    /\ UnitInv(r.cui[old], r.hwse, {}, 0, lost)
    /\ UnitInv(r.cui[c], r.hwse, {}, 0, lost)
    /\ r.cui[old].count <= kernel.cui[old].count
    /\ r.cui[c].count <= UintMax
    /\ r.hwse[t].cfs_rq = c /\ t \in r.cui[c].tasks
    /\ \A v \in Ids \ {c} : t \notin r.cui[v].tasks
    /\ \A v \in Ids :
        /\ r.cui[v].tree = kernel.cui[v].tree /\ r.cui[v].curr = kernel.cui[v].curr
        /\ r.cui[v].online = kernel.cui[v].online

\* The state with the slot moved, as Moved has it.
WithMoved(k, t, old, c) ==
    [k EXCEPT !.hwse[t].cfs_rq = c,
              !.cui = [LeaveList(k.cui, t) EXCEPT ![old].count = Down(@),
                                                  ![c].count = Up(@),
                                                  ![c].tasks = @ \cup {t}]]

\* A unit with another count, or with other holders.
SameUnit(c, d) ==
    /\ d \in LaxUnit
    /\ d.type = c.type /\ d.online = c.online /\ d.listed = c.listed
    /\ d.maxcount = c.maxcount /\ d.tree = c.tree /\ d.curr = c.curr
    /\ d.nr_running = c.nr_running

Counted(c, n, d) == c \in LaxUnit /\ n \in Int /\ d = [c EXCEPT !.count = n]

Held(c, T, d) == c \in LaxUnit /\ T \in SUBSET Tasks /\ d = [c EXCEPT !.tasks = T]

HasCount(c, n, d) == SameUnit(c, d) /\ d.count = n /\ d.tasks = c.tasks

HasHolders(c, T, d) == SameUnit(c, d) /\ d.count = c.count /\ d.tasks = T

\* The first,
LEMMA CountIs ==
    ASSUME NEW c, NEW n, NEW d, Counted(c, n, d)
    PROVE  HasCount(c, n, d)
BY DEF Counted, HasCount, SameUnit, LaxUnit

\* and the second.
LEMMA HoldersAre ==
    ASSUME NEW c, NEW T, NEW d, Held(c, T, d)
    PROVE  HasHolders(c, T, d)
BY DEF Held, HasHolders, SameUnit, LaxUnit

\* The locks of both CPUs are intact.
LEMMA HasMovedIs ==
    ASSUME NEW lost, NEW t, NEW old, NEW c, Moving(lost, t, old, c),
           NEW r, r = WithMoved(kernel, t, old, c)
    PROVE  HasMoved(lost, t, old, c, r)
<1>1. /\ lost \in SUBSET Tasks /\ IInv(lost) /\ t \in Tasks
      /\ old \in Cpus /\ c \in Cpus /\ old # c
      /\ kernel.hwse[t].cfs_rq = old /\ t \in kernel.cui[old].tasks
      /\ \A v \in Ids \ {old} : t \notin kernel.cui[v].tasks
    BY Zenon DEF Moving
<1>2. old \in Ids /\ c \in Ids /\ kernel \in KernelState
    BY <1>1, UnitsAssumption DEF IInv, Typed
<1>3. /\ kernel.cui \in [Ids -> LaxUnit] /\ kernel.hwse \in [Tasks -> Entity]
      /\ kernel.hwse[t] \in Entity
    BY <1>1, <1>2 DEF KernelState
<1>4. PICK x, y, h : x = kernel.cui[old] /\ y = kernel.cui[c] /\ h = kernel.hwse
    OBVIOUS
<1>5. /\ x \in LaxUnit /\ y \in LaxUnit /\ t \in x.tasks /\ t \notin y.tasks
      /\ UnitInv(x, h, {}, 0, lost) /\ UnitInv(y, h, {}, 0, lost)
    BY <1>1, <1>2, <1>3, <1>4, CpuLockIs
<1>6. PICK m \in Int, n \in Int, X \in SUBSET Tasks, Y \in SUBSET Tasks :
        /\ m = Down(x.count) /\ n = Up(y.count)
        /\ X = x.tasks \ {t} /\ Y = y.tasks \cup {t}
    <2>1. x.count \in Int /\ y.count \in Int /\ x.tasks \subseteq Tasks /\ y.tasks \subseteq Tasks
        BY <1>5 DEF LaxUnit
    <2>2. Down(x.count) \in Int /\ Up(y.count) \in Int
        BY <2>1, UnitsAssumption DEF Down, Up
    <2>3. x.tasks \ {t} \in SUBSET Tasks /\ y.tasks \cup {t} \in SUBSET Tasks
        BY <1>1, <2>1
    <2> QED BY <2>2, <2>3
<1>7. PICK x1, x2, y1, y2 : /\ x1 = [x EXCEPT !.tasks = X] /\ x2 = [x1 EXCEPT !.count = m]
                            /\ y1 = [y EXCEPT !.count = n] /\ y2 = [y1 EXCEPT !.tasks = Y]
    OBVIOUS
<1>8. SameUnit(x, x2) /\ x2.count = m /\ x2.tasks = X /\ x1 \in LaxUnit /\ x1.count = x.count
    <2>1. HasHolders(x, X, x1)
        BY <1>5, <1>7, HoldersAre, Zenon DEF Held
    <2>2. HasCount(x1, m, x2)
        BY <1>7, <2>1, CountIs, Zenon DEF Counted, HasHolders, SameUnit
    <2> QED BY <2>1, <2>2, Zenon DEF HasHolders, HasCount, SameUnit
<1>9. SameUnit(y, y2) /\ y2.count = n /\ y2.tasks = Y /\ y1 \in LaxUnit /\ y1.tasks = y.tasks
    <2>1. HasCount(y, n, y1)
        BY <1>5, <1>7, CountIs, Zenon DEF Counted
    <2>2. HasHolders(y1, Y, y2)
        BY <1>7, <2>1, HoldersAre, Zenon DEF Held, HasCount, SameUnit
    <2> QED BY <2>1, <2>2, Zenon DEF HasHolders, HasCount, SameUnit
<1>10. PICK e : e = [h[t] EXCEPT !.cfs_rq = c]
    OBVIOUS
<1>11. e \in Entity /\ e.cfs_rq = c
    BY <1>2, <1>3, <1>4, <1>10 DEF Entity
<1>12. PICK p : p = WithEntity(kernel, t, e)
    OBVIOUS
<1>13. /\ p \in KernelState /\ p.cui = kernel.cui /\ p.hwse[t] = e
       /\ \A z \in Tasks \ {t} : p.hwse[z] = kernel.hwse[z]
    <2>1. EntityPut(kernel, t, e, p)
        BY <1>1, <1>2, <1>11, <1>12, EntityIs, Zenon
    <2> QED BY <2>1, Zenon DEF EntityPut
<1>14. PICK q, a, b, d, g :
        /\ q = kernel.cui /\ a = [q EXCEPT ![old] = x1]
        /\ b = [a EXCEPT ![old] = x2] /\ d = [b EXCEPT ![c] = y1]
        /\ g = [d EXCEPT ![c] = y2]
    OBVIOUS
<1>15. q \in [Ids -> LaxUnit] /\ x2 \in LaxUnit /\ y2 \in LaxUnit
    BY <1>3, <1>8, <1>9, <1>14, Zenon DEF SameUnit
<1>16. /\ a \in [Ids -> LaxUnit] /\ b \in [Ids -> LaxUnit]
       /\ d \in [Ids -> LaxUnit] /\ g \in [Ids -> LaxUnit]
    BY <1>8, <1>9, <1>14, <1>15
<1>17. /\ a[old] = x1 /\ a[c] = y /\ b[c] = y /\ d[c] = y1
       /\ g[old] = x2 /\ g[c] = y2
       /\ \A v \in Ids \ {old, c} : g[v] = kernel.cui[v]
    BY <1>1, <1>2, <1>4, <1>14, <1>15, <1>16
<1>18. LeaveList(kernel.cui, t) = a
    <2>1. \A v \in Ids \ {old} : t \notin q[v].tasks
        BY <1>1, <1>14
    <2>2. x1 = [q[old] EXCEPT !.tasks = @ \ {t}]
        BY <1>4, <1>6, <1>7, <1>14, Zenon
    <2>3. LeaveList(q, t) = [q EXCEPT ![old] = x1]
        BY <1>1, <1>2, <1>15, <2>1, <2>2, LeaveListIs
    <2> QED BY <1>14, <2>3
<1>19. [a EXCEPT ![old].count = Down(@), ![c].count = Up(@), ![c].tasks = @ \cup {t}] = g
    <2>1. /\ a[old].count = x.count /\ a[c].count = y.count /\ a[c].tasks = y.tasks
        BY <1>8, <1>17
    <2>2. b = [a EXCEPT ![old].count = m]
        BY <1>7, <1>14, <1>17, Zenon
    <2>3. d = [b EXCEPT ![c].count = n]
        BY <1>7, <1>14, <1>17, Zenon
    <2>4. g = [d EXCEPT ![c].tasks = Y]
        BY <1>7, <1>14, <1>17, Zenon
    <2>5. [a EXCEPT ![old].count = Down(@), ![c].count = Up(@), ![c].tasks = @ \cup {t}]
            = [a EXCEPT ![old].count = m, ![c].count = n, ![c].tasks = Y]
        BY <1>6, <2>1, Zenon
    <2>6. [a EXCEPT ![old].count = m, ![c].count = n, ![c].tasks = Y]
            = [[[a EXCEPT ![old].count = m] EXCEPT ![c].count = n] EXCEPT ![c].tasks = Y]
        BY Zenon
    <2> QED BY <2>2, <2>3, <2>4, <2>5, <2>6, Zenon
<1>20. r = [p EXCEPT !.cui = g]
    <2>1. r = [kernel EXCEPT !.hwse[t].cfs_rq = c, !.cui = g]
        BY <1>18, <1>19, Zenon DEF WithMoved
    <2>2. p = [kernel EXCEPT !.hwse[t].cfs_rq = c]
        BY <1>4, <1>10, <1>12, Zenon DEF WithEntity
    <2> QED BY <2>1, <2>2, Zenon
<1>21. r \in KernelState /\ r.cui = g /\ r.hwse = p.hwse
    BY <1>13, <1>16, <1>20 DEF KernelState
<1>22. /\ UnitInv(x2, r.hwse, {}, 0, lost) /\ x2.count <= x.count
    <2>1. PICK n0 : n0 = -1
        OBVIOUS
    <2>2. Recounts(x, h, lost, t, n0, x2, r.hwse)
        BY <1>1, <1>5, <1>6, <1>8, <2>1 DEF Recounts, SameUnit
    <2>3. UnitInv(x2, r.hwse, {}, 0, lost)
        BY <2>2, RecountsIs, Zenon
    <2>6. x2.count = x.count + n0
        BY <2>2, RecountsIs
    <2>4. x.count \in Int
        BY <1>5 DEF LaxUnit
    <2>5. x2.count <= x.count
        BY <2>1, <2>6, <2>4
    <2> QED BY <2>3, <2>5
<1>23. /\ UnitInv(y2, r.hwse, {}, 0, lost) /\ y2.count <= UintMax
    <2>1. PICK n0 : n0 = 1
        OBVIOUS
    <2>2. Recounts(y, h, lost, t, n0, y2, r.hwse)
        BY <1>1, <1>5, <1>6, <1>9, <2>1 DEF Recounts, SameUnit
    <2> QED BY <2>2, RecountsIs, Zenon
<1>24. ASSUME NEW v \in Ids
       PROVE  /\ r.cui[v].type = kernel.cui[v].type
              /\ r.cui[v].listed = kernel.cui[v].listed
              /\ r.cui[v].online = kernel.cui[v].online
              /\ r.cui[v].maxcount = kernel.cui[v].maxcount
              /\ kernel.cui[v].tasks \ r.cui[v].tasks \subseteq {t}
              /\ r.cui[v].tasks \subseteq kernel.cui[v].tasks \cup {t}
              /\ r.cui[v].tree = kernel.cui[v].tree
              /\ r.cui[v].curr = kernel.cui[v].curr
              /\ v # c => t \notin r.cui[v].tasks
    <2>1. CASE v = old
        BY <1>4, <1>6, <1>8, <1>17, <1>21, <2>1 DEF SameUnit
    <2>2. CASE v = c
        BY <1>1, <1>4, <1>6, <1>9, <1>17, <1>21, <2>2 DEF SameUnit
    <2>3. CASE v # old /\ v # c
        <3>1. r.cui[v] = kernel.cui[v] /\ t \notin kernel.cui[v].tasks
            BY <1>1, <1>17, <1>21, <2>3
        <3> QED BY <3>1
    <2> QED BY <2>1, <2>2, <2>3
<1>25. PICK W, T : W = {old, c} /\ T = {t}
    OBVIOUS
<1>26. Within(kernel, r, W, T, Dead)
    <2>1. \A v \in Ids \ W : SameLock(kernel.cui[v], r.cui[v])
        BY <1>17, <1>21, <1>25 DEF SameLock
    <2>2. \A z \in Tasks \ T : r.hwse[z] = kernel.hwse[z]
        BY <1>13, <1>21, <1>25
    <2>3. \A v \in Ids :
            /\ r.cui[v].type = kernel.cui[v].type
            /\ r.cui[v].listed => kernel.cui[v].listed
            /\ r.cui[v].online => kernel.cui[v].online \/ v \in Cpus
            /\ v \in Cpus => r.cui[v].maxcount = kernel.cui[v].maxcount
            /\ kernel.cui[v].tasks \ r.cui[v].tasks \subseteq Dead \cup T
            /\ r.cui[v].tasks \subseteq kernel.cui[v].tasks \cup T
            /\ ToSet(r.cui[v].tree) \subseteq ToSet(kernel.cui[v].tree) \cup T
            /\ r.cui[v].curr \in {kernel.cui[v].curr, NoTask} \cup T \cup ToSet(kernel.cui[v].tree)
        BY <1>24, <1>25
    <2> QED BY <1>21, <2>1, <2>2, <2>3, Zenon DEF Within
<1>27. r.cui[old].count <= kernel.cui[old].count
    BY <1>4, <1>17, <1>21, <1>22
<1>28. /\ r.hwse[t].cfs_rq = c /\ t \in r.cui[c].tasks
       /\ \A v \in Ids \ {c} : t \notin r.cui[v].tasks
    BY <1>6, <1>9, <1>11, <1>13, <1>17, <1>21, <1>24
<1> QED BY <1>17, <1>21, <1>22, <1>23, <1>24, <1>25, <1>26, <1>27, <1>28 DEF HasMoved

MovesTo(lost, t, old, c, l) ==
    /\ lost \in SUBSET Tasks /\ IInv(lost) /\ t \in Tasks
    /\ old \in Cpus /\ c \in Cpus /\ old # c
    /\ kernel.hwse[t].cfs_rq = old /\ t \in kernel.cui[old].tasks
    /\ pc[t] = "dead" => l = "dead"
    /\ pc[t] \in HolderLabels /\ l \in HolderLabels /\ pc' = [pc EXCEPT ![t] = l]
    /\ my' \in [Tasks -> Ids \cup {CU_INVALID_HANDLE}] /\ (l # "dead" => my'[t] \in Cpus)
    /\ \A x \in Tasks \ {t} : my'[x] = my[x]
    /\ l \in {"got", "compute", "rerequest", "stay"} => workstatus[t] > 0
    /\ current_id' = current_id /\ balance' = balance /\ workstatus' = workstatus
    /\ cpu' \in [Tasks -> Cpus]
    /\ kernel' = WithMoved(kernel, t, old, c)

\* Such a step keeps the invariant.
LEMMA MovedKeeps ==
    ASSUME NEW lost, NEW t, NEW old, NEW c, NEW l, MovesTo(lost, t, old, c, l)
    PROVE  IInv(lost)' /\ Fits
<1>1. /\ lost \in SUBSET Tasks /\ IInv(lost) /\ t \in Tasks
      /\ old \in Cpus /\ c \in Cpus /\ old # c
      /\ kernel.hwse[t].cfs_rq = old /\ t \in kernel.cui[old].tasks
      /\ pc[t] = "dead" => l = "dead"
      /\ pc[t] \in HolderLabels /\ l \in HolderLabels /\ pc' = [pc EXCEPT ![t] = l]
      /\ my' \in [Tasks -> Ids \cup {CU_INVALID_HANDLE}] /\ (l # "dead" => my'[t] \in Cpus)
      /\ \A x \in Tasks \ {t} : my'[x] = my[x]
      /\ l \in {"got", "compute", "rerequest", "stay"} => workstatus[t] > 0
      /\ current_id' = current_id /\ balance' = balance /\ workstatus' = workstatus
      /\ cpu' \in [Tasks -> Cpus]
      /\ kernel' = WithMoved(kernel, t, old, c)
    BY Zenon DEF MovesTo
<1>2. /\ Typed /\ KindInv /\ BalanceInv /\ PlaceInv(t) /\ ListInv(t)
    BY <1>1, Zenon DEF IInv
<1>3. /\ pc \in [Tasks -> Labels] /\ current_id \in Ids /\ Cpus \subseteq 0 .. current_id
      /\ kernel \in KernelState /\ balance \in BalanceState \cup {NoBalance}
      /\ workstatus \in [Tasks -> Nat] /\ \A x \in Tasks : workstatus[x] <= Work[x]
    BY <1>2, Zenon DEF Typed
<1>4. PICK k, r : k = kernel /\ r = kernel'
    OBVIOUS
<1>5. Cpus \subseteq Ids
    BY UnitsAssumption
<1>6. Moving(lost, t, old, c)
    <2>1. \A v \in Ids : t \in kernel.cui[v].tasks => kernel.hwse[t].cfs_rq = v
        BY <1>2, Zenon DEF ListInv, Cui, Hwse
    <2>2. \A v \in Ids \ {old} : t \notin kernel.cui[v].tasks
        BY <1>1, <2>1
    <2> QED BY <1>1, <2>2, Zenon DEF Moving
<1>7. HasMoved(lost, t, old, c, r)
    BY <1>1, <1>4, <1>6, HasMovedIs, Zenon
<1>8. PICK W, T : W = {old, c} /\ T = {t}
    OBVIOUS
<1>9. /\ Within(k, r, W, T, Dead)
      /\ UnitInv(r.cui[old], r.hwse, {}, 0, lost)
      /\ UnitInv(r.cui[c], r.hwse, {}, 0, lost)
      /\ r.cui[old].count <= k.cui[old].count
      /\ r.cui[c].count <= UintMax
      /\ r.hwse[t].cfs_rq = c /\ t \in r.cui[c].tasks
      /\ \A v \in Ids \ {c} : t \notin r.cui[v].tasks
      /\ \A v \in Ids : /\ r.cui[v].tree = k.cui[v].tree /\ r.cui[v].curr = k.cui[v].curr
                        /\ r.cui[v].online = k.cui[v].online
    BY <1>4, <1>7, <1>8, Zenon DEF HasMoved
<1>10. /\ pc' \in [Tasks -> Labels] /\ pc'[t] = l
       /\ \A x \in Tasks \ {t} : pc'[x] = pc[x]
    <2>1. l \in Labels
        BY <1>1 DEF Labels, HolderLabels, Holding
    <2> QED BY <1>1, <1>3, <2>1
<1>11. r \in KernelState
    BY <1>9, Zenon DEF Within
<1>12. Typed'
    BY <1>1, <1>3, <1>4, <1>10, <1>11, Zenon DEF Typed
<1>13. BalanceInv'
    <2>1. pc[t] # "balancing"
        BY <1>1 DEF HolderLabels, Holding
    <2>2. \A v \in Ids : kernel'.cui[v].tree = kernel.cui[v].tree
        BY <1>4, <1>9
    <2>3. UNCHANGED balance
        BY <1>1
    <2> QED BY <1>1, <1>2, <1>10, <2>1, <2>2, <2>3, BalanceFrame, Zenon
<1>14. Section(lost, W, T)
    <2>1. \A x \in Tasks \ T :
            pc'[x] = pc[x] /\ my'[x] = my[x] /\ workstatus'[x] = workstatus[x]
        BY <1>1, <1>8, <1>10
    <2>2. pc[t] # "sleep" /\ pc'[t] # "sleep"
        BY <1>1, <1>10 DEF HolderLabels, Holding
    <2>3. \A x \in Tasks \cap T : \A v \in Ids \ W :
            ~(pc[x] = "sleep" /\ my[x] = v) /\ ~(pc'[x] = "sleep" /\ my'[x] = v)
        BY <1>8, <2>2
    <2>4. W \in SUBSET Ids
        BY <1>1, <1>5, <1>8
    <2> QED BY <1>1, <1>4, <1>9, <2>1, <2>3, <2>4, Zenon DEF Section
<1>15. ASSUME NEW w \in W
       PROVE  UnitInv(kernel'.cui[w], kernel'.hwse, Asleep(w)', 0, lost)
    <2>1. w \in Cpus /\ w \in {old, c}
        BY <1>1, <1>8
    <2>2. Asleep(w) = {}
        BY <1>1, <2>1, CpuLockIs
    <2>3. \A x \in Tasks : ~(pc'[x] = "sleep" /\ my'[x] = w)
        <3> SUFFICES ASSUME NEW x \in Tasks, pc'[x] = "sleep", my'[x] = w PROVE FALSE
            OBVIOUS
        <3>1. x # t
            BY <1>1, <1>10 DEF HolderLabels, Holding
        <3>2. pc[x] = "sleep" /\ my[x] = w
            BY <1>1, <1>10, <3>1
        <3> QED BY <2>2, <3>2 DEF Asleep
    <2>4. Asleep(w)' = {}
        BY <2>3 DEF Asleep
    <2>5. UnitInv(r.cui[w], r.hwse, {}, 0, lost)
        BY <1>9, <2>1
    <2> QED BY <1>4, <2>4, <2>5
<1>16. PlaceInv(t)'
    <2>1. /\ c \in Ids /\ c \in -1 .. current_id'
          /\ l # "dead" => my'[t] \in 0 .. current_id'
        <3>1. c \in 0 .. current_id /\ c \in Ids
            BY <1>1, <1>3, <1>5
        <3>2. current_id \in Nat
            BY <1>2, IdBelow
        <3>3. l # "dead" => my'[t] \in 0 .. current_id
            BY <1>1, <1>3
        <3> QED BY <1>1, <3>1, <3>2, <3>3
    <2>2. l \in HolderLabels /\ l \notin {"search", "lock", "sleep", "trydel"}
        BY <1>1 DEF HolderLabels, Holding
    <2>3. l \in {"search", "lock", "sleep", "trydel", "got", "compute", "rerequest", "stay"}
            => workstatus'[t] > 0
        BY <1>1, <2>2
    <2>4. r.hwse[t].cfs_rq \in Ids /\ t \in r.cui[r.hwse[t].cfs_rq].tasks
        BY <1>9, <2>1
    <2>5. /\ r.hwse[t].cfs_rq \in Cpus /\ r.hwse[t].cfs_rq \in -1 .. current_id'
          /\ l \in {"got"} \cup Holding => my'[t] \in Cpus
        <3>1. l \in {"got"} \cup Holding => l # "dead"
            BY DEF Holding
        <3> QED BY <1>1, <1>9, <2>1, <3>1
    <2>6. l \notin {"user", "search", "done", "dead"} => my'[t] \in 0 .. current_id'
        BY <2>1
    <2>7. l # "lock" /\ l # "sleep"
        BY <2>2
    <2> QED BY <1>4, <1>10, <2>2, <2>3, <2>4, <2>5, <2>6, <2>7, Zenon DEF PlaceInv, Cui, Hwse
<1>17. ListInv(t)'
    <2>1. ASSUME NEW u \in Ids, t \in r.cui[u].tasks
          PROVE  r.hwse[t].cfs_rq = u /\ l \in HolderLabels
        BY <1>1, <1>9, <2>1 DEF HolderLabels
    <2>2. ASSUME NEW u \in Ids \ Cpus, r.cui[u].curr = t
          PROVE  ~r.cui[u].online \/ l = "dead"
        <3>1. k.cui[u].curr = t
            BY <1>9, <2>2
        <3>2. \/ ~k.cui[u].online \/ t \in k.cui[u].tasks
              \/ t \in Asleep(u) /\ ~k.hwse[t].need_migrate
              \/ pc[t] \in {"done", "dead"}
            BY <1>2, <1>4, <3>1, Zenon DEF ListInv, Cui, Hwse
        <3>3. t \notin k.cui[u].tasks
            BY <1>1, <1>4, <1>6 DEF Moving
        <3>4. t \notin Asleep(u) /\ (pc[t] \in {"done", "dead"} => l = "dead")
            BY <1>1 DEF Asleep, HolderLabels, Holding
        <3> QED BY <1>9, <3>2, <3>3, <3>4
    <2> QED BY <1>4, <1>10, <2>1, <2>2, Zenon DEF ListInv, Cui, Hwse
<1>18. \A x \in Tasks \cap T : PlaceInv(x)' /\ ListInv(x)'
    <2> SUFFICES ASSUME NEW x \in Tasks \cap T PROVE PlaceInv(x)' /\ ListInv(x)'
        OBVIOUS
    <2>1. x = t
        BY <1>8
    <2> QED BY <1>16, <1>17, <2>1
<1>19. Fits
    <2> SUFFICES ASSUME NEW v \in Ids, r.cui[v].count > k.cui[v].count
                 PROVE  r.cui[v].count <= r.cui[v].maxcount
        BY <1>4, Zenon DEF Fits
    <2>1. r.cui[v].count \in Int /\ k.cui[v].count \in Int
        BY <1>3, <1>4, <1>11 DEF KernelState, LaxUnit
    <2>2. v # old
        BY <1>9, <2>1
    <2>3. v \in W
        <3>1. v \notin W => SameLock(k.cui[v], r.cui[v])
            BY <1>9, Zenon DEF Within
        <3> QED BY <2>1, <3>1 DEF SameLock
    <2>4. v = c
        BY <1>8, <2>2, <2>3
    <2>5. k.cui[c].maxcount = UintMax
        BY <1>1, <1>2, <1>4, <1>5 DEF KindInv, Cui
    <2>6. r.cui[c].maxcount = k.cui[c].maxcount
        BY <1>1, <1>5, <1>9 DEF Within
    <2> QED BY <1>9, <2>4, <2>5, <2>6
<1>20. IInv(lost)'
    BY <1>12, <1>13, <1>14, <1>15, <1>18, Assembled, Zenon
<1> QED BY <1>19, <1>20

\* Whether a thread has a slot to take along.
Stays(t, c) ==
    LET old == kernel.hwse[t].cfs_rq
    IN  old = CU_INVALID_HANDLE \/ ~IsCpu(kernel.cui[old]) \/ old = c

\* set_task_rq_hw moves a slot from CPU to CPU or does nothing.
LEMMA MovedIs ==
    ASSUME NEW lost, IInv(lost), NEW t \in Tasks, NEW c
    PROVE  /\ Stays(t, c) => Moved(kernel, t, c) = kernel
           /\ ~Stays(t, c) =>
                /\ Moved(kernel, t, c) = WithMoved(kernel, t, kernel.hwse[t].cfs_rq, c)
                /\ kernel.hwse[t].cfs_rq \in Cpus /\ kernel.hwse[t].cfs_rq # c
                /\ pc[t] \in HolderLabels
<1>1. Typed /\ KindInv /\ PlaceInv(t)
    BY Zenon DEF IInv
<1>2. PICK old : old = kernel.hwse[t].cfs_rq
    OBVIOUS
<1>3. Stays(t, c) => Moved(kernel, t, c) = kernel
    BY Zenon DEF Stays, Moved
<1>4. ASSUME ~Stays(t, c)
      PROVE  Moved(kernel, t, c) = WithMoved(kernel, t, kernel.hwse[t].cfs_rq, c)
    BY <1>4, Zenon DEF Stays, Moved, WithMoved
<1>5. ASSUME ~Stays(t, c)
      PROVE  old \in Cpus /\ old # c
    <2>1. old # CU_INVALID_HANDLE /\ IsCpu(kernel.cui[old]) /\ old # c
        BY <1>2, <1>5, Zenon DEF Stays
    <2>2. old \in -1 .. current_id /\ current_id \in Nat
        BY <1>1, <1>2, IdBelow DEF PlaceInv, Hwse
    <2>3. old \in 0 .. current_id
        BY <2>1, <2>2 DEF CU_INVALID_HANDLE
    <2>4. old \in Ids /\ old <= current_id
        BY <1>1, <2>2, <2>3, IdBelow
    <2>5. old \notin Cpus => ~IsCpu(kernel.cui[old])
        BY <1>1, <2>4 DEF KindInv, Cui
    <2> QED BY <2>1, <2>5
<1>6. old \in Cpus => pc[t] \in HolderLabels
    BY <1>1, <1>2 DEF PlaceInv, Hwse
<1> QED BY <1>2, <1>3, <1>4, <1>5, <1>6

\* Linux moves a thread; a dead one takes a slot along only if it has it.
LEMMA MigrateKeeps ==
    ASSUME NEW lost \in SUBSET Tasks, IInv(lost), NEW t \in Tasks, NEW c \in Cpus,
           Migrate(t, c), ~astray'
    PROVE  IInv(lost)' /\ Fits
<1>1. Typed /\ PlaceInv(t)
    BY Zenon DEF IInv
<1>2. PICK old, l : old = kernel.hwse[t].cfs_rq /\ l = pc[t]
    OBVIOUS
<1>3. /\ pc[t] \in Migrations /\ cpu' = [cpu EXCEPT ![t] = c]
      /\ kernel' = Moved(kernel, t, c)
      /\ current_id' = current_id /\ balance' = balance /\ pc' = pc /\ my' = my
      /\ workstatus' = workstatus
      /\ kernel' # kernel => t \in kernel.cui[old].tasks
    BY <1>2 DEF Migrate, Cui, Hwse
<1>4. cpu' \in [Tasks -> Cpus]
    BY <1>1, <1>3 DEF Typed
<1>5. CASE kernel' = kernel
    BY <1>3, <1>4, <1>5, NothingKeeps, Zenon
<1>6. CASE kernel' # kernel
    <2>1. ~Stays(t, c)
        BY <1>3, <1>6, MovedIs, Zenon
    <2>2. /\ kernel' = WithMoved(kernel, t, old, c) /\ old \in Cpus /\ old # c
          /\ l \in HolderLabels
        BY <1>2, <1>3, <2>1, MovedIs, Zenon
    <2>3. pc \in [Tasks -> Labels] /\ my \in [Tasks -> Ids \cup {CU_INVALID_HANDLE}]
        BY <1>1, Zenon DEF Typed
    <2>4. pc' = [pc EXCEPT ![t] = l]
        BY <1>2, <1>3, <2>3
    <2>5. l # "dead" => my'[t] \in Cpus
        <3>1. l # "dead" => l \in {"got"} \cup Holding
            BY <2>2 DEF HolderLabels
        <3> QED BY <1>1, <1>2, <1>3, <2>2, <3>1, Zenon DEF PlaceInv, Hwse
    <2>6. l \in {"got", "compute", "rerequest", "stay"} => workstatus[t] > 0
        BY <1>1, <1>2 DEF PlaceInv
    <2>7. MovesTo(lost, t, old, c, l)
        BY <1>2, <1>3, <1>4, <1>6, <2>2, <2>3, <2>4, <2>5, <2>6, Zenon DEF MovesTo
    <2> QED BY <2>7, MovedKeeps, Zenon
<1> QED BY <1>5, <1>6

\* alloc puts the thread on its processor and returns.
LEMMA ReturnFromAllocKeeps ==
    ASSUME NEW lost \in SUBSET Tasks, IInv(lost), NEW t \in Tasks, ReturnFromAlloc(t)
    PROVE  IInv(lost)' /\ Fits
<1>1. AtUnit(t) /\ Typed /\ PlaceInv(t)
    BY AtUnitIs, Zenon DEF IInv
<1>2. pc[t] = "got"
    BY DEF ReturnFromAlloc
<1>3. PICK c \in Placements(t) :
        /\ cpu' = [cpu EXCEPT ![t] = c] /\ kernel' = Moved(kernel, t, c)
        /\ my' = [my EXCEPT ![t] = kernel'.hwse[t].cfs_rq]
    BY Zenon DEF ReturnFromAlloc
<1>4. PICK l \in {"compute", "freeing"} : pc' = [pc EXCEPT ![t] = l]
    BY DEF ReturnFromAlloc, Goto
<1>5. /\ current_id' = current_id /\ balance' = balance /\ workstatus' = workstatus
    BY DEF ReturnFromAlloc
<1>6. c \in Cpus
    <2>1. kernel.active \subseteq Cpus /\ cpu[t] \in Cpus
        BY <1>1 DEF Typed, KernelState
    <2> QED BY <2>1 DEF Placements
<1>7. cpu' \in [Tasks -> Cpus] /\ workstatus \in [Tasks -> Nat]
      /\ \A x \in Tasks : workstatus[x] <= Work[x]
    BY <1>1, <1>3, <1>6 DEF Typed
<1>8. /\ my \in [Tasks -> Ids \cup {CU_INVALID_HANDLE}] /\ workstatus[t] > 0
      /\ kernel.hwse[t].cfs_rq \in Ids /\ kernel.hwse[t].cfs_rq \in 0 .. current_id
      /\ kernel \in KernelState
    BY <1>1, <1>2 DEF AtUnit
<1>9. CASE Stays(t, c)
    <2>1. kernel' = kernel
        BY <1>3, <1>9, MovedIs, Zenon
    <2>2. /\ my' \in [Tasks -> Ids \cup {CU_INVALID_HANDLE}]
          /\ \A x \in Tasks \ {t} : my'[x] = my[x]
          /\ my'[t] = kernel.hwse[t].cfs_rq
        BY <1>3, <1>8, <2>1
    <2>3. Within(kernel, kernel', {}, {t}, Dead) /\ kernel'.hwse[t].cfs_rq = kernel.hwse[t].cfs_rq
        <3>1. Within(kernel, kernel, {}, {t}, Dead)
            BY <1>8, NothingWithin, Zenon
        <3> QED BY <2>1, <3>1
    <2>4. Elsewhere(t)
        BY <1>5, <1>7 DEF Elsewhere
    <2>5. Quiet(lost, t, l)
        BY <1>2, <1>4, <1>5, <1>8, <2>2, <2>3, <2>4 DEF Quiet, Labels, HolderLabels, Holding
    <2> QED BY <2>5, QuietIs, Zenon
<1>10. CASE ~Stays(t, c)
    <2>1. PICK old : old = kernel.hwse[t].cfs_rq
        OBVIOUS
    <2>2. /\ kernel' = WithMoved(kernel, t, old, c) /\ old \in Cpus /\ old # c
        BY <1>3, <1>10, <2>1, MovedIs, Zenon
    <2>3. /\ pc[t] \in {"got"} \cup Holding /\ pc[t] \in HolderLabels
          /\ l \in HolderLabels /\ pc[t] # "dead"
        BY <1>2, <1>4 DEF HolderLabels, Holding
    <2>6. t \in kernel.cui[old].tasks
        BY <1>1, <2>1, <2>3, Zenon DEF PlaceInv, Cui, Hwse
    <2>4. kernel'.hwse[t].cfs_rq = c
        <3>1. PICK r : r = kernel'
            OBVIOUS
        <3>2. Moving(lost, t, old, c)
            <4>1. t \in kernel.cui[old].tasks
                BY <2>6
            <4>2. ListInv(t)
                BY Zenon DEF IInv
            <4>3. \A v \in Ids : t \in kernel.cui[v].tasks => kernel.hwse[t].cfs_rq = v
                BY <4>2, Zenon DEF ListInv, Cui, Hwse
            <4>4. \A v \in Ids \ {old} : t \notin kernel.cui[v].tasks
                BY <2>1, <4>3
            <4> QED BY <1>6, <2>1, <2>2, <4>1, <4>4, Zenon DEF Moving
        <3>3. HasMoved(lost, t, old, c, r)
            BY <2>2, <3>1, <3>2, HasMovedIs, Zenon
        <3> QED BY <3>1, <3>3, Zenon DEF HasMoved
    <2>5. /\ my' \in [Tasks -> Ids \cup {CU_INVALID_HANDLE}]
          /\ \A x \in Tasks \ {t} : my'[x] = my[x]
          /\ my'[t] = c
        <3>1. c \in Ids
            BY <1>6, UnitsAssumption
        <3> QED BY <1>3, <1>8, <2>4, <3>1
    <2>7. MovesTo(lost, t, old, c, l)
        BY <1>4, <1>5, <1>6, <1>7, <1>8, <2>1, <2>2, <2>3, <2>5, <2>6, Zenon DEF MovesTo
    <2> QED BY <2>7, MovedKeeps, Zenon
<1> QED BY <1>9, <1>10

-----------------------------------------------------------------------------
(* The first state, and every step.                                        *)

\* The units there are at the start.
LEMMA BootedIs ==
    /\ Cardinality(Cpus) \in Nat \ {0} /\ Len(Boot) \in Nat
    /\ Booted = Cardinality(Cpus) + Len(Boot)
    /\ Booted - 1 \in Ids /\ Cpus \subseteq 0 .. Booted - 1 /\ 0 \in Cpus
<1>1. IsFiniteSet(Cpus)
    <2>1. IsFiniteSet(0 .. MaxId)
        BY UnitsAssumption, FS_Interval
    <2> QED BY <2>1, UnitsAssumption, FS_Subset DEF Ids
<1>2. PICK n \in Nat : n = Cardinality(Cpus)
    BY <1>1, FS_CardinalityType
<1>3. PICK m \in Nat : m = Len(Boot)
    BY KssAssumption
<1>4. Cpus = 0 .. n - 1 /\ Cpus # {} /\ n + m <= MaxId + 1 /\ MaxId \in Nat
    BY <1>2, <1>3, UnitsAssumption, KssAssumption
<1>5. n # 0
    BY <1>4
<1>6. Booted = n + m
    BY <1>2, <1>3 DEF Booted
<1>7. Booted - 1 \in Ids /\ Cpus \subseteq 0 .. Booted - 1 /\ 0 \in Cpus
    BY <1>4, <1>5, <1>6 DEF Ids
<1> QED BY <1>2, <1>3, <1>5, <1>6, <1>7

\* Memory that never was a unit counts as one.
LEMMA NoUnitIs == Unused(NoUnit) /\ ~NoUnit.listed
<1>1. PICK c : c = NewUnit(CPU, 0)
    OBVIOUS
<1>2. Unused(c)
    <2>1. CPU \in Types /\ 0 \in 0 .. UintMax
        BY UnitsAssumption DEF CPU, Types
    <2> QED BY <1>1, <2>1, NewUnitIs
<1>3. PICK d : d = [c EXCEPT !.listed = FALSE]
    OBVIOUS
<1>4. Unused(d) /\ ~d.listed
    BY <1>2, <1>3 DEF Unused, LaxUnit
<1>5. NoUnit = [d EXCEPT !.online = FALSE]
    BY <1>1, <1>3, Zenon DEF NoUnit
<1> QED BY <1>4, <1>5 DEF Unused, LaxUnit

\* The first units are of the kinds KindInv wants.
LEMMA InitialUnit ==
    ASSUME NEW u \in Ids
    PROVE  /\ Unused(InitialCui[u])
           /\ u \in Cpus => IsCpu(InitialCui[u]) /\ InitialCui[u].maxcount = UintMax
           /\ u \notin Cpus /\ u <= Booted - 1 => ~IsCpu(InitialCui[u])
           /\ u > Booted - 1 => ~InitialCui[u].listed
<1>1. PICK n, m : n = Cardinality(Cpus) /\ m = Len(Boot)
    OBVIOUS
<1>2. /\ n \in Nat \ {0} /\ m \in Nat /\ Booted = n + m /\ Cpus = 0 .. n - 1
      /\ u \in Nat /\ UintMax \in Nat
    BY <1>1, BootedIs, UnitsAssumption DEF Ids
<1>3. CASE u \in Cpus
    <2>1. InitialCui[u] = NewUnit(CPU, UintMax)
        BY <1>3 DEF InitialCui
    <2>2. CPU \in Types /\ UintMax \in 0 .. UintMax
        BY <1>2 DEF CPU, Types
    <2>3. ~(u > Booted - 1)
        BY <1>2, <1>3
    <2> QED BY <1>3, <2>1, <2>2, <2>3, NewUnitIs DEF IsCpu
<1>4. CASE u \notin Cpus /\ u < Booted
    <2>1. PICK i : i = u - n + 1
        OBVIOUS
    <2>2. i \in 1 .. m
        BY <1>2, <1>4, <2>1
    <2>3. PICK b : b = Boot[i]
        OBVIOUS
    <2>4. b \in HardwareUnit
        BY <1>1, <2>2, <2>3, KssAssumption
    <2>5. b.type \in Types /\ b.type # CPU /\ b.slots \in 0 .. UintMax
        BY <1>2, <2>4 DEF HardwareUnit
    <2>6. InitialCui[u] = NewUnit(b.type, b.slots)
        BY <1>1, <1>4, <2>1, <2>3 DEF InitialCui
    <2>7. ~(u > Booted - 1)
        BY <1>2, <1>4
    <2> QED BY <1>4, <2>5, <2>6, <2>7, NewUnitIs DEF IsCpu
<1>5. CASE u \notin Cpus /\ ~(u < Booted)
    <2>1. InitialCui[u] = NoUnit
        BY <1>5 DEF InitialCui
    <2>2. ~(u <= Booted - 1)
        BY <1>2, <1>5
    <2> QED BY <1>5, <2>1, <2>2, NoUnitIs
<1> QED BY <1>3, <1>4, <1>5

\* The invariant holds at the start.
LEMMA InitIs ==
    ASSUME NEW lost \in SUBSET Tasks, Init
    PROVE  IInv(lost)
<1>1. /\ kernel = [cui |-> InitialCui, hwse |-> [t \in Tasks |-> NewEntity],
                   active |-> Cpus, nr_devices |-> Booted]
      /\ current_id = Booted - 1 /\ balance = NoBalance
      /\ pc = [t \in Tasks |-> "user"]
      /\ my = [t \in Tasks |-> CU_INVALID_HANDLE]
      /\ cpu \in [Tasks -> {0}] /\ workstatus = Work
    BY DEF Init
<1>2. kernel.cui = InitialCui /\ \A t \in Tasks : kernel.hwse[t] = NewEntity
    BY <1>1
<1>3. NewEntity \in Entity /\ NewEntity.cfs_rq = -1
    BY DEF NewEntity, Entity, CU_INVALID_HANDLE
<1>4. kernel \in KernelState
    <2>1. \A u \in Ids : InitialCui[u] \in LaxUnit
        BY InitialUnit DEF Unused
    <2>2. InitialCui \in [Ids -> LaxUnit]
        <3>1. InitialCui = [u \in Ids |-> InitialCui[u]]
            BY Zenon DEF InitialCui
        <3> QED BY <2>1, <3>1
    <2>3. [t \in Tasks |-> NewEntity] \in [Tasks -> Entity]
        BY <1>3
    <2>4. Booted \in Int /\ Cpus \in SUBSET Cpus
        BY BootedIs
    <2> QED BY <1>1, <2>2, <2>3, <2>4 DEF KernelState
<1>5. Typed
    <2>1. current_id \in Ids /\ Cpus \subseteq 0 .. current_id /\ cpu \in [Tasks -> Cpus]
        BY <1>1, BootedIs
    <2>2. pc \in [Tasks -> Labels] /\ my \in [Tasks -> Ids \cup {CU_INVALID_HANDLE}]
        BY <1>1 DEF Labels
    <2>3. workstatus \in [Tasks -> Nat] /\ \A t \in Tasks : workstatus[t] <= Work[t]
        BY <1>1, KssAssumption
    <2> QED BY <1>1, <1>4, <2>1, <2>2, <2>3 DEF Typed
<1>6. \A u \in Ids : Asleep(u) = {}
    BY <1>1 DEF Asleep
<1>7. UnitsInv(lost)
    <2> SUFFICES ASSUME NEW u \in Ids
                 PROVE  UnitInv(kernel.cui[u], kernel.hwse, Asleep(u), 0, lost)
        BY Zenon DEF UnitsInv, Cui, Hwse
    <2>1. Unused(kernel.cui[u])
        BY <1>2, InitialUnit
    <2>2. UnitInv(kernel.cui[u], kernel.hwse, {}, 0, lost)
        BY <2>1, UnusedIs, Zenon
    <2> QED BY <1>6, <2>2
<1>8. KindInv
    BY <1>1, <1>2, InitialUnit DEF KindInv, Cui
<1>9. BalanceInv
    BY <1>1 DEF BalanceInv
<1>10. ASSUME NEW t \in Tasks PROVE PlaceInv(t) /\ ListInv(t)
    <2>1. pc[t] = "user" /\ kernel.hwse[t].cfs_rq = -1
        BY <1>1, <1>2, <1>3
    <2>2. -1 \notin Cpus /\ -1 \in -1 .. current_id
        BY <1>1, BootedIs, UnitsAssumption DEF Ids
    <2>3. PlaceInv(t)
        BY <2>1, <2>2 DEF PlaceInv, Hwse, Holding
    <2>4. t # NoTask
        BY UnitsAssumption
    <2>5. \A u \in Ids : t \notin kernel.cui[u].tasks /\ kernel.cui[u].curr # t
        BY <1>2, <2>4, InitialUnit DEF Unused
    <2>6. ListInv(t)
        BY <2>5 DEF ListInv, Cui
    <2> QED BY <2>3, <2>6
<1> QED BY <1>5, <1>7, <1>8, <1>9, <1>10, Zenon DEF IInv

\* The steps of threads and of kernels keep what the model remembers, except that
\* computing_unit_free compares the unit named with the slot in hand.
LEMMA ThreadHistory ==
    ASSUME NEW t \in Tasks, ThreadStep(t) \/ Interrupted(t) \/ Kill(t)
    PROVE  forgotten' = forgotten /\ (astray' = astray \/ FreesSlot(t))
<1>1. CASE FreeUnit(t)
    BY <1>1, Zenon DEF FreeUnit, FreesSlot
<1>2. CASE InCall
    BY <1>2, Zenon DEF InCall, history
<1>3. CASE ~FreeUnit(t) /\ ~InCall
    <2>1. UNCHANGED history
        BY <1>3, Zenon DEF ThreadStep, FindBestUnit, LockUnit, WakeUp, TryDelete,
            ReturnFromAlloc, Compute, Rerequest, CheckOffer, AfterFree, DeleteOrBalance,
            Interrupted, Kill
    <2> QED BY <2>1, Zenon DEF history
<1> QED BY <1>1, <1>2, <1>3, Zenon

LEMMA BalanceHistory ==
    ASSUME BalanceStep
    PROVE  forgotten' = forgotten /\ astray' = astray
<1>1. InCall
    <2>1. CASE LookAtWaiting
        BY <2>1, Zenon DEF LookAtWaiting
    <2>2. CASE PullCandidate
        BY <2>2, Zenon DEF PullCandidate
    <2>3. CASE OfferToRunning
        BY <2>3, Zenon DEF OfferToRunning
    <2> QED BY <2>1, <2>2, <2>3, Zenon DEF BalanceStep
<1> QED BY <1>1, Zenon DEF InCall, history

\* A slot that has gone astray stays so.
LEMMA AstrayGrows ==
    ASSUME [Next]_vars, astray \in BOOLEAN
    PROVE  astray' \in BOOLEAN /\ (~astray' => ~astray)
<1>1. ASSUME NEW t \in Tasks, ThreadStep(t) \/ Interrupted(t) \/ Kill(t)
      PROVE  astray' = astray \/ FreesSlot(t)
    BY <1>1, ThreadHistory, Zenon
<1>2. ASSUME BalanceStep \/ Shutdown \/ UNCHANGED vars
      PROVE  astray' = astray
    <2>1. CASE BalanceStep
        BY <2>1, BalanceHistory, Zenon
    <2>2. CASE Shutdown \/ UNCHANGED vars
        BY <2>2, Zenon DEF Shutdown, vars, history
    <2> QED BY <1>2, <2>1, <2>2, Zenon
<1>3. CASE Administrate
    BY <1>3 DEF Administrate, AddUnit, EnableCpu, DelUnit, SetUnit, history
<1>4. ASSUME NEW t \in Tasks, NEW c \in Cpus, Migrate(t, c)
      PROVE  astray' \in BOOLEAN /\ (~astray' => ~astray)
    BY <1>4 DEF Migrate
<1>5. ASSUME NEW t \in Tasks, FreesSlot(t)
      PROVE  astray' \in BOOLEAN /\ (~astray' => ~astray)
    BY <1>5 DEF FreesSlot
<1>6. astray' = astray => astray' \in BOOLEAN /\ (~astray' => ~astray)
    OBVIOUS
<1> QED BY <1>1, <1>2, <1>3, <1>4, <1>5, <1>6, Zenon DEF Next

\* Every step keeps the invariant, for the threads that set has forgotten by then,
\* unless it releases or moves a slot that belongs elsewhere.
LEMMA NextKeeps ==
    ASSUME NEW lost \in SUBSET Tasks, lost = forgotten, IInv(lost), [Next]_vars, ~astray',
           NEW after, after = forgotten'
    PROVE  after \in SUBSET Tasks /\ IInv(after)' /\ Fits
<1> DEFINE Kept == forgotten' = forgotten /\ IInv(lost)' /\ Fits
<1>1. ASSUME NEW t \in Tasks, ThreadStep(t)
      PROVE  Kept
    <2> forgotten' = forgotten
        BY <1>1, ThreadHistory, Zenon
    <2>1. CASE FindBestUnit(t)
        BY <2>1, FindBestUnitKeeps, Zenon
    <2>2. CASE LockUnit(t)
        BY <2>2, LockUnitKeeps, Zenon
    <2>3. CASE WakeUp(t)
        BY <2>3, WakeUpKeeps, Zenon
    <2>4. CASE TryDelete(t)
        BY <2>4, TryDeleteKeeps, Zenon
    <2>5. CASE ReturnFromAlloc(t)
        BY <2>5, ReturnFromAllocKeeps, Zenon
    <2>6. CASE Compute(t)
        BY <2>6, ComputeKeeps, Zenon
    <2>7. CASE Rerequest(t)
        BY <2>7, RerequestKeeps, Zenon
    <2>8. CASE CheckOffer(t)
        BY <2>8, CheckOfferKeeps, Zenon
    <2>9. CASE FreeUnit(t)
        BY <2>9, FreeUnitKeeps, Zenon
    <2>10. CASE AfterFree(t)
        BY <2>10, AfterFreeKeeps, Zenon
    <2>11. CASE DeleteOrBalance(t)
        BY <2>11, DeleteOrBalanceKeeps, Zenon
    <2> QED BY <1>1, <2>1, <2>2, <2>3, <2>4, <2>5, <2>6, <2>7, <2>8, <2>9, <2>10, <2>11,
               Zenon DEF ThreadStep
<1>2. ASSUME NEW t \in Tasks, Interrupted(t)
      PROVE  Kept
    BY <1>2, InterruptedKeeps, ThreadHistory, Zenon
<1>3. ASSUME NEW t \in Tasks, Kill(t)
      PROVE  Kept
    BY <1>3, KillKeeps, ThreadHistory, Zenon
<1>4. ASSUME BalanceStep
      PROVE  Kept
    <2> forgotten' = forgotten
        BY <1>4, BalanceHistory, Zenon
    <2>1. CASE LookAtWaiting
        BY <2>1, LookAtWaitingKeeps, Zenon
    <2>2. CASE PullCandidate
        BY <2>2, PullCandidateKeeps, Zenon
    <2>3. CASE OfferToRunning
        BY <2>3, OfferToRunningKeeps, Zenon
    <2> QED BY <1>4, <2>1, <2>2, <2>3, Zenon DEF BalanceStep
<1>5. ASSUME NEW b \in Additions, AddUnit(b)
      PROVE  Kept
    BY <1>5, AddUnitKeeps DEF AddUnit, history
<1>6. ASSUME NEW u \in Cpus, EnableCpu(u)
      PROVE  Kept
    BY <1>6, EnableCpuKeeps DEF EnableCpu, history
<1>7. ASSUME NEW u \in Ids, DelUnit(u)
      PROVE  Kept
    BY <1>7, DelUnitKeeps DEF DelUnit, history
<1>8. ASSUME NEW u \in Ids, NEW slots \in Slots, SetUnit(u, slots)
      PROVE  after \in SUBSET Tasks /\ IInv(after)' /\ Fits
    BY <1>8, SetUnitKeeps, Zenon
<1>9. ASSUME NEW t \in Tasks, NEW c \in Cpus, Migrate(t, c)
      PROVE  Kept
    BY <1>9, MigrateKeeps DEF Migrate
<1>10. ASSUME Shutdown \/ UNCHANGED vars
       PROVE  Kept
    <2>1. /\ kernel' = kernel /\ current_id' = current_id /\ balance' = balance /\ pc' = pc
          /\ my' = my /\ cpu' = cpu /\ workstatus' = workstatus
          /\ forgotten' = forgotten
        BY <1>10 DEF Shutdown, vars, history
    <2>2. cpu' \in [Tasks -> Cpus]
        BY <2>1 DEF IInv, Typed
    <2> QED BY <2>1, <2>2, NothingKeeps
<1>11. Kept => after \in SUBSET Tasks /\ IInv(after)' /\ Fits
    <2> SUFFICES ASSUME Kept PROVE after \in SUBSET Tasks /\ IInv(after)' /\ Fits
        OBVIOUS
    <2>1. after = lost
        OBVIOUS
    <2> QED BY <2>1
<1>12. CASE Administrate
    BY <1>5, <1>6, <1>7, <1>8, <1>11, <1>12, Zenon DEF Administrate
<1> HIDE DEF Kept
<1> QED BY <1>1, <1>2, <1>3, <1>4, <1>9, <1>10, <1>11, <1>12, Zenon DEF Next

-----------------------------------------------------------------------------
(* What the invariant says.                                                *)

\* The parts of the invariant that count.
LEMMA HeldIs ==
    ASSUME NEW lost, IInv(lost)
    PROVE  SlotsAreHeld
<1>1. /\ Typed /\ UnitsInv(lost) /\ \A t \in Tasks : PlaceInv(t) /\ ListInv(t)
    BY Zenon DEF IInv
<1>2. kernel \in KernelState
    BY <1>1, Zenon DEF Typed
<1>3. ASSUME NEW u \in Ids
      PROVE  Cui[u].count = Cardinality(Cui[u].tasks)
                          + Cardinality({t \in Asleep(u) : Hwse[t].semaphore_up})
    <2>1. PICK c, h, S : c = kernel.cui[u] /\ h = kernel.hwse /\ S = Asleep(u)
        OBVIOUS
    <2>2. UnitInv(c, h, S, 0, lost)
        BY <1>1, <2>1, Zenon DEF UnitsInv, Cui, Hwse
    <2>3. /\ c \in LaxUnit /\ c.tasks \cap S = {}
          /\ c.count = Cardinality(Holders(c, h, S)) + 0
        BY <2>2, Zenon DEF UnitInv, LockInv
    <2>4. PICK A, B : A = c.tasks /\ B = {t \in S : h[t].semaphore_up}
        OBVIOUS
    <2>5. Holders(c, h, S) = A \cup B /\ A \cap B = {} /\ A \subseteq Tasks /\ B \subseteq Tasks
        BY <2>1, <2>3, <2>4 DEF Holders, Asleep, LaxUnit
    <2>6. IsFiniteSet(A) /\ IsFiniteSet(B)
        BY <2>5, UnitsAssumption, FS_Subset
    <2>8. Cardinality(A) \in Nat /\ Cardinality(B) \in Nat
        BY <2>6, FS_CardinalityType
    <2>7. Cardinality(A \cup B) = Cardinality(A) + Cardinality(B)
        <3>1. Cardinality(A \cup B) = Cardinality(A) + Cardinality(B) - Cardinality(A \cap B)
            BY <2>6, FS_Union
        <3>2. Cardinality(A \cap B) = 0
            BY <2>5, FS_EmptySet
        <3> QED BY <2>8, <3>1, <3>2
    <2>9. c.count = Cardinality(A) + Cardinality(B)
        BY <2>3, <2>5, <2>7, <2>8
    <2> QED BY <2>1, <2>4, <2>9 DEF Cui, Hwse
<1>4. ASSUME NEW t \in Tasks, pc[t] \in Holding
      PROVE  {u \in Ids : t \in Cui[u].tasks} = {Hwse[t].cfs_rq}
    <2>1. Hwse[t].cfs_rq \in Ids /\ t \in Cui[Hwse[t].cfs_rq].tasks
        BY <1>1, <1>4 DEF PlaceInv
    <2>2. \A u \in Ids : t \in Cui[u].tasks => Hwse[t].cfs_rq = u
        BY <1>1 DEF ListInv
    <2> QED BY <2>1, <2>2
<1> QED BY <1>3, <1>4 DEF SlotsAreHeld

\* cu_up and set serve who waits first.
LEMMA UsedIs ==
    ASSUME NEW lost, IInv(lost)
    PROVE  SlotsAreUsed
<1>1. UnitsInv(lost)
    BY Zenon DEF IInv
<1> QED BY <1>1, Zenon DEF UnitsInv, UnitInv, SlotsAreUsed

\* The invariant knows where every sleeper is.
LEMMA FoundAre ==
    ASSUME NEW lost \in SUBSET Tasks, lost = forgotten, IInv(lost)
    PROVE  OnlyForgottenSleepersAreLost
<1>1. /\ Typed /\ UnitsInv(lost) /\ \A t \in Tasks : PlaceInv(t)
    BY Zenon DEF IInv
<1>2. \A u \in Ids : UnitInv(Cui[u], Hwse, Asleep(u), 0, lost)
    BY <1>1 DEF UnitsInv
<1>3. ASSUME NEW u \in Ids
      PROVE  /\ ToSet(Cui[u].tree) \subseteq Asleep(u)
             /\ lost = {} => Cui[u].nr_running = Len(Cui[u].tree)
             /\ \A t \in ToSet(Cui[u].tree) : ~Hwse[t].semaphore_up /\ ~Hwse[t].need_migrate
             /\ \A t \in Asleep(u) : ~(Hwse[t].semaphore_up /\ Hwse[t].need_migrate)
             /\ \A t \in Asleep(u) \ ToSet(Cui[u].tree) :
                    Hwse[t].semaphore_up \/ Hwse[t].need_migrate \/ t \in lost
    BY <1>2, Zenon DEF UnitInv, LockInv
<1>4. ASSUME NEW t \in Tasks, pc[t] = "sleep", t \notin lost,
             NEW queued \in BOOLEAN, queued <=> Contains(Cui[my[t]].tree, t)
      PROVE  \/ queued /\ ~Hwse[t].semaphore_up /\ ~Hwse[t].need_migrate
             \/ ~queued /\ (Hwse[t].semaphore_up # Hwse[t].need_migrate)
    <2>1. PICK u : u = my[t]
        OBVIOUS
    <2>2. u \in Ids
        <3>1. u \in 0 .. current_id
            BY <1>1, <1>4, <2>1 DEF PlaceInv
        <3> QED BY <1>1, <3>1, IdBelow
    <2>3. t \in Asleep(u)
        BY <1>4, <2>1 DEF Asleep
    <2>4. queued <=> t \in ToSet(Cui[u].tree)
        <3>1. queued <=> \E i \in 1 .. Len(Cui[u].tree) : Cui[u].tree[i] = t
            BY <1>4, <2>1, Zenon DEF Contains
        <3>2. ToSet(Cui[u].tree) = {Cui[u].tree[i] : i \in DOMAIN Cui[u].tree}
            BY DEF ToSet
        <3>3. DOMAIN Cui[u].tree = 1 .. Len(Cui[u].tree)
            BY <2>2, <1>1 DEF Typed, KernelState, Unit, Cui
        <3> QED BY <3>1, <3>2, <3>3, Zenon
    <2>5. Hwse[t].semaphore_up \in BOOLEAN /\ Hwse[t].need_migrate \in BOOLEAN
        BY <1>1 DEF Typed, KernelState, Entity, Hwse
    <2>6. CASE queued
        BY <1>3, <2>2, <2>4, <2>6
    <2>7. CASE ~queued
        <3>1. Hwse[t].semaphore_up \/ Hwse[t].need_migrate
            BY <1>3, <1>4, <2>2, <2>3, <2>4, <2>7
        <3>2. ~(Hwse[t].semaphore_up /\ Hwse[t].need_migrate)
            BY <1>3, <2>2, <2>3
        <3> QED BY <2>5, <2>7, <3>1, <3>2
    <2> QED BY <2>6, <2>7
<1>5. ASSUME NEW t \in Sleepers \ lost PROVE IsFound(t)
    <2>1. t \in Tasks /\ pc[t] = "sleep" /\ t \notin lost
        BY <1>5 DEF Sleepers
    <2>2. PICK queued \in BOOLEAN : queued <=> Contains(Cui[my[t]].tree, t)
        BY DEF Contains
    <2>3. \/ queued /\ ~Hwse[t].semaphore_up /\ ~Hwse[t].need_migrate
          \/ ~queued /\ (Hwse[t].semaphore_up # Hwse[t].need_migrate)
        BY <1>4, <2>1, <2>2, Zenon
    <2> QED BY <2>2, <2>3, Zenon DEF IsFound
<1> QED BY <1>3, <1>5, Zenon DEF OnlyForgottenSleepersAreLost

\* The two counters are in range because they count threads.
LEMMA TypesAre ==
    ASSUME NEW lost \in SUBSET Tasks, lost = forgotten, IInv(lost), astray \in BOOLEAN
    PROVE  TypeOK
<1>1. Typed /\ UnitsInv(lost)
    BY Zenon DEF IInv
<1>2. /\ kernel \in KernelState /\ current_id \in Ids /\ pc \in [Tasks -> Labels]
      /\ my \in [Tasks -> Ids \cup {CU_INVALID_HANDLE}] /\ cpu \in [Tasks -> Cpus]
      /\ workstatus \in [Tasks -> Nat] /\ \A t \in Tasks : workstatus[t] <= Work[t]
    BY <1>1, Zenon DEF Typed
<1>3. /\ kernel.cui \in [Ids -> LaxUnit] /\ kernel.hwse \in [Tasks -> Entity]
      /\ kernel.active \subseteq Cpus /\ kernel.nr_devices \in Int
    BY <1>2 DEF KernelState
<1>4. ASSUME NEW u \in Ids, lost = {} PROVE kernel.cui[u] \in Unit
    <2>1. PICK c, h, S : c = kernel.cui[u] /\ h = kernel.hwse /\ S = Asleep(u)
        OBVIOUS
    <2>2. UnitInv(c, h, S, 0, lost)
        BY <1>1, <2>1, Zenon DEF UnitsInv, Cui, Hwse
    <2>3. c \in LaxUnit /\ c.count = Cardinality(Holders(c, h, S)) + 0 /\ c.nr_running = Len(c.tree)
        BY <1>4, <2>2, Zenon DEF UnitInv, LockInv
    <2>4. S \in SUBSET Tasks
        BY <2>1 DEF Asleep
    <2>5. /\ Cardinality(Holders(c, h, S)) \in Nat /\ Cardinality(Holders(c, h, S)) <= UintMax
        BY <2>3, <2>4, HoldersFinite, HoldersBound, Zenon
    <2>6. c.count \in 0 .. UintMax
        BY <2>3, <2>5, UnitsAssumption
    <2>7. c.nr_running \in Nat
        BY <2>3 DEF LaxUnit
    <2>8. c \in Unit
        BY <2>3, <2>6, <2>7 DEF LaxUnit, Unit
    <2> QED BY <2>1, <2>8
<1>5. lost = {} => kernel.cui \in [Ids -> Unit]
    BY <1>3, <1>4
<1>6. \A t \in Tasks : workstatus[t] \in 0 .. Work[t]
    BY <1>2, KssAssumption
<1> QED BY <1>2, <1>3, <1>5, <1>6 DEF TypeOK

-----------------------------------------------------------------------------
(* The theorems.                                                           *)

\* What holds at any time: the locks are intact but for the forgotten sleepers, and
\* up to the first release that hits a unit at which the thread is not counted.
Intact ==
    /\ astray \in BOOLEAN
    /\ ~astray => \E lost \in SUBSET Tasks : lost = forgotten /\ IInv(lost)

\* The inductive invariant holds whatever threads, Linux and the administrator do:
\* who is counted, holds a slot or waits, between any two sections under the locks of
\* the units.  Nothing is assumed of where Linux may move a thread, of the values set
\* may write, or of who is killed.
THEOREM LocksAreIntact == Spec => []Intact
<1>1. Init => Intact
    <2> SUFFICES ASSUME Init PROVE Intact
        OBVIOUS
    <2>1. PICK lost \in SUBSET Tasks : lost = {}
        OBVIOUS
    <2>2. astray = FALSE /\ forgotten = {}
        BY DEF Init
    <2>3. IInv(lost)
        BY InitIs
    <2> QED BY <2>1, <2>2, <2>3 DEF Intact
<1>2. Intact /\ [Next]_vars => Intact'
    <2> SUFFICES ASSUME Intact, [Next]_vars PROVE Intact'
        OBVIOUS
    <2>1. astray' \in BOOLEAN /\ (~astray' => ~astray)
        BY AstrayGrows DEF Intact
    <2>2. ASSUME ~astray'
          PROVE  \E lost \in SUBSET Tasks : lost = forgotten' /\ IInv(lost)'
        <3>1. PICK lost \in SUBSET Tasks : lost = forgotten /\ IInv(lost)
            BY <2>1, <2>2 DEF Intact
        <3>2. PICK after : after = forgotten'
            OBVIOUS
        <3>3. after \in SUBSET Tasks /\ IInv(after)'
            BY <2>2, <3>1, <3>2, NextKeeps
        <3> QED BY <3>2, <3>3
    <2> QED BY <2>1, <2>2 DEF Intact
<1> QED BY <1>1, <1>2, PTL DEF Spec

\* No slot is lost or given twice by cu_down, cu_up, set, tidying, killed threads and
\* threads that move between processors, and who computes has exactly one, up to the
\* first release of a slot that belongs to another unit.
THEOREM SlotsHeld == Spec => []OnlyStraySlotsAreLost
<1>1. Intact => OnlyStraySlotsAreLost
    BY HeldIs DEF Intact, OnlyStraySlotsAreLost
<1> QED BY <1>1, LocksAreIntact, PTL

\* Threads wait only for a unit without a free slot: cu_up hands a slot over, and set
\* gives new slots to those who wait, before anybody else finds room.
THEOREM SlotsUsed == Spec => []SlotsAreUsed
<1>1. Intact => SlotsAreUsed
    <2>1. astray => SlotsAreUsed
        BY DEF SlotsAreUsed
    <2> QED BY <2>1, UsedIs DEF Intact
<1> QED BY <1>1, LocksAreIntact, PTL

\* No step but one of computing_unit_set makes the count of a unit grow past its
\* maxcount (408-409), as long as no slot has gone astray.
THEOREM HoldersFit == Spec => NewHoldersFit
<1>1. Intact /\ [Next]_vars =>
        [astray' \/ \A u \in Ids :
            Cui'[u].count > Cui[u].count /\ Cui'[u].maxcount = Cui[u].maxcount
            => Cui'[u].count <= Cui'[u].maxcount]_vars
    <2> SUFFICES ASSUME Intact, [Next]_vars, ~astray'
                 PROVE  \A u \in Ids :
                            Cui'[u].count > Cui[u].count /\ Cui'[u].maxcount = Cui[u].maxcount
                            => Cui'[u].count <= Cui'[u].maxcount
        OBVIOUS
    <2>1. ~astray
        BY AstrayGrows DEF Intact
    <2>2. PICK lost \in SUBSET Tasks : lost = forgotten /\ IInv(lost)
        BY <2>1 DEF Intact
    <2>3. PICK after : after = forgotten'
        OBVIOUS
    <2>4. Fits
        BY <2>2, <2>3, NextKeeps
    <2> QED BY <2>4, Zenon DEF Fits, Cui
<1> QED BY <1>1, LocksAreIntact, PTL DEF Spec, NewHoldersFit

\* A thread that sleeps in __cu_down is in the tree or was woken up, once: no wake-up
\* is lost but by computing_unit_set, and of nobody but the threads it has forgotten.
THEOREM SleepersFound == Spec => []OnlyForgottenSleepersAreLost
<1>1. Intact => OnlyForgottenSleepersAreLost
    <2>1. astray => OnlyForgottenSleepersAreLost
        BY DEF OnlyForgottenSleepersAreLost
    <2> QED BY <2>1, FoundAre DEF Intact
<1> QED BY <1>1, LocksAreIntact, PTL

\* The state is well-formed: in particular, the unsigned counters count and nr_running
\* of a unit never wrap around as long as no slot has gone astray and set has forgotten
\* nobody.
THEOREM WellFormed == Spec => [](astray \/ TypeOK)
<1>1. Intact => astray \/ TypeOK
    BY TypesAre DEF Intact
<1> QED BY <1>1, LocksAreIntact, PTL
=============================================================================
