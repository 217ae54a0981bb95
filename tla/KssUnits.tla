------------------------------ MODULE KssUnits ------------------------------
(***************************************************************************)
(* The data of the kernel scheduler and what is done to it under the locks *)
(* of one unit: kss/src/linux-source-2.6.32/kernel/sched_hwaccel.c and     *)
(* sched_fair_hw.c.  Line numbers without a file are in the first.         *)
(*                                                                         *)
(* A computing unit is a counting lock: `count' grows up to `maxcount',    *)
(* and threads that find no room wait in a tree ordered by vruntime.       *)
(* vruntime itself is abstracted: it does not change while a thread waits, *)
(* so the tree is a sequence into which a thread is inserted anywhere.     *)
(***************************************************************************)
EXTENDS Integers, FiniteSets, Sequences, SequencesExt

CONSTANTS
    Tasks,          \* threads that use computing units
    NoTask,         \* a NULL pointer to one
    Cpus,           \* processors, 0 .. n - 1: also the handles of their units
    MaxId,          \* bound on the handles given out
    UintMax,        \* largest unsigned int, the maxcount of a CPU
    CU_HW_QUEUE_LIMIT,
    TypeAffinity,   \* meta_info.type_affinity: task -> type -> Nat
    Gain            \* meta_info.parallel_efficiency_gain: task -> 0 .. 5

\* CU_TYPE_CPU, CU_TYPE_CUDA and CU_TYPE_FPGA, in the order of list_of_cus
Types == 0 .. 2
CPU   == 0

Ids == 0 .. MaxId

ASSUME UnitsAssumption ==
    /\ NoTask \notin Tasks
    /\ IsFiniteSet(Tasks) /\ Cardinality(Tasks) <= UintMax
    /\ MaxId \in Nat /\ Cpus \subseteq Ids
    /\ Cpus = 0 .. Cardinality(Cpus) - 1 /\ Cpus # {}
    /\ UintMax \in Nat /\ CU_HW_QUEUE_LIMIT \in Nat \ {0}
    /\ TypeAffinity \in [Tasks -> [Types -> Nat]]
    /\ Gain \in [Tasks -> 0 .. 5]

CU_INVALID_HANDLE == -1
SINGLE_IMPLEMENTATION_BONUS == 40

(***************************************************************************)
(* A computing unit.  `listed' says that it is in list_of_cus; the         *)
(* structure of a unit that is not listed any more has been freed, and the *)
(* fields keep what was in that memory.                                    *)
(***************************************************************************)
Unit ==
    [type : Types, online : BOOLEAN, listed : BOOLEAN,
     count : 0 .. UintMax, maxcount : 0 .. UintMax,
     tree : Seq(Tasks), nr_running : Nat,
     tasks : SUBSET Tasks, curr : Tasks \cup {NoTask},
     offers_outstanding : Int]

\* __computing_unit_init and the fields add and cpus_init set
NewUnit(type, maxcount) ==
    [type |-> type, online |-> TRUE, listed |-> TRUE,
     count |-> 0, maxcount |-> maxcount, tree |-> <<>>, nr_running |-> 0,
     tasks |-> {}, curr |-> NoTask, offers_outstanding |-> 0]

\* the scheduling entity of a thread that uses hardware
Entity ==
    [cfs_rq : Ids \cup {CU_INVALID_HANDLE},
     semaphore_up : BOOLEAN, need_migrate : BOOLEAN,
     current_affinity : Int, offerer : Ids \cup {CU_INVALID_HANDLE},
     offered_affinity : Int]

NewEntity ==
    [cfs_rq |-> CU_INVALID_HANDLE, semaphore_up |-> FALSE,
     need_migrate |-> FALSE, current_affinity |-> 0,
     offerer |-> CU_INVALID_HANDLE, offered_affinity |-> 0]

-----------------------------------------------------------------------------
(* Short helpers, 72-146                                                   *)

IsCpu(c) == c.type = CPU
NumberOfTasksOn(c) == c.nr_running + c.count
IsIdle(c) == NumberOfTasksOn(c) = 0
HasRoomForOneMore(c) == c.count <= c.maxcount      \* mutant
HasRoom(c) == c.count < c.maxcount
FreeSlots(c) == c.maxcount - NumberOfTasksOn(c)
IsQueueCongested(c) == ~IsCpu(c) /\ c.nr_running >= CU_HW_QUEUE_LIMIT

\* get_load_hw: the run queue of a CPU belongs to Linux, its load is an input;
\* all threads that wait for hardware have the same weight
Load(c, u, cpuload) == IF IsCpu(c) THEN cpuload[u] ELSE c.nr_running

\* unsigned int arithmetic on count
Up(n)   == (n + 1) % (UintMax + 1)
Down(n) == IF n = 0 THEN UintMax ELSE n - 1

-----------------------------------------------------------------------------
(* The fair class, sched_fair_hw.c                                         *)

\* mutant: the waiting threads are not counted
EnqueueUncounted(c, t, i) ==
    [c EXCEPT !.tree = IF t = c.curr THEN @ ELSE InsertAt(@, i, t)]

\* enqueue_task_fair_hw: the current entity is never kept in the tree
Enqueue(c, t, i) ==
    [c EXCEPT !.nr_running = @ + 1,
              !.tree = IF t = c.curr THEN @ ELSE InsertAt(@, i, t)]

\* dequeue_task_fair_hw
Dequeue(c, t) ==
    [c EXCEPT !.nr_running = @ - 1,
              !.tree = IF t = c.curr THEN @ ELSE RemoveFirst(@, t)]

\* set_next_entity_hw for each of the n leftmost threads: a full dequeue, since
\* hardware threads enqueue themselves; the last one is the current entity
SetNextEntity(c, n) ==
    [c EXCEPT !.tree = SubSeq(@, n + 1, Len(@)),
              !.nr_running = @ - n,
              !.curr = c.tree[n]]

\* the loop around pick_next_task_fair_hw that skips dead threads (565-567):
\* [next |-> the thread or NULL, unit |-> the unit afterwards]
PickNext(c, dead) ==
    LET taken == SelectInSeq(c.tree, LAMBDA t : t \notin dead)
        drop  == IF taken = 0 THEN Len(c.tree) ELSE taken
    IN  [next |-> IF taken = 0 THEN NoTask ELSE c.tree[taken],
         unit |-> IF drop = 0 THEN c ELSE SetNextEntity(c, drop)]

-----------------------------------------------------------------------------
(* The counting lock.  A state is a record of the units and the entities.  *)

\* mutant: the slot that is handed over is released as well
CuUpTwice(s, u, dead) ==
    LET picked == PickNext(s.cui[u], dead)
        left   == [s EXCEPT !.cui[u] = [picked.unit EXCEPT !.count = Down(@)]]
    IN  IF picked.next = NoTask THEN left
        ELSE [left EXCEPT !.hwse[picked.next].semaphore_up = TRUE]

\* mutant: nobody is woken up
CuUpAlone(s, u, dead) == [s EXCEPT !.cui[u].count = Down(@)]

\* cu_up: release a slot, or hand it over to the leftmost thread in the tree
CuUp(s, u, dead) ==
    LET c      == s.cui[u]
        picked == PickNext(c, dead)
    IN  IF c.count > c.maxcount
        THEN [s EXCEPT !.cui[u].count = Down(@)]
        ELSE IF picked.next = NoTask
        THEN [s EXCEPT !.cui[u] = [picked.unit EXCEPT !.count = Down(@)]]
        ELSE [s EXCEPT !.cui[u] = picked.unit,
                       !.hwse[picked.next].semaphore_up = TRUE]

\* cu_up several times: the state after n of them
Released(s, u, dead) ==
    LET released[n \in Nat] ==
            IF n = 0 THEN s ELSE CuUp(released[n - 1], u, dead)
    IN  released

\* __tidy_cu_locks: release what dead threads held
Tidy(s, u, dead) ==
    LET zombies == s.cui[u].tasks \cap dead
        reaped  == [s EXCEPT !.cui[u].tasks = @ \ dead]
    IN  Released(reaped, u, dead)[Cardinality(zombies)]

\* the loop of computing_unit_set, after n rounds: it wakes the leftmost thread to
\* take a new slot, until nobody waits or the unit has too many holders; then the
\* thread that was picked, if any, stays out of the tree: it is lost (1927-1944)
Woken(s, u, dead) ==
    LET woken[n \in Nat] ==
            IF n = 0 THEN [cui |-> s.cui, hwse |-> s.hwse, broke |-> FALSE, lost |-> {}]
            ELSE LET r == woken[n - 1]
                     picked == PickNext(r.cui[u], dead)
                     c == picked.unit
                 IN  IF r.broke THEN r
                     ELSE IF picked.next = NoTask \/ c.count > c.maxcount
                     THEN [r EXCEPT !.cui[u] = c, !.broke = TRUE,
                                    !.lost = {picked.next} \ {NoTask}]
                     ELSE [r EXCEPT !.cui[u] = [c EXCEPT !.count = Up(@)],
                                    !.hwse[picked.next].semaphore_up = TRUE]
    IN  woken

\* whether cu_down fails at once, because the thread can run elsewhere (478-488)
MustLookElsewhere(s, u, t) ==
    /\ ~s.hwse[t].need_migrate
    /\ s.hwse[t].current_affinity < SINGLE_IMPLEMENTATION_BONUS
    /\ IsQueueCongested(s.cui[u])

\* cu_down up to the test of count, the part of a thread that finds room: it
\* enqueues itself, takes a slot and dequeues itself again (490-527)
CuDownDirectly(s, u, t, i) ==
    LET c == s.cui[u]
    IN  [s EXCEPT !.cui[u] = Dequeue([Enqueue(c, t, i) EXCEPT !.count = Up(@)], t),
                  !.hwse[t].need_migrate = FALSE]

\* and the part of a thread that finds none: it stays in the tree (__cu_down)
CuDownWaits(s, u, t, i) ==
    [s EXCEPT !.cui[u] = Enqueue(@, t, i),
              !.hwse[t].need_migrate = FALSE,
              !.hwse[t].semaphore_up = FALSE]

\* a thread becomes a holder of the unit, at the end of alloc (1231-1242)
BecomeHolder(s, u, t) ==
    [s EXCEPT !.cui[u].tasks = @ \cup {t}, !.cui[u].curr = t]

\* list_del_init(&hwse->group_node): from the list the thread is in
LeaveList(cui, t) == [u \in DOMAIN cui |-> [cui[u] EXCEPT !.tasks = @ \ {t}]]

-----------------------------------------------------------------------------
(* The choice of a unit, 656-803                                           *)

SumOverTypes(f) == f[0] + f[1] + f[2]

\* __cui_iterator: of the units U the next one by type, then by age
ListOfCus(cui) == {u \in Ids : cui[u].listed}

NextCu(cui, U) ==
    CHOOSE u \in U : \A v \in U \ {u} :
        \/ cui[u].type < cui[v].type
        \/ cui[u].type = cui[v].type /\ u < v

\* __calculate_affinity of a thread, while `current' runs on processor cpu
CalculateAffinity(cui, t, u, cpu) ==
    LET c    == cui[u]
        base == TypeAffinity[t][c.type]
        only == IF SumOverTypes(TypeAffinity[t]) = base
                THEN SINGLE_IMPLEMENTATION_BONUS - 5 ELSE 0
        away == IF IsCpu(c) /\ u # cpu THEN 1 ELSE 0
        gain == IF IsCpu(c) THEN 2 - Gain[t] ELSE Gain[t] - 2
    IN  IF ~c.online \/ base = 0 THEN 0 ELSE base + only + 5 - away + gain

\* __assign_if_better: the best unit so far, or unit u
Better(cui, t, cpu, cpuload, best, u) ==
    LET affinity == CalculateAffinity(cui, t, u, cpu)
        b == cui[best.id]
        c == cui[u]
        wins == \/ best.id = CU_INVALID_HANDLE
                \/ best.affinity < affinity /\ ~IsQueueCongested(c)
                \/ /\ best.affinity <= affinity
                   /\ Load(c, u, cpuload) <= Load(b, best.id, cpuload)
                \/ IsQueueCongested(b) /\ ~IsQueueCongested(c)
    IN  IF affinity # 0 /\ wins THEN [id |-> u, affinity |-> affinity] ELSE best

\* __find_best_cu: the units that are left, and the best one, after n units
Search(cui, t, cpu, cpuload) ==
    LET search[n \in Nat] ==
            IF n = 0
            THEN [left |-> ListOfCus(cui),
                  best |-> [id |-> CU_INVALID_HANDLE, affinity |-> 0]]
            ELSE LET s == search[n - 1]
                     u == NextCu(cui, s.left)
                 IN  IF s.left = {} THEN s
                     ELSE [left |-> s.left \ {u},
                           best |-> Better(cui, t, cpu, cpuload, s.best, u)]
    IN  search

FindBestCu(cui, t, cpu, cpuload) ==
    Search(cui, t, cpu, cpuload)[Cardinality(Ids)].best

\* __is_offer_valid
IsOfferValid(cui, u) ==
    /\ u # CU_INVALID_HANDLE
    /\ cui[u].listed
    /\ cui[u].offers_outstanding # 0

-----------------------------------------------------------------------------
(* Load balancing towards unit u, 817-958                                  *)

\* only hardware units balance: their affinity does not depend on the processor
HwAffinity(cui, t, u) == CalculateAffinity(cui, t, u, 0)

\* the first pass looks at the threads that wait for unit o: the best after the
\* first n of them is [cand, from, affinity, load]
Scanned(cui, u, o, best) ==
    LET load == cui[o].nr_running   \* get_load_hw: nobody waits for a CPU
        scanned[n \in Nat] ==
            IF n = 0 THEN best
            ELSE LET b == scanned[n - 1]
                     t == cui[o].tree[n]
                     affinity == HwAffinity(cui, t, u)
                 IN  IF \/ affinity > b.affinity
                        \/ affinity = b.affinity /\ load > b.load
                     THEN [cand |-> t, from |-> o, affinity |-> affinity,
                           load |-> load]
                     ELSE b
    IN  scanned

ScanWaiting(cui, u, o, best) == Scanned(cui, u, o, best)[Len(cui[o].tree)]

\* the second pass offers the unit to the threads that run on unit o
\* (__make_offer_to), if it suits them better
Offered(s, u, o) ==
    {t \in s.cui[o].tasks :
        LET affinity == HwAffinity(s.cui, t, u)
        IN  /\ affinity > s.hwse[t].current_affinity
            /\ \/ affinity > s.hwse[t].offered_affinity
               \/ ~IsOfferValid(s.cui, s.hwse[t].offerer)}

MakeOffers(s, u, o) ==
    LET found == Offered(s, u, o)
    IN  IF found = {} THEN s
        ELSE [s EXCEPT
                !.cui[u].offers_outstanding =
                    CU_HW_QUEUE_LIMIT - s.cui[u].nr_running,
                !.hwse = [t \in Tasks |->
                    IF t \in found
                    THEN [@[t] EXCEPT
                            !.offerer = u,
                            !.offered_affinity = HwAffinity(s.cui, t, u)]
                    ELSE @[t]]]

\* mutant: the candidate is not told to migrate
PulledInSleep(s, u, best) ==
    [s EXCEPT !.cui[best.from] = Dequeue(@, best.cand),
              !.hwse[best.cand].offerer = u,
              !.hwse[best.cand].offered_affinity = best.affinity]

\* the candidate leaves its queue with an offer and is told to migrate (896-908)
Pulled(s, u, best) ==
    [s EXCEPT !.cui[best.from] = Dequeue(@, best.cand),
              !.hwse[best.cand].offerer = u,
              !.hwse[best.cand].offered_affinity = best.affinity,
              !.hwse[best.cand].need_migrate = TRUE]

-----------------------------------------------------------------------------
\* __computing_unit_try_to_del: a CPU is only taken out of the mask; an idle
\* unit leaves the list and its memory is freed
TryToDel(k, u) ==
    IF IsCpu(k.cui[u]) THEN [k EXCEPT !.active = @ \ {u}]
    ELSE IF IsIdle(k.cui[u])
    THEN [k EXCEPT !.cui[u].listed = FALSE, !.nr_devices = @ - 1]
    ELSE k
=============================================================================
