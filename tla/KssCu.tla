-------------------------------- MODULE KssCu --------------------------------
(***************************************************************************)
(* The system calls of the kernel scheduler (sched_hwaccel.c), the threads *)
(* that make them (kss/src/testapplication/worker.cpp), Linux moving those *)
(* threads between processors, and an administrator.  Line numbers without *)
(* a file are in sched_hwaccel.c.                                          *)
(*                                                                         *)
(* A step is one section under the access_mutex of a unit or under the     *)
(* mutex of the list of units; other threads run in between.               *)
(***************************************************************************)
EXTENDS KssUnits

CONSTANTS
    Boot,           \* the hardware units there are when the workers start,
                    \* a sequence of [type, slots]
    Additions,      \* the hardware units an administrator may add, a set of those
    Slots,          \* the values of hardware_properties.concurrent_kernels in a set
    Work,           \* checkpoints until each worker has finished
    Mortal,         \* threads that may be killed
    MaxCalls,       \* bound on the calls of the administrator and the shutdown
    Migrations      \* where a thread may be while Linux moves it

HardwareUnit == [type : Types \ {CPU}, slots : 1 .. UintMax - 1]
Admin == "administrator"

ASSUME KssAssumption ==
    /\ Boot \in Seq(HardwareUnit) /\ Cardinality(Cpus) + Len(Boot) <= MaxId + 1
    /\ Additions \subseteq HardwareUnit
    /\ Slots \subseteq 1 .. UintMax - 1
    /\ Work \in [Tasks -> Nat] /\ MaxCalls \in Nat /\ Mortal \subseteq Tasks
    /\ Admin \notin Tasks

VARIABLES
    kernel,     \* [cui, hwse, active, nr_devices]: the units, the entities of the
                \* threads, cpu_active_cui_mask and computing_units.nr_devices
    current_id, \* computing_units.current_id
    balance,    \* the load balancing under way, or NoBalance
    pc,         \* where each thread is
    my,         \* its local variable cui
    cpu,        \* task_cpu
    workstatus, \* what each worker has left to compute
    isRunning,  \* the flag that shuts all workers down
    calls,      \* what the administrator and the shutdown have done so far
    astray,     \* history: a slot has been released that belongs to another unit
    forgotten   \* history: threads that computing_unit_set has not woken up

history == <<astray, forgotten>>
vars == <<kernel, current_id, balance, pc, my, cpu, workstatus, isRunning, calls, history>>

Cui  == kernel.cui
Hwse == kernel.hwse

NoBalance == [by |-> "nobody"]

\* computing_units.access_mutex is held across steps by who balances only, and
\* so is the access_mutex of the unit its candidate waits for
CusMutexIsFree == balance = NoBalance
AccessMutexIsFree(u) == balance # NoBalance => balance.from # u

Dead == {t \in Tasks : pc[t] = "dead"}

Labels == {"user", "search", "lock", "sleep", "trydel", "got", "compute",
           "rerequest", "stay", "leave", "freeing", "freed", "balance",
           "balancing", "done", "dead"}

\* the user code in which a worker computes with its unit, up to the free
Holding == {"compute", "rerequest", "stay", "leave", "freeing"}

-----------------------------------------------------------------------------
(* computing_units_cpus_init and the units added at boot                   *)

Booted == Cardinality(Cpus) + Len(Boot)

NoUnit == [NewUnit(CPU, 0) EXCEPT !.listed = FALSE, !.online = FALSE]

InitialCui ==
    [u \in Ids |->
        IF u \in Cpus THEN NewUnit(CPU, UintMax)
        ELSE IF u < Booted
        THEN LET b == Boot[u - Cardinality(Cpus) + 1] IN NewUnit(b.type, b.slots)
        ELSE NoUnit]

Init ==
    /\ kernel = [cui |-> InitialCui, hwse |-> [t \in Tasks |-> NewEntity],
                 active |-> Cpus, nr_devices |-> Booted]
    /\ current_id = Booted - 1
    /\ balance = NoBalance
    /\ pc = [t \in Tasks |-> "user"]
    /\ my = [t \in Tasks |-> CU_INVALID_HANDLE]
    /\ cpu \in [Tasks -> {0}]
    /\ workstatus = Work
    /\ isRunning = TRUE
    /\ calls = 0
    /\ astray = FALSE
    /\ forgotten = {}

\* the frame of a step of thread t inside of a system call
Goto(t, l) == pc' = [pc EXCEPT ![t] = l]
InCall == UNCHANGED <<current_id, cpu, workstatus, isRunning, calls, history>>

-----------------------------------------------------------------------------
(* computing_unit_alloc                                                    *)

\* the head of the loop of Worker::startWorking: a worker that does not want a
\* unit any more has finished
WantsUnit(t) == workstatus[t] > 0 /\ isRunning

\* an offer that still is what it promises to be (1134-1145)
TakesOffer(t) ==
    LET h == Hwse[t]
        affinity == CalculateAffinity(Cui, t, h.offerer, cpu[t])
    IN  /\ h.offerer # CU_INVALID_HANDLE
        /\ Cui[h.offerer].listed
        /\ affinity # 0 /\ affinity >= h.offered_affinity

\* find_best_unit: take the offer, or search (1127-1155)
FindBestUnit(t) ==
    \E cpuload \in [Cpus -> 0 .. 1] :
        LET h == Hwse[t]
            best == IF TakesOffer(t)
                    THEN [id |-> h.offerer,
                          affinity |-> CalculateAffinity(Cui, t, h.offerer, cpu[t])]
                    ELSE FindBestCu(Cui, t, cpu[t], cpuload)
        IN  /\ \/ pc[t] = "user" /\ WantsUnit(t)
               \/ pc[t] = "search"
            /\ CusMutexIsFree
            /\ kernel' = [kernel EXCEPT
                !.hwse[t].offerer = CU_INVALID_HANDLE,
                !.hwse[t].offered_affinity = 0,
                !.hwse[t].current_affinity =
                    IF best.id = CU_INVALID_HANDLE THEN @ ELSE best.affinity]
            /\ my' = [my EXCEPT ![t] = best.id]
            /\ Goto(t, IF best.id = CU_INVALID_HANDLE THEN "done" ELSE "lock")
            /\ UNCHANGED balance /\ InCall

\* mutant: nobody deletes a unit that has gone offline meanwhile
AcquireElsewhere(k, u, t) ==
    IF k.hwse[t].need_migrate \/ ~k.cui[u].online
    THEN LET left == [k EXCEPT !.hwse[t].cfs_rq = CU_INVALID_HANDLE]
         IN  /\ kernel' = IF k.hwse[t].need_migrate THEN left ELSE CuUp(left, u, Dead)
             /\ Goto(t, "search")
    ELSE /\ kernel' = BecomeHolder(k, u, t)
         /\ Goto(t, "got")

\* what follows on cu_down: a thread that must migrate, or whose unit has gone
\* offline, gives the slot back if it has one and starts again (1205-1229)
Acquire(k, u, t) ==
    IF k.hwse[t].need_migrate \/ ~k.cui[u].online
    THEN LET left == [k EXCEPT !.hwse[t].cfs_rq = CU_INVALID_HANDLE]
         IN  /\ kernel' = IF k.hwse[t].need_migrate THEN left ELSE CuUp(left, u, Dead)
             /\ Goto(t, IF k.cui[u].online THEN "search" ELSE "trydel")
    ELSE /\ kernel' = BecomeHolder(k, u, t)
         /\ Goto(t, "got")

\* the section of alloc under the access_mutex, up to where the thread sleeps
LockUnit(t) ==
    LET u == my[t]
        k == Tidy([kernel EXCEPT !.hwse[t].cfs_rq = u], u, Dead)
    IN  /\ pc[t] = "lock"
        /\ AccessMutexIsFree(u)
        /\ \/ /\ MustLookElsewhere(k, u, t)
              /\ Acquire([k EXCEPT !.hwse[t].need_migrate = TRUE], u, t)
           \/ /\ ~MustLookElsewhere(k, u, t)
              /\ HasRoom(k.cui[u])
              /\ Acquire(CuDownDirectly(k, u, t, 1), u, t)
           \/ /\ ~MustLookElsewhere(k, u, t)
              /\ ~HasRoom(k.cui[u])
              /\ \E i \in 1 .. Len(k.cui[u].tree) + 1 :
                    kernel' = CuDownWaits(k, u, t, i)
              /\ Goto(t, "sleep")
        /\ UNCHANGED <<balance, my>> /\ InCall

\* the thread was woken: it migrates or has the semaphore (448-454)
WakeUp(t) ==
    LET u == my[t]
    IN  /\ pc[t] = "sleep"
        /\ Hwse[t].need_migrate \/ Hwse[t].semaphore_up
        /\ AccessMutexIsFree(u)
        /\ Acquire(kernel, u, t)
        /\ UNCHANGED <<balance, my>> /\ InCall

\* a signal arrives first: the thread leaves the tree, alloc fails (441-442)
Interrupted(t) ==
    /\ pc[t] = "sleep"
    /\ ~Hwse[t].need_migrate /\ ~Hwse[t].semaphore_up
    /\ AccessMutexIsFree(my[t])
    /\ kernel' = [kernel EXCEPT !.cui[my[t]] = Dequeue(@, t)]
    /\ Goto(t, "done")
    /\ UNCHANGED <<balance, my>> /\ InCall

\* a thread that left an offline unit tries to delete it (1217-1222)
TryDelete(t) ==
    /\ pc[t] = "trydel"
    /\ CusMutexIsFree
    /\ kernel' = TryToDel(kernel, my[t])
    /\ Goto(t, "search")
    /\ UNCHANGED <<balance, my>> /\ InCall

\* set_task_rq_hw: a thread on a CPU's unit takes its slot along (158-196)
Moved(k, t, c) ==
    LET old == k.hwse[t].cfs_rq
        cui == LeaveList(k.cui, t)
    IN  IF old = CU_INVALID_HANDLE \/ ~IsCpu(k.cui[old]) \/ old = c THEN k
        ELSE [k EXCEPT !.hwse[t].cfs_rq = c,
                       !.cui = [cui EXCEPT ![old].count = Down(@),
                                           ![c].count = Up(@),
                                           ![c].tasks = @ \cup {t}]]

\* where set_cpu_affinity_hw leaves a thread: on its processor, unless that one
\* is closed to threads that compute on a CPU (213-224, 1255)
Placements(t) ==
    IF /\ IsCpu(Cui[my[t]]) /\ cpu[t] \notin kernel.active
       /\ kernel.active # {}
    THEN kernel.active ELSE {cpu[t]}

\* alloc returns; a worker that is to stop leaves its loop and frees the unit
ReturnFromAlloc(t) ==
    /\ pc[t] = "got"
    /\ \E c \in Placements(t) :
        /\ cpu' = [cpu EXCEPT ![t] = c]
        /\ kernel' = Moved(kernel, t, c)
        /\ my' = [my EXCEPT ![t] = kernel'.hwse[t].cfs_rq]
    /\ Goto(t, IF isRunning THEN "compute" ELSE "freeing")
    /\ UNCHANGED <<current_id, balance, workstatus, isRunning, calls, history>>

-----------------------------------------------------------------------------
(* computing_unit_rerequest                                                *)

\* the worker computes up to its next checkpoint, and rerequests the unit if it
\* has work left; else it calls free, which reads hwse->cfs_rq first (1422)
Compute(t) ==
    /\ pc[t] = "compute"
    /\ workstatus' = [workstatus EXCEPT ![t] = @ - 1]
    /\ Goto(t, IF workstatus[t] = 1 THEN "freeing" ELSE "rerequest")
    /\ my' = [my EXCEPT ![t] = Hwse[t].cfs_rq]
    /\ UNCHANGED <<kernel, current_id, balance, cpu, isRunning, calls, history>>

\* the section under the access_mutex: a thread may stay if nobody waits, or if
\* it has not used up its granularity (1327-1359)
Rerequest(t) ==
    LET u == my[t]
        k == Tidy([kernel EXCEPT !.cui[u].curr = t], u, Dead)
    IN  /\ pc[t] = "rerequest"
        /\ AccessMutexIsFree(u)
        /\ kernel' = k
        /\ \E expired \in BOOLEAN :
            Goto(t, IF k.cui[u].tree = <<>> \/ ~expired THEN "stay" ELSE "leave")
        /\ UNCHANGED <<balance, my>> /\ InCall

\* an offer is taken unless the unit's queue is too long by now (1361-1383); the
\* answer reads the unit without a lock (1398)
CheckOffer(t) ==
    LET u     == my[t]
        offer == Hwse[t].offerer
        taken == IsOfferValid(Cui, offer) /\ ~IsQueueCongested(Cui[offer])
        stays == /\ pc[t] = "stay" /\ ~taken /\ Cui[u].online
                 /\ Cui[u].count <= Cui[u].maxcount
    IN  /\ pc[t] \in {"stay", "leave"}
        /\ offer # CU_INVALID_HANDLE => CusMutexIsFree
        /\ kernel' =
            IF taken THEN [kernel EXCEPT !.cui[offer].offers_outstanding = @ - 1]
            ELSE [kernel EXCEPT !.hwse[t].offerer = CU_INVALID_HANDLE,
                                !.hwse[t].offered_affinity = 0]
        /\ Goto(t, IF stays /\ isRunning THEN "compute" ELSE "freeing")
        /\ my' = [my EXCEPT ![t] = Hwse[t].cfs_rq]
        /\ UNCHANGED balance /\ InCall

-----------------------------------------------------------------------------
(* __load_balance_hw, called with the mutex of the list held by `by'       *)

OtherUnits(cui, u) == ListOfCus(cui) \ {u}

StartBalance(by, u, cui) ==
    [by |-> by, unit |-> u, pass |-> 1, rest |-> OtherUnits(cui, u),
     cand |-> NoTask, from |-> CU_INVALID_HANDLE, affinity |-> 1, load |-> 0,
     free_slots |-> FreeSlots(cui[u]) + CU_HW_QUEUE_LIMIT]

\* the caller returns: free to the worker, add to the administrator
EndBalance ==
    /\ balance' = NoBalance
    /\ pc' = IF balance.by \in Tasks
             THEN [pc EXCEPT ![balance.by] = "user"] ELSE pc

\* the first pass locks the next unit and looks at who waits there; it keeps the
\* lock of the unit of the best candidate so far (870-893)
LookAtWaiting ==
    /\ balance # NoBalance
    /\ balance.pass = 1 /\ balance.rest # {}
    /\ LET best  == [cand |-> balance.cand, from |-> balance.from,
                      affinity |-> balance.affinity, load |-> balance.load]
            o     == NextCu(Cui, balance.rest)
            found == ScanWaiting(Cui, balance.unit, o, best)
       IN  balance' = [balance EXCEPT
                !.rest = @ \ {o}, !.cand = found.cand, !.from = found.from,
                !.affinity = found.affinity, !.load = found.load]
    /\ UNCHANGED <<kernel, pc, my>> /\ InCall

\* the candidate leaves its queue with an offer and is woken up; then the second
\* pass begins (896-914)
PullCandidate ==
    /\ balance # NoBalance
    /\ balance.pass = 1 /\ balance.rest = {}
    /\ LET nobody == balance.cand = NoTask
           k == IF nobody THEN kernel ELSE Pulled(kernel, balance.unit, balance)
           slots == balance.free_slots - (IF nobody THEN 0 ELSE 1)
       IN  /\ kernel' = k
           /\ IF slots = 0 THEN EndBalance
              ELSE /\ balance' = [balance EXCEPT
                        !.pass = 2, !.rest = OtherUnits(k.cui, balance.unit),
                        !.cand = NoTask, !.from = CU_INVALID_HANDLE,
                        !.free_slots = slots]
                   /\ UNCHANGED pc
    /\ UNCHANGED my /\ InCall

\* the second pass makes offers to who runs on the next unit (926-955)
OfferToRunning ==
    /\ balance # NoBalance
    /\ balance.pass = 2 /\ balance.rest # {}
    /\ LET o == NextCu(Cui, balance.rest)
       IN  /\ kernel' = MakeOffers(Tidy(kernel, o, Dead), balance.unit, o)
           /\ IF balance.rest = {o} THEN EndBalance
              ELSE /\ balance' = [balance EXCEPT !.rest = @ \ {o}]
                   /\ UNCHANGED pc
    /\ UNCHANGED my /\ InCall

-----------------------------------------------------------------------------
(* computing_unit_free                                                     *)

\* a slot goes astray when the thread has been moved to another unit after free
\* has read which one to release
FreesSlot(t) ==
    /\ astray' = (astray \/ my[t] # Hwse[t].cfs_rq)
    /\ UNCHANGED <<current_id, cpu, workstatus, isRunning, calls, forgotten>>

\* mutant: the unit's curr still is the thread that has left
FreeUnitKeepsCurr(t) ==
    LET k == [kernel EXCEPT !.hwse[t].cfs_rq = CU_INVALID_HANDLE,
                            !.cui = LeaveList(@, t)]
    IN  /\ pc[t] = "freeing"
        /\ AccessMutexIsFree(my[t])
        /\ kernel' = CuUp(k, my[t], Dead)
        /\ Goto(t, "freed")
        /\ FreesSlot(t)
        /\ UNCHANGED <<balance, my>>

\* the section under the access_mutex of the unit read at the entry (1440-1471)
FreeUnit(t) ==
    LET u == my[t]
        k == [kernel EXCEPT !.hwse[t].cfs_rq = CU_INVALID_HANDLE,
                            !.cui = [LeaveList(@, t) EXCEPT ![u].curr = NoTask]]
    IN  /\ pc[t] = "freeing"
        /\ AccessMutexIsFree(u)
        /\ kernel' = CuUp(k, u, Dead)
        /\ Goto(t, "freed")
        /\ FreesSlot(t)
        /\ UNCHANGED <<balance, my>>

\* without a lock: is the queue short enough to balance? (1477)
AfterFree(t) ==
    LET c == Cui[my[t]]
    IN  /\ pc[t] = "freed"
        /\ Goto(t, IF IsCpu(c) \/ c.nr_running < CU_HW_QUEUE_LIMIT - 1
                   THEN "balance" ELSE "user")
        /\ UNCHANGED <<kernel, balance, my>> /\ InCall

\* delete the unit if it is idle and offline, else balance (1482-1491)
DeleteOrBalance(t) ==
    LET c == Cui[my[t]]
    IN  /\ pc[t] = "balance"
        /\ CusMutexIsFree
        /\ \/ /\ IsIdle(c) /\ ~c.online
              /\ kernel' = TryToDel(kernel, my[t])
              /\ Goto(t, "user")
              /\ UNCHANGED balance
           \/ /\ ~(IsIdle(c) /\ ~c.online)
              /\ IsCpu(c)              \* a CPU does not balance
              /\ Goto(t, "user")
              /\ UNCHANGED <<kernel, balance>>
           \/ /\ ~(IsIdle(c) /\ ~c.online)
              /\ ~IsCpu(c)
              /\ balance' = StartBalance(t, my[t], Cui)
              /\ Goto(t, "balancing")
              /\ UNCHANGED kernel
        /\ UNCHANGED my /\ InCall
-----------------------------------------------------------------------------
(* The administrator: accelerator-ctl                                      *)

External == calls < MaxCalls /\ calls' = calls + 1

\* computing_unit_add of a hardware unit, which balances towards it (1567-1602)
AddUnit(b) ==
    LET u == current_id + 1
        k == [kernel EXCEPT !.cui[u] = NewUnit(b.type, b.slots), !.nr_devices = @ + 1]
    IN  /\ current_id < MaxId
        /\ CusMutexIsFree
        /\ current_id' = u
        /\ kernel' = k
        /\ balance' = StartBalance(Admin, u, k.cui)
        /\ External
        /\ UNCHANGED <<pc, my, cpu, workstatus, isRunning, history>>

\* computing_unit_add of a processor: it is enabled again (1544-1565)
EnableCpu(u) ==
    /\ CusMutexIsFree
    /\ ~Cui[u].online
    /\ kernel' = [kernel EXCEPT !.cui[u].online = TRUE, !.active = @ \cup {u}]
    /\ External
    /\ UNCHANGED <<current_id, balance, pc, my, cpu, workstatus, isRunning, history>>

\* computing_unit_del: offline, tidied, and deleted if idle (1636-1666)
DelUnit(u) ==
    /\ CusMutexIsFree
    /\ Cui[u].listed
    /\ kernel' = TryToDel(Tidy([kernel EXCEPT !.cui[u].online = FALSE], u, Dead), u)
    /\ External
    /\ UNCHANGED <<current_id, balance, pc, my, cpu, workstatus, isRunning, history>>

\* computing_unit_set of concurrent_kernels; new slots go to who waits.  It looks
\* for the unit under the mutex of the list, the rest is under its spinlock only
\* (1895-1954)
SetUnit(u, slots) ==
    LET countdiff == slots - Cui[u].maxcount
        before == [cui |-> [Cui EXCEPT ![u].maxcount = slots], hwse |-> Hwse]
        after  == Woken(before, u, Dead)[IF countdiff > 0 THEN countdiff ELSE 0]
    IN  /\ CusMutexIsFree
        /\ Cui[u].listed /\ ~IsCpu(Cui[u])
        /\ countdiff # 0
        /\ kernel' = [kernel EXCEPT !.cui = after.cui, !.hwse = after.hwse]
        /\ forgotten' = forgotten \cup after.lost
        /\ External
        /\ UNCHANGED <<current_id, balance, pc, my, cpu, workstatus, isRunning, astray>>

-----------------------------------------------------------------------------
(* Linux, and the end of programs                                          *)

\* set_task_cpu: the thread goes to processor c, if its mask allows it.  A dead
\* thread whose slot was tidied takes one along that it does not have any more
Migrate(t, c) ==
    LET u == Hwse[t].cfs_rq
    IN  /\ pc[t] \in Migrations
        /\ c # cpu[t]
        /\ u # CU_INVALID_HANDLE => (IsCpu(Cui[u]) => c \in kernel.active)
        /\ cpu' = [cpu EXCEPT ![t] = c]
        /\ kernel' = Moved(kernel, t, c)
        /\ astray' = (astray \/ (kernel' # kernel /\ t \notin Cui[u].tasks))
        /\ UNCHANGED <<current_id, balance, pc, my, workstatus, isRunning, calls, forgotten>>

\* a fatal signal, where a thread computes or waits for a mutex after a free: a
\* unit it holds stays locked until somebody tidies.  Where it has nothing to lose
\* its death is that of a worker whose alloc fails
Kill(t) ==
    /\ t \in Mortal
    /\ pc[t] \in Holding \cup {"trydel", "freed", "balance"}
    /\ Goto(t, "dead")
    /\ UNCHANGED <<kernel, balance, my>> /\ InCall

\* Worker::shutdown of every worker (testapp.cpp 139-168)
Shutdown ==
    /\ isRunning
    /\ isRunning' = FALSE
    /\ External
    /\ UNCHANGED <<kernel, current_id, balance, pc, my, cpu, workstatus, history>>

-----------------------------------------------------------------------------

ThreadStep(t) ==
    \/ FindBestUnit(t) \/ LockUnit(t) \/ WakeUp(t)
    \/ TryDelete(t) \/ ReturnFromAlloc(t)
    \/ Compute(t) \/ Rerequest(t) \/ CheckOffer(t)
    \/ FreeUnit(t) \/ AfterFree(t) \/ DeleteOrBalance(t)

BalanceStep == LookAtWaiting \/ PullCandidate \/ OfferToRunning

Administrate ==
    \/ \E b \in Additions : AddUnit(b)
    \/ \E u \in Cpus : EnableCpu(u)
    \/ \E u \in Ids : DelUnit(u)
    \/ \E u \in Ids, slots \in Slots : SetUnit(u, slots)

Next ==
    \/ \E t \in Tasks : ThreadStep(t) \/ Interrupted(t) \/ Kill(t)
    \/ BalanceStep
    \/ Administrate
    \/ \E t \in Tasks, c \in Cpus : Migrate(t, c)
    \/ Shutdown

Spec == Init /\ [][Next]_vars

\* whether a step of the thread is enabled
Ready(t) ==
    \/ pc[t] = "user" /\ WantsUnit(t) /\ CusMutexIsFree
    \/ pc[t] \in {"search", "trydel", "balance"} /\ CusMutexIsFree
    \/ pc[t] \in {"lock", "rerequest", "freeing"} /\ AccessMutexIsFree(my[t])
    \/ /\ pc[t] = "sleep" /\ AccessMutexIsFree(my[t])
       /\ Hwse[t].need_migrate \/ Hwse[t].semaphore_up
    \/ /\ pc[t] \in {"stay", "leave"}
       /\ Hwse[t].offerer # CU_INVALID_HANDLE => CusMutexIsFree
    \/ pc[t] \in {"got", "compute", "freed"}

\* A thread that can go on does go on (each of its steps changes pc), and a
\* balancing comes to its end: no thread keeps a mutex for ever.
Advance(t) ==
    Ready(t) /\ \E l \in Labels \ {pc[t]} : pc' = [pc EXCEPT ![t] = l]
Complete == balance # NoBalance /\ balance' = NoBalance

Fairness ==
    /\ \A t \in Tasks : WF_pc(Advance(t))
    /\ WF_balance(Complete)

FairSpec == Spec /\ Fairness

-----------------------------------------------------------------------------
(* Properties                                                              *)

Asleep(u) == {t \in Tasks : pc[t] = "sleep" /\ my[t] = u}

\* The state of the units, the entities and the threads is well-formed.  A thread
\* that set has forgotten is subtracted from nr_running again if a signal comes.
TypeOK ==
    /\ forgotten = {} => kernel.cui \in [Ids -> Unit]
    /\ kernel.hwse \in [Tasks -> Entity]
    /\ kernel.active \subseteq Cpus /\ kernel.nr_devices \in Int
    /\ current_id \in Ids
    /\ pc \in [Tasks -> Labels]
    /\ my \in [Tasks -> Ids \cup {CU_INVALID_HANDLE}]
    /\ cpu \in [Tasks -> Cpus]
    /\ \A t \in Tasks : workstatus[t] \in 0 .. Work[t]
    /\ astray \in BOOLEAN /\ forgotten \subseteq Tasks

\* The count of a unit is the number of threads that hold a slot: who is in its
\* list of holders, dead ones included, and who was handed one in its sleep.  And
\* who computes is in one such list, that of the unit its entity names.
SlotsAreHeld ==
    /\ \A u \in Ids :
        Cui[u].count = Cardinality(Cui[u].tasks)
                     + Cardinality({t \in Asleep(u) : Hwse[t].semaphore_up})
    /\ \A t \in Tasks : pc[t] \in Holding =>
        {u \in Ids : t \in Cui[u].tasks} = {Hwse[t].cfs_rq}

\* No slot is lost or given twice by cu_down, cu_up, set, tidying and the migration
\* of a thread to another processor: only by a release that hits another unit than
\* the one at which the thread is counted.
OnlyStraySlotsAreLost == astray \/ SlotsAreHeld

\* A thread that sleeps in alloc is in the tree of its unit, or has been handed a
\* slot, or told to migrate: exactly one of them.
IsFound(t) ==
    LET queued == Contains(Cui[my[t]].tree, t)
    IN  \/ queued /\ ~Hwse[t].semaphore_up /\ ~Hwse[t].need_migrate
        \/ ~queued /\ (Hwse[t].semaphore_up # Hwse[t].need_migrate)

Sleepers == {t \in Tasks : pc[t] = "sleep"}

\* "we can wake some of the sleepers to take those places" (1923): no wake-up is
\* lost and none comes twice.  The tree of a unit holds nobody but who sleeps there,
\* and nr_running counts it.
SleepersAreFound ==
    /\ \A t \in Sleepers : IsFound(t)
    /\ \A u \in Ids : /\ ToSet(Cui[u].tree) \subseteq Asleep(u)
                      /\ Cui[u].nr_running = Len(Cui[u].tree)

\* The only sleepers whose wake-up is lost are those that set takes out of the tree
\* of a unit with more holders than slots (1930-1937); freed slots, balancing,
\* removal, tidying and signals lose none and wake none twice.
OnlyForgottenSleepersAreLost ==
    astray \/ /\ \A t \in Sleepers \ forgotten : IsFound(t)
              /\ \A u \in Ids : /\ ToSet(Cui[u].tree) \subseteq Asleep(u)
                                /\ forgotten = {} => Cui[u].nr_running = Len(Cui[u].tree)

\* Threads wait for a unit only while all of its slots are taken.
SlotsAreUsed ==
    astray \/ \A u \in Ids : Cui[u].tree # <<>> => Cui[u].count >= Cui[u].maxcount

\* "new tasks are allowed onto the cu if count < maxcount" (408-409): the count of
\* a unit never grows past its maxcount, whether a thread is let in, is handed a
\* slot, tidies, or takes its slot along to another processor.  Calls of set, which
\* wake a thread even if count = maxcount (1936), are left out.
NewHoldersFit ==
    [][astray' \/ \A u \in Ids :
            Cui'[u].count > Cui[u].count /\ Cui'[u].maxcount = Cui[u].maxcount
            => Cui'[u].count <= Cui'[u].maxcount]_vars

\* A worker never sleeps for ever: it gets a unit or looks for another one, as
\* long as no thread has died with a slot and no slot has gone astray.
SleepEnds ==
    \A t \in Tasks :
        pc[t] = "sleep" ~> (pc[t] # "sleep" \/ Dead # {} \/ astray)

\* A unit that was removed while in use disappears after all, as long as no
\* thread has died.
DeletionHappens ==
    \A u \in Ids \ Cpus :
        (Cui[u].listed /\ ~Cui[u].online) ~> (~Cui[u].listed \/ Dead # {})

=============================================================================
