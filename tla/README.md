# A TLA+ verification of hetsched

hetsched schedules jobs on heterogeneous accelerators (GPUs, FPGAs, CPUs). The
repository has two programs that do this in two ways:

* **USS**, the user-space scheduler (`uss/src`): a daemon that tells the threads
  of co-operating programs where to run, over FIFOs;
* **KSS**, the kernel-space scheduler (`kss/src`): a patch of Linux 2.6.32 in
  which an accelerator is a *computing unit* guarded by a semaphore.

This directory models the USS daemon and its client library (five modules and
six of proofs) and the computing units of KSS with the threads that use them
(two modules and one of proofs); `NaturalRecursion` has the induction that the
proofs share. Line numbers without a path are in
`uss/src/daemon/uss_scheduler.cpp`, in the parts on KSS in
`kss/src/linux-source-2.6.32/kernel/sched_hwaccel.c`.

## 1. Inventory

### 1.1 USS

| component | state | operations | talks to |
|---|---|---|---|
| scheduler, short term (`uss_scheduler.cpp` 1689-1983) | `se_table` (entities), each queue's `tree` and `curr`, `tokill_list` | `handle_cleanup`, `pick_next`, `handle_message`, thread `quick_dispatcher` | clients (FIFO), tick (shared memory) |
| scheduler, mid term (1138-1438) | the same, `clock` | `update_time`, `update_runtime`, `update_curr`, `periodic_tick`, `remove_finished_jobs` | clients, dispatcher |
| scheduler, long term (355-1135) | `rq_matrix`: multi-queues, their counters, `best_to_push`, `best_to_pull`, `centerpoint` | `create_rq`, `add_job`, `remove_job`, `insert_to_*`, `remove_from_*` | registration controller |
| load balancer (699-807, 1440-1666) | the same | `move_to_rq`, `load_balancing` | not called in this version (`uss_daemon.cpp:293`) |
| registration controller (`uss_registration_controller.cpp`) | `reg_pending_table`, `reg_table`, `addr_table`, `reuse_handles`, `max_handle`, `new_regs` | acceptor thread, one registration thread per connection, functions called by the main loop | client library (socket), main loop, scheduler |
| main loop (`uss_daemon.cpp` 230-350) | none of its own | registrations, tick, removal, sleep | all of the above |
| client library (`uss_library.cpp`) | `run_on`, `device_id`, `is_finished` | `libuss_register_at_daemon`, `libuss_start`, `update_run_on`, `waitfor_run_on` | daemon |
| transport (`uss_fifo.cpp`, `uss_comm_controller.cpp`) | the FIFOs, address to descriptor table | install, send, blocking read | daemon, clients |
| `uss_rtsig.cpp`, device controller, test applications, benchmarks | | | not modelled, see section 7 |

The daemon is one process with `2 + n` kinds of threads: the main loop, the
quick dispatcher, the acceptor and one thread for each registration that is
under way. Mutexes: `tree_mutex` of each run queue (taken first), `se_mutex`
(taken inside of it), `reg_mutex`, `handle_mutex`, and one mutex per pending
registration. Each client thread runs the library. `dexit()` anywhere ends the
whole daemon.

What is hard: `curr` is written by the main loop and the dispatcher; `update_curr`
decides on an unlocked read of it; a job's true place (where its client
runs) and the daemon's record of it (`execution_mode`) are linked by messages in
two FIFOs only; a client finishes and closes its FIFO on its own; a removal is
done by another thread than the one that learns of the end; and many
inconsistencies do not lead to an error return but to `dexit()`.

What makes each component correct:

* short and mid term: an accelerator is used by one job at a time; a grant is
  never sent to a job that would not obey it; trees and entities agree; a
  preempted job leaves, an idle accelerator is used, a finished job vanishes;
* long term and balancer: each job is in exactly one queue, the counters count
  what the trees hold, `best_to_push` lists what a multi-queue holds and
  `best_to_pull` what others hold and it could run, the centerpoints add up to
  the number of jobs;
* registration: every connection is answered, `new_regs` is backed by pending
  entries, `reg_table` and `addr_table` are inverse to each other, a handle has
  one owner;
* library: it obeys the last message, answers each message that makes it leave,
  and names the device it left.

### 1.2 KSS

| component | state | operations | talks to |
|---|---|---|---|
| computing units (`sched_hwaccel.c`) | `computing_units` (one list for each type, `nr_devices`, `current_id`), each unit's `count`, `maxcount`, `online`, holders and `offers_outstanding`, the offers in each thread's entity, `cpu_active_cui_mask` | `alloc`, `rerequest`, `free`, `add`, `del`, `set`, `iterate`, `details`; inside: `cu_down`, `cu_up`, `__tidy_cu_locks`, `__load_balance_hw` | user threads (system calls), the fair class, Linux (migration) |
| fair class (`sched_fair_hw.c`) | a unit's tree of waiting threads, `curr`, `nr_running` | enqueue, dequeue, pick next, granularity | computing units only |
| hooks in Linux (`sched.c`, `sched.h`) | `hwse`, a second scheduling entity of each thread | `sched_init`, `__sched_fork`, `__set_task_cpu` | computing units |
| test application (`worker.cpp`, `testapp.cpp`) | `workstatus`, `isRunning` | `startWorking`: alloc, compute, rerequest, free; shutdown and kill | system calls |
| `accelerator-ctl`, `hwaccel_uc` | | wrappers of `add`, `del`, `set`, `iterate`, `details` | system calls |

Locks: the mutex of the list of units (`computing_units.access_mutex`), and for each
unit an `access_mutex` (held through a call, released while a thread sleeps) and
a spinlock. A slot of a unit may be taken directly, be handed over to a
sleeping thread by whoever frees it (`semaphore_up`, without touching `count`), be
given by `set`, or travel with a thread that Linux moves to another CPU; a sleeping
thread may also be told to migrate (`need_migrate`). What is hard: these ways to
take and lose a slot happen in different system calls of different threads, threads
die with a slot or while they wait, a unit is removed while it is used or
chosen, offers go stale before they are taken.

What makes it correct: `count` is the number of slots held, whichever way they were
taken; no thread waits beside a free slot; a sleeping thread is in the tree or has been told
why it is not, and does not sleep for ever; a removed unit disappears once it is idle.

## 2. Plan

1. `UssDispatch` with the abstract `AcceleratorGrant`: the core, since every
   promise of the scheduler is about who may use an accelerator. *Done*: modelled,
   checked, and every safety property proved (section 5).
2. `UssRegistration`: acceptor, registration threads, the tables and the main
   loop's side. *Done*: modelled, checked, and its safety properties proved (section 5).
3. `UssRunQueues`: the matrix of run queues with `add_job`, `remove_job`,
   `move_to_rq` and `load_balancing`, with `UssAffinities`, the library's list of types and
   its sort. *Done*: modelled, checked, and its safety properties proved (section 5). Left: the
   composition with `UssDispatch`, whose `AddJob` takes any of the queues.
4. `KssUnits` and `KssCu`: the computing units, and the system calls, threads and
   administrator that use them. *Done*: modelled, checked, and its safety properties
   proved (section 5). Left: a thread that is killed inside of `cu_down`, see section 6.

One run carries all properties of a module where one instance reaches all of its cases.

## 3. The modules

### 3.1 `UssDispatch`

| variable | code |
|---|---|
| `se_table`, `se` | `uss_scheduler::se_table`: its keys, and for each handle the `uss_se_table_entry` fields the properties depend on; `execution_mode` is the pair (type, index) |
| `tree`, `curr` | per run queue: the `tree` of `(vruntime, handle)` and the `uss_curr_state` |
| `tokill_list` | the set of the same name |
| `clock` | `uss_scheduler::clock` in units of the 50 ms constant of `pick_next` |
| `main`, `disp` | where the main thread and the dispatcher are between two critical sections |
| `daemon_fifo`, `fifo` | the FIFOs of the daemon and of each client |
| `client` | the library's `run_on`, `device_id`, `is_finished` and its place in `libuss_start` |
| `alive` | no thread of the daemon has called `dexit()` |

A step is what a thread does under one mutex, or one read or write of a FIFO:

| thread | actions | code |
|---|---|---|
| main | `AddJob` | `add_job`, accepted path (883-1028) |
| | `PeriodicTick`, `CheckCurr`, `PickIdle`, `UpdateNothing`, `UpdateCurr`, `SendFails`, `EndTick` | `periodic_tick`, `update_time`, `update_runtime`, `update_curr` (1138-1438) |
| | `RemoveJob`, `RemoveFails`, `EndRemove` | `remove_finished_jobs`, `remove_job` (1034-1135, 1668-1680) |
| dispatcher | `HandleCleanup`, `DispatchNext`, `DispatchNothing` | `quick_dispatcher`, `handle_message`, `handle_cleanup`, `pick_next` (1689-1983) |
| client | `Register`, `Start`, `WaitForRunOn`, `InitAccel`, `InitCpu`, `Work`, `Free`, `Close` | `libuss_start` and its helpers (`uss_library.cpp` 57-133, 380-650) |

What is abstracted:

* `RemoveJob` is one step though the code takes `tree_mutex` (check of `curr` and
  erase), then `se_mutex`, then the registration mutexes: once a finished job is out of
  its tree no thread but the main one touches it. `AddJob` is one step
  though it inserts the entity, the tree entry (457) and the entity's key (472-474)
  in three: the three commute with a concurrent `pick_next`, which cannot
  choose a job that is not in the tree yet, and chooses it the same way before
  and after the last one.
* `pick_next` locks `se_mutex` for each candidate; `PickNext` reads all entities
  at once. The only concurrent writer is `handle_cleanup`, and it runs in another
  call of the same dispatcher or, against the main thread's `pick_next`, can only make a
  job on the CPU idle (`USS_BLUEMODE`) while the scan is under way: the
  two differ in which of the idle jobs is taken.
* The main loop's `load_balancing()` is commented out (`uss_daemon.cpp:293`), so
  `enqueued_in` never changes and `marked_runon_idle` is never set. The failure
  of a send in `pick_next` (1846) has no action: `GrantIsClean` shows that the
  receiver is open and reads.
* The loop that reads one message at a time is a FIFO sequence; lengths are not bounded
  (the model bounds them itself: `MessagesAlternate`).
* A client does not die on its own: the library has no path for it, and the
  daemon none to notice it.

### 3.2 `AcceleratorGrant`

What a run queue promises, without threads or messages: an accelerator is granted to
a job, the job enters it at most once, leaves, and then the accelerator is granted
again or becomes free. `UssDispatch!Grants` maps `curr[a].handle` to `holder`
and computes `stage` from where the client and its cleanup message are.

### 3.3 `UssRegistration`

| variable | code (`uss_registration_controller.cpp`) |
|---|---|
| `pending`, `reg_table`, `addr_table` | the three maps, as functions on finite sets |
| `new_regs`, `max_handle`, `reuse_handles` | the members of the same names |
| `acceptor`, `backlog` | the acceptor thread and the connections `accept()` has not returned |
| `thread` | one `handle_incoming_registration` for each connection |
| `se_table`, `tokill_list`, `main` | the scheduler's and the main loop's side |

The acceptor's actions are `Accept`, `Throttle`, `CreateThread` (609-705). A
registration thread goes through `TakeParameter`, `GetHandle`, `AddPending`, `AddAddress`,
`Increase`, `Decide` or `WaitOnBlank`, `Respond`, `RemovePending`,
`SignalAcceptor` (441-598), in that order: in each it takes a mutex or
reads or writes a socket, and any thread may run in between. The main thread's are `GetNewReg`, `AddJob`,
`FinishRegistration`, `Decrease`, `RemoveJob` and the failures
`GetNewRegFails`, `AddJobFails` that end the daemon; so does a registration thread that
reads less than a whole parameter (`ReadFails`). `HandleFinished` stands for all
that `UssDispatch` says of a job's life, and `AddressFails` for any grant to a job
without address.

What is abstracted:

* An address is the client. The library names its FIFO after the time and
  `mkfifo` fails for a name in use, so the branch for a known
  address (493-498) is never taken. Neither is the one for a declined registration (571-585):
  `add_job` calls `dexit()` first (902, 963), see section 6.
* `TakeParameter` is the thread's `parameter_transported` and the acceptor's
  wake-up from it in one; nobody else waits on that condition.
* `RemoveJob` merges the removal of the entity, of both addresses and the insertion in
  `reuse_handles`, as in `UssDispatch`.

A registration thread erases its pending entry (569) after it has answered (564), and nothing
keeps its client's job from running, finishing and being removed in between: its handle is then
recycled under the entry. `overtaken` is a history variable with the handles to which this has
happened; no guard reads it. The properties are stated relative to it, so that they say what
else goes wrong then (section 5.2), and `registration_recycle` shows the case itself.

### 3.4 `UssAffinities` and `UssRunQueues`

The same scheduler as `UssDispatch` seen from the long term: a job's messages and place in
the order of its tree are left out (`Pickable`: any idle job may be picked;
`HandleCleanup`: the running job may return, preempted or finished, at any time), its
place in the matrix of queues is what counts.

| variable | code |
|---|---|
| `tree`, `length` | each `uss_rq`'s `tree` and `length`, indexed by (type, index) |
| `nof_all`, `best_to_push`, `best_to_pull`, `centerpoint` | the members of `uss_mq` |
| `se`, `curr`, `tokill_list` | as in `UssDispatch`; `se` holds the list of affinities |
| `main` | the main thread, with the local variables of `load_balancing` |
| `disp` | the queue between `handle_cleanup` and `pick_next` |

`AddJob` is `insert_to_mq` and the lists and centerpoints (883-1025), `RemoveJob` undoes it
(1034-1135). `TickPick`/`EndTick` are a tick as far as it fills idle queues. The pull
(1495-1544) goes through `PullMq`, `PullRq`, `PullTry`, one attempt a step; the push
(1557-1663) through `PushMq`, `PushCheck`, `PushTry`: `PushCheck` reads the entity under
`se_mutex`, `move_to_rq` takes the locks of both queues later, and the dispatcher may run
between the two. `MoveFails` are the ends of `move_to_rq` that do not return: a job
without entity, one queue locked twice, a failed insert.

Pure algorithms are operators: `WithRoom`/`BestRq` is `get_best_rq_of_mq`, `MinPushAffinity` the
push curve. The list of types a client sends is that of `UssAffinities`: `FilledTo` collects the
types it implements, up to `USS_MAX_MSI_TRANSPORT`, and `Sorted` is the library's bubble sort, a
pass (`Pass`) inside of a loop (`Passes`) that ends early after a pass without exchange. Each loop is a
recursive function of the number of its iterations, so that theorems can be proved about it.
`main.targets` holds, for the push of one job, the places in its list that are still to be
tried, each with its type; `Exits` are the reasons for which the main thread may end the daemon.

What is abstracted:

* A centerpoint is a multiple of 1/`Scale`, with `Scale` such that every share is exact
  (`SharesAreExact`); the rounding of doubles, and a job whose affinities are all 0 (a division
  by 0), are left out.
* `centerpoint` is not initialised by the constructor of `uss_mq`: `Garbage` is what the
  memory may hold.
* The iterator over `best_to_push` is incremented after `move_to_rq` has erased the entry
  it points at (1601, 786). `push_only_one_per_mq` ends the loop then, so the value is not used.
* `load_balancing()` is commented out of the main loop (`uss_daemon.cpp:293`). `Balancing`
  says whether the tick goes on to it. It is TRUE in `runqueues`, to check the safety of the function
  as its authors would use it; that only adds behaviour. The theorems
  hold for both values. No liveness is stated of a function that is never called.

The comment at 1501 says that a multi-queue is balanced inside with every insertion or removal, and
the test at 1504 (`HasEmptyRq`) relies on it: a multi-queue with as many jobs as queues has no empty
one. Insertions keep the balance (`InsertionsKeepBalance`). The removal's part is only a comment
(685): with queues of 2 and 1 jobs, the end of the single one leaves 2 and 0, and `load_balancing`
passes over this multi-queue. `RemoveJob` and `HasEmptyRq` follow the code, and no property says
that a queue of such a multi-queue is filled again.

### 3.5 `KssUnits` and `KssCu`

`KssUnits` has the data (`Unit`, `Entity`) and, as operators on a record of both, what is
done under the locks of one unit: the fair class (`Enqueue`, `Dequeue`, `SetNextEntity`,
`PickNext`), the counting lock (`CuDownDirectly`, `CuDownWaits`, `CuUp`, `Tidy`), the choice
of a unit (`CalculateAffinity`, `FindBestCu`), the steps of load balancing and
`TryToDel`. `KssCu` has the actions:

| who | actions | code |
|---|---|---|
| a thread in `alloc` | `FindBestUnit`, `LockUnit`, `WakeUp`, `Interrupted`, `TryDelete`, `ReturnFromAlloc` | 1102-1265, `cu_down` 468-545 |
| in user code | `Compute` | `worker.cpp` 314-361 |
| in `rerequest` | `Rerequest`, `CheckOffer` | 1304-1400 |
| in `free` | `FreeUnit`, `AfterFree`, `DeleteOrBalance` | 1418-1495 |
| balancing, for who called it | `LookAtWaiting`, `PullCandidate`, `OfferToRunning` | 833-958 |
| administrator | `AddUnit`, `EnableCpu`, `DelUnit`, `SetUnit` | 1520-1666, 1893-1954 |
| Linux | `Migrate`, `Kill` | `sched.c` 1985-2000, `testapp.cpp` 144-151 |
| test application | `Shutdown` | `testapp.cpp` 139-168 |

A step is a section under the `access_mutex` of a unit or under the mutex of the list.
Two mutexes are held from one step to another, by a balancing: that of the list
(`CusMutexIsFree`) and that of the unit whose thread is the best candidate so far
(`AccessMutexIsFree`).

Two history variables say where two flaws of the code have struck (section 6); no guard reads
them. `astray` becomes TRUE when a thread releases, or takes along, a slot of a unit at which it
is not counted; `forgotten` has the sleepers that `set` has taken out of a tree without waking
them up.

The loops of the code are recursive functions of the number of rounds: `Released` (the
releases of a tidying), `Woken` (the wake-ups of `set`), `Search` (units that
`__find_best_cu` has looked at) and `Scanned` (waiting threads that a balancing has looked at).
`NextCu` takes the units of a list in their order.

What is abstracted:

* vruntime: it does not change while a thread waits, so the tree is a sequence, and a new
  thread is inserted at any place. The granularity of a `rerequest` is over or it is not
  (`expired`), the load of a CPU's run queue is 0 or 1 (`cpuload`).
* A unit that was deleted keeps the fields it had (`listed` is FALSE): a thread that chose it
  before finds it offline. In the code the memory has been freed by then; what it
  holds, and a second decrement of `nr_devices`, are outside of the model.
* A thread without a run queue is not moved by `Moved`; the hook at 166 dereferences
  NULL.
* `Migrate` may happen wherever `Migrations` says, also in the lines of `free` between the one that
  reads the run queue and the one that pins the thread, and to a dead thread. What follows when
  the slot that is released or moved then belongs to another unit is not followed to its end:
  the code deletes from the list of one CPU under the lock of another one.
* `SetUnit` holds the mutex of the list for its length; the code releases it first. It
  leaves out a change of type and the units of CPUs.
* A thread is killed while it computes, or waits for a mutex after `free`
  or before a deletion (`Kill`). One that is killed while it waits for the `access_mutex`
  inside of `cu_down` returns as if it held it (449); this is listed as a hazard, not modelled.

## 4. What the runs show

| run | instance | properties |
|---|---|---|
| `idle` | 3 jobs, 1 accelerator, `USS_BLUEMODE` 0 | types, `UsersAreCurrent`, `TreesMatchEntities`, `MessagesAlternate`, `GrantIsClean`, refinement of `AcceleratorGrant` |
| `blue` | 2 jobs, 2 accelerators, `USS_BLUEMODE` 1 | the same, `SendersAreKnown`, and the whole inductive invariant `Inv` |
| `live` | 2 jobs, 1 accelerator, fair | a preemption is answered, an idle accelerator is used, a finished job is removed |
| `remove` | 2 jobs | *violated*: a finished job may still be current when it is removed |
| `epipe` | 2 jobs | *violated*: the tick may write to a FIFO that is closed |
| `registration` | 3 clients, one of which the daemon cannot serve, fair, 2 threads | tables, counters, answers, who may share a handle, every connection answered |
| `registration_recycle` | 2 clients | *violated*: a recycled handle has two owners |
| `registration_address` | 2 clients | *violated*: a job is scheduled before its address is known |
| `runqueues` | 3 jobs, 2 types with 2 and 1 queues, `Balancing` | types; counters, trees and lists agree; no unknown `dexit()`; a running job stays; the best type first; a job that enters a balanced type leaves it balanced |
| `kss` | 2 workers, 2 CPUs, 1 GPU and a second one that may be added, fair | slots are counted and used, sleepers are found and wake up, `maxcount` is kept, all up to the first stray slot; a removed unit disappears |
| `kss_free` | 2 workers, 2 CPUs | *violated*: a thread that is moved at the start of `free` releases the wrong unit |
| `kss_wake` | 4 workers, a GPU with 3 slots | *violated*: `set` takes a sleeper out of the tree and does not wake it |

**Bounds.** `MaxClock` 2 with `Granularity` 1 and `NewVruntime` 1: a job uses up
its granularity, loses its place at the left of the tree, is preempted, another
one runs and is preempted too. After the bound the clock stands still, time
slices no longer end, everything else goes on. Two
jobs are enough for every pairwise race; the third in `idle` lets a job wait while two others
change places. Two accelerators let the dispatcher hold a message of one
queue while the tick looks at the other. In registration, three clients
allow a recycled handle, a new one, a connection that waits for a
thread, and a client whose registration ends the daemon. `USS_NOF_MAX_DISPATCHER_THREADS` is 30 in the code and 2 in the runs, so that the limit is
met. (With a limit of 1 a wake-up of the acceptor can be lost: it tests
`new_regs` under the mutex but the signal at 591-597 is sent without; the
next registration thread signals again, and with a limit of 1 there is none.
No run has 1: the limit that the code has is not affected.)

In `runqueues` the daemon knows eight types (`NofTypes`, as in the code) and a client may send three
of them (`MaxTransport`; one of the clients implements four, so the limit is met). The affinities
make three kinds of jobs: one for both types alike, one that prefers a type the daemon does not
have, one that has no accelerator at all. The first job of a multi-queue with two queues goes to the
first one, the second to the other, the third waits: pull and push both happen, also from and to the
multi-queue with one queue. The multi-queue with two queues meets both remainders of `floor(n/m)`,
on which `InsertionsKeepBalance` depends.

In `kss` one job can use the GPU only, the other one CPU and GPU; one of them may be killed.
`CU_HW_QUEUE_LIMIT` is 10 in the code and 2 in the run. An administrator makes at most two calls
(`MaxCalls`): add the second GPU, remove a unit, enable a CPU again, change the slots of a GPU to 1
or 2, shut the workers down. A GPU there has one slot when the workers start and at most two users,
so that `set` never meets more holders than slots when it raises them: this takes the three holders
and the fourth thread of `kss_wake`, and there `set` does forget a sleeper. So `forgotten` stays
empty in `kss`; what `OnlyForgottenSleepersAreLost` says of the threads that are left is proved
(`SleepersFound`). `Migrations` in `kss` includes the lines at the start of `free` and dead threads,
so `astray` does become TRUE there; the properties then say nothing more of the run, but all that
happens before is checked. `NewHoldersFit` speaks of the steps that do not change `maxcount`, since
`set` wakes a thread even where `count = maxcount`. Every action fires. The one branch that two
threads do not reach is `MustLookElsewhere`, a congested queue (at least `CU_HW_QUEUE_LIMIT` + 2
threads); four threads without an administrator reach it (341,100 states, the same safety properties
hold). A CPU's `maxcount` is `UINT_MAX`, here 7.

`CHECK_DEADLOCK` is off since the system stops when the daemon has exited and
when all programs are done.

**Fairness.** Weak fairness of each thread of the daemon: they are pthreads, each
step is enabled until taken, and the mutexes are held for a bounded time. For a
client's library thread the assumption is that the application's `init`, `main`
and `free` return (`Continues`), which the interface demands; nothing
makes a program register, connect or finish its work. Liveness is stated up to
the exit of the daemon (`~alive`), since `dexit()` ends it on the paths of section 6.
In `kss` each thread that can go on does go on (`Advance`) and a balancing comes to its end
(`Complete`): kernel threads are scheduled and no mutex is kept for ever. A worker is
such a thread too: it computes up to its next checkpoint and makes the next call.
`Ready` spells out when a step of a thread is enabled (TLC has confirmed that it is
equivalent to `ENABLED ThreadStep(t)`, on an instance with one call of the administrator).
A thread that has died with a slot is only noticed by the next one that
tidies its unit, so `SleepEnds` and `DeletionHappens` are stated for the case that none has died, and `SleepEnds`
for the case that no slot has gone astray: a CPU that is full for ever is not left.

## 5. What is proved

TLAPS checks every step.

### 5.1 The dispatcher

The only assumption is `DispatchAssumption` (handles are
positive numbers, IDLE, CPU and "no queue" are not accelerators). The theorems hold
for any number of jobs and accelerators, both values of `USS_BLUEMODE`, any granularity
and any bound on the clock.

| theorem | module | says |
|---|---|---|
| `TypesAreCorrect` | `UssDispatchProofs` | `TypeOK` |
| `QueuesAreConsistent` | | `TreesMatchEntities` |
| `UsersCurrent` | `UssDispatchSafety` | `UsersAreCurrent`: an accelerator has one user, the current job |
| `SendersKnown` | | `SendersAreKnown`: `handle_cleanup` always finds the sender |
| `MessagesDoAlternate` | | `MessagesAlternate` |
| `GrantsAreClean` | | `GrantIsClean`: a RUNON for an accelerator reaches a waiting client |
| `InductiveInvariant` | | `Inv`, the invariant below, from which the others follow |
| `SchedulerImplementsGrants` | `UssDispatchRefinement` | `ImplementsGrants`: every step is a step of `AcceleratorGrant` or none of it |

The inductive invariant `Inv` has four parts, in this order:

* `TypeInv` (`UssDispatchProofs`): `TypeOK`, and what makes it inductive. `exec_start` is
  not ahead of `clock`, so the runtime a tick adds is a natural number; the main thread has a queue in
  hand while it picks or updates; a client inside of something knows its device.
* `QueueInv`: a current job has an entity, in this queue (else `update_runtime` and
  `remove_job` could put the tree and the entity at variance), and only the job
  add_job is busy with is both registering and in `se_table`.
* `JobsInv` (`UssDispatchSafety`): `JobInv(h)` for every handle. `execution_mode` is what
  the daemon believes of a job; for each belief `JobInv` lists the combinations of messages
  the dispatcher has not read, of unread RUNON messages and of the client's place that can
  occur. None of the safety properties is inductive without it: that a client inside of
  an accelerator is current depends on the message it has not read, that on
  `already_send_message`, and that on the cleanup message it has not sent. With `USS_BLUEMODE` a job may have
  two messages under way: it left the accelerator, and has finished on the CPU.
* `DispatchInv`: `curr` names a job that is on the accelerator or whose cleanup message is being
  handled (`disp`). This is why the two callers of `pick_next` do not conflict: the main
  thread calls it when `curr` is empty, and what it saw without the lock
  stays true, since only a dispatcher that holds a message of this queue could
  change it, and then `curr` would not be empty.

The proof that a step keeps `JobsInv` (`JobStep`) distinguishes what a step may
do to one job: `SameJob` for a job it does not touch, or whose client reads a
message (`ClientFrame`); `FreeJobs`, `HandleCleanupJobs`, `PickedJob`, `PreemptedJob` and `CalledJob` for
the steps that move a job from one belief to another. `LeftsStep`,
`RunnersStep` and `MainStep` do the same for the parts of `DispatchInv`. TLC checks `Inv`
in run `blue`.

For the refinement, `NoGrantChanges` and `OneGrantChanges` reduce a step to the
accelerators it concerns, and `UsedAccel` and `FreeAccel` derive the abstract stage
of a grant from `Inv`.

### 5.2 The registration controller

`RegistrationAssumption` says that there are finitely many clients and that the limit on threads is
positive. Nothing is assumed of the order of the threads' steps: where the late removal of an entry
makes a difference, the property itself says for which handles (`overtaken`).

| theorem | module | says |
|---|---|---|
| `RegistrationTypes` | `UssRegistrationProofs` | `TypeOK`; among it `new_regs` >= 0 |
| `AddressTablesAgree` | | `TablesAgree`: the two tables are inverse to each other |
| `RecycledHandlesAreFree` | | `FreeHandlesAreForgotten` |
| `NewRegsCountsEntries` |  | `NewRegsBalance`, as long as no handle is overtaken |
| `SearchesSucceed` | | `TakenEntryIsPending`: `add_job` is never called for a job that exists, and `get_new_reg` and `add_job` find what they look for, but for overtaken handles |
| `AcceptedClientsHaveJobs` | | `AcceptedHasJob`: an accepted client has an address, and an entity unless its handle is overtaken |
| `OnlyLeftoversShareHandles` | | `LeftoversShareHandles`: two clients hold one handle only if it is overtaken and one of them has finished and has nothing left but its registration thread |

`TableInv`, which does not depend on `overtaken`:

* `RegTypeInv`: `TypeOK`, and what main has taken from `new_regs` is still counted there: it is why
  `Decrease` cannot go below zero.
* `ConnectionInv`: a connection is in the backlog or with the acceptor only while its client has
  no thread, so `CreateThread` never starts a second one.
* `HandleInv`: a handle is with one thread that has just got it (`Fresh`), with one that has not
  listed it (`Unlisted`), in the tables, or free. The handles of `Unlisted` threads matter because
  main may already run their jobs.
* `AddressInv`, `JobInv`: only listed threads have an address; the scheduler has jobs of owned handles
  only. A blank entry that `operator[]` made has no handle, hence the condition
  on `NoHandle` there: main would exit over it.

`SafetyInv`, which is relative to the overtaken handles:

* `EntryInv`: but for overtaken handles, the entries are those of the threads between `AddPending` and
  `RemovePending`, and no such handle is free or issued again. A slow thread breaks this for its handle
  only: the handle is recycled while the entry is there, and `map::insert` keeps the old one.
* `DecisionInv`: a decided entry has a job, and the entry main is busy with is undecided, both but for
  overtaken handles; whatever happened, main never adds a job that exists.
* `ClientInv`: an address stands for its client's handle until the client has finished and its job
  was removed; a thread that has listed its handle and does not find it has a finished client and an
  overtaken handle; only finished clients have handles on `tokill_list`.

`NewRegsBalance` is then inductive while no handle is overtaken: `BalanceStep` computes the
cardinality of the two sets after each step (finite sets, since `Clients` is finite and the handles
are bounded by `max_handle`).

### 5.3 The library's list of types

`UssAffinitiesProofs`, from `TransportAssumption` alone: for every function from types to positive
affinities, `FilledHasTypesOnce` says that the list the library fills has each type at most once,
only types that the client implements, and their affinities; `SortedIsSorted` says that the bubble
sort returns a permutation of any list in descending order. The invariant of a pass (`PassInv`):
after `i` comparisons the element at `i + 1` is the smallest so far, and without an exchange the
list up to there is sorted. So a pass puts one more place at the end of the list in order, and a
pass without exchange was over a sorted list, which is why the loop may end there.

The library's theorems on induction and on recursive functions have an operator as a parameter,
which the provers cannot instantiate. `NaturalRecursion` has their first-order forms, for this
module and for `KssCuProofs`: every set of naturals that is not empty has a least element
(`LeastNatural`), so a set that has 0 and, with each number, its successor has every number
(`SetInduction`); and for every set `S`, start `s0` in `S` and function `d` on pairs there is one
function that begins with `s0` and goes on by `d` (`Recursion`), glued together from its finite
beginnings (`RunsExist`, `RunsAgree`). A recursive definition is then shown to be such a function.

### 5.4 The run queues

`RunQueueAssumption` (finitely many handles, no device listed twice, clients that implement at
least one of the daemon's known types with positive affinities) is what the daemon's configuration
and the library guarantee. `SharesAreExact`, the assumption on `Scale`, is not used. The theorems hold
for every device list, any clients and jobs, any garbage in `centerpoint`, and with load
balancing in the main loop or without.

| theorem | says |
|---|---|
| `TypeCorrect` | `TypeOK` |
| `CountersRight` | `CountersMatchTrees`: trees, `length` and `nof_all_handles` agree with the entities |
| `ListsRight` | `ListsMatchPlaces`: `best_to_push` and `best_to_pull` hold what they should |
| `ExitsKnown` | `OnlyKnownExits`: most of the main thread's `dexit()` calls cannot be reached |
| `RunningStaysPut` | `RunningJobStaysPut`: no balancing moves a job that runs |
| `StartsAtBestType` | `JobStartsAtBestType`, from `SortedIsSorted` |

`OnlyKnownExits` is the deep one, and `IInv` is what it needs:

* `Typed`, `Entities`: a job is in a queue of a type its list has, and the list names each
  type once. Without the latter `AffinityOf` would not be the affinity that the
  lists were filled with, and `move_to_rq` would leave entries behind.
* `CountersMatchTrees`: `get_best_rq_of_mq` finds a queue (`RoomExists`) because were each queue
  of a multi-queue longer than the mean, together they would hold more than
  `nof_all_handles`: the trees are disjoint (a job has one entity, which names one
  queue) and a lemma on cardinalities (`DisjointSets`) counts them.
* `ListsMatchPlaces`: each entry of a list belongs to a job with an entity, so
  load balancing never finds one without (`lb: no se of handle`).
* `CurrentInv`: a job with an accelerator is `curr` of its queue. `move_to_rq` refuses current
  jobs under the lock, hence `RunningJobStaysPut` although what load balancing has read of
  the job may be old.
* `MainInv`: what main has read in an earlier step is still in the lists when it is used: the entries
  it has yet to try (`PullInv`, `PushInv`) can only be taken away by main itself, and a push never goes
  to the multi-queue it comes from, so no queue is locked twice.

A step is followed in two parts: what it does to queues and lists (`PickKeepsData`,
`CleanupKeepsData`, `MoveKeepsData`, `AddKeepsData`, `RemoveKeepsData`), and to main (`MainOnly`,
`QuietSteps` and a lemma per action of load balancing); `NextIsRight` puts them together. TLC has
checked `IInv` as an invariant of the instance of `runqueues`.

### 5.5 The computing units

`UnitsAssumption` and `KssAssumption` say what holds of the machine and the workloads: finitely
many threads, no more of them than an unsigned counter can count; processors are numbered from
0; there are handles for the units at boot; an administrator gives a unit at least one
slot and less than `UINT_MAX`. The theorems are in `KssCuProofs`; they hold for any number
of threads, processors, units and slots, any affinities, loads and orders of the trees, with
threads that are killed and units that are added, changed and removed.

Nothing is assumed of where Linux may move a thread (`Migrations`), of the values an administrator may
set (`Slots`), or of who is killed. The flaws that `kss_free` and `kss_wake` show are in the statements
instead:

* what is said of the units holds up to the first release or move of a slot that belongs to another unit
  (`astray`). A thread moved at the start of `free` is enough for it; as long as its slot is released
  where it is counted, moves are covered wherever they happen;
* what is said of the sleepers excepts those that `set` has forgotten (`forgotten`), and of
  `nr_running` only holds while there are none, since a forgotten thread that gets a
  signal is subtracted again.

| theorem | says |
|---|---|
| `SlotsHeld` | `OnlyStraySlotsAreLost`: a unit's `count` is the number of threads that hold a slot of it |
| `SlotsUsed` | `SlotsAreUsed`: nobody waits for a unit with a free slot |
| `HoldersFit` | `NewHoldersFit`: no step but one of `set` lets `count` grow past `maxcount` |
| `SleepersFound` | `OnlyForgottenSleepersAreLost`: who sleeps is in the tree, or was told why not, or `set` has forgotten it |
| `WellFormed` | `TypeOK` until a slot goes astray; among it that no counter of a unit wraps around while nobody is forgotten |
| `LocksAreIntact` | `Intact`: `IInv(forgotten)` until a slot goes astray, from which the others follow |

The argument is about the lock of one unit in the middle of a section. `LockInv(c, hwse, S, n,
lost)` says of a unit `c`, the threads `S` that sleep for it, a number `n` and a set `lost` of
threads: `c.count` is the number of holders, of sleepers with `semaphore_up`, and `n` more; the tree
has some of `S`, each once and none that was told to go; who is not in the tree was told to go, or
is `lost`. `UnitInv` adds that the tree is empty unless `count >= maxcount`. `cu_up` begins with a
slot that somebody has left (`n` = 1) and ends with `n` = 0, either with a smaller count or with one
more sleeper that was told; tidying is a sequence of such releases, with `n` the number of dead
holders still to be released; and `set` is a sequence of wake-ups, in which a slot is counted and
handed over at once, up to a last one that may lose a thread. Their loops are recursive functions,
for which `NaturalRecursion` gives the induction.

`IInv` has six parts: `Typed`; `UnitsInv`, the lock of every unit; `KindInv`, the processors' units
are CPUs with room for everybody, so nobody ever sleeps for one; `PlaceInv`, a thread knows the unit
it holds, waits for or has just left, or Linux moved it from one CPU to another (then `FreeUnit`
releases another unit's slot, and `astray` says so); `ListInv`, a holder is on the list of no second
unit, and the current entity of a unit holds it or has been woken for it; `BalanceInv`, the
candidate a balancing has in hand is still in the tree it was found in, since the balancing keeps
that unit's mutex. `IInv(lost)` says less the more threads are in `lost` (`InvGrows`), and counting
does not depend on it: this is why the first three theorems hold whatever `set` does.

A step is a section under the locks of some units `W` in which some threads `T` change their place.
`Within` says what such a section leaves alone, `Framed` turns this into the invariant for all
other units and threads, and there is one lemma `<Action>Keeps` for each action, put together by
`NextKeeps`. TLC has checked `Intact` as an invariant of the instances of `kss` and `kss_wake`.

### 5.6 Only model-checked

The liveness properties of all modules (`SleepEnds`, `DeletionHappens` and the other
leads-to properties): fairness and `ENABLED` are outside of what the provers handle. The
properties that the violation runs refute are shown on their instances.

## 6. What the code does that it says it does not

* **`remove`.** A client that finishes on an accelerator sends ISFINISHED. `handle_cleanup`
  puts its handle into `tokill_list` under `se_mutex`; `pick_next`, which replaces
  `curr`, follows in another critical section. In between the main
  thread may run `remove_finished_jobs`: `remove_job` finds the job still current and
  exits the daemon, although its comment says that this should not happen.
* **`epipe`.** After ISFINISHED the client closes its FIFO. Until the dispatcher has handled
  the message a tick may decide to preempt the job and write to the FIFO: EPIPE,
  and `update_curr` exits the daemon. The comment in `uss_daemon.cpp`
  says that such failures are handled.
* **`registration_recycle`.** A registration thread removes its pending entry after the
  answer (section 3.3). A handle that was recycled meanwhile
  has two owners and the second one's entry is erased.
* **`registration_address`.** The pending entry is inserted before the address, so
  with two registrations under way the main thread may take the one without an address,
  and the first tick after `add_job` exits the daemon.
* **`kss_free`.** `computing_unit_free` reads the thread's run queue at 1422 and pins the thread at
  1431, "to ensure that the correct cu is being freed". Between the two Linux may move a thread
  that computes on a CPU: the slot moves along (`set_task_rq_hw`), `free` then decreases the
  count of the old unit to `UINT_MAX` and never releases the new one.
* **`kss_wake`.** When `set` raises `maxcount` by n it hands out up to n slots, unless
  `count > maxcount` (1936). It tests that after `pick_next_task_fair_hw` has taken the thread out of the
  tree: a unit that was lowered below its count and is raised to less than it loses
  a sleeper, whom no `cu_up` finds any more. With `count = maxcount` the test lets one
  thread in that does not fit, against "new tasks are allowed onto the cu if count < maxcount" (408).

Others that have no run: the limit of threads (672) is compared with `new_regs`, which a
thread increases late (515), so more threads than the limit may exist; and a client
without a suitable accelerator ends the daemon (963), the decline at 949 being
unreachable. In KSS a thread that is killed while it waits for the `access_mutex` in
`cu_down` goes on as if it held it (449), and offers may be taken below zero (1371), where they
still count as offers.

## 7. Not modelled

* `uss_rtsig.cpp`: the transport by real-time signals, not built with `USS_FIFO` 1.
* The parsing in `uss_device_controller.cpp`: the devices are the constants `Accels` and `Devices`.
* The transport's table of descriptors (`uss_comm_controller.cpp`): opened on the first send; no
  entry is ever taken out, nothing of the protocol depends on it.
* KSS: `iterate` and `details` (they only read), failures to copy from and to user space, and
  what section 3.5 names.
* Most of `sched.c`, `sched.h`, `unistd_*.h` and the system-call tables: Linux 2.6.32 with a few lines of
  the patch each. They are half of the repository's lines, and with the MD5 and prime
  workloads (`worker_md5.*`, `testappmd5.cu` and the like), the benchmarks and the scripts most of it,
  so the map covers a small share of the lines although it covers the schedulers.
* `accelerator-ctl` and `hwaccel_uc`: users of the interfaces without state of their own; the
  administrator's calls in `KssCu` stand for them.
