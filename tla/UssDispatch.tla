------------------------------ MODULE UssDispatch ------------------------------
(***************************************************************************)
(* The short-term and mid-term scheduler of the user-space daemon          *)
(* (daemon/uss_scheduler.cpp), the client library that obeys it            *)
(* (library/uss_library.cpp), and the FIFOs between them.  Three kinds of  *)
(* thread interleave:                                                      *)
(*                                                                         *)
(*   main    the daemon's main loop: accepts new jobs, runs the periodic   *)
(*           tick (update_curr of every run queue), removes finished jobs; *)
(*   disp    the quick dispatcher: reads one message, handle_cleanup, then *)
(*           pick_next on the run queue the message names;                 *)
(*   client  one library thread per job: reads RUNON messages and runs on  *)
(*           the accelerator, on the CPU or not at all.                    *)
(*                                                                         *)
(* A step is what a thread does under one mutex (se_mutex or a tree_mutex) *)
(* or one read or write of a FIFO.  The daemon dies where the code calls   *)
(* dexit(): no variable but alive changes, and nothing follows.            *)
(*                                                                         *)
(* Time is counted in units of the 50 ms constant of pick_next and ends at *)
(* MaxClock.  load_balancing() is commented out of the main loop           *)
(* (uss_daemon.cpp:293), so a job stays in the run queue add_job chose and *)
(* marked_runon_idle is never set.                                         *)
(***************************************************************************)
EXTENDS Integers, Sequences, FiniteSets

CONSTANTS
  Handles,      \* the job handles
  Accels,       \* the accelerators: (type, index) pairs that have a run queue
  IDLE, CPU,    \* USS_ACCEL_TYPE_IDLE and USS_ACCEL_TYPE_CPU
  NoAccel,      \* no run queue
  BlueMode,     \* USS_BLUEMODE: preempted jobs go to the CPU and not to sleep
  NewVruntime,  \* get_average_vruntime_of_rq(): what a job enters a tree with
  Granularity,  \* the constant part of a job's min_granularity
  MaxClock      \* bound: the clock stops here

ASSUME DispatchAssumption ==
  /\ Handles \subseteq Nat \ {0}
  /\ {IDLE, CPU, NoAccel} \cap Accels = {} /\ IDLE # CPU
  /\ BlueMode \in BOOLEAN
  /\ NewVruntime \in Nat /\ Granularity \in Nat /\ MaxClock \in Nat

NoHandle == -1

\* What a RUNON message, and a client's run_on, can say.
Modes == Accels \cup {IDLE, CPU}

\* The mode a preempted job is sent to.
IdleMode == IF BlueMode THEN CPU ELSE IDLE

VARIABLES
  alive,        \* the daemon has not called dexit()
  clock,        \* uss_scheduler::clock
  se_table,     \* the handles that have a scheduling entity
  se,           \* se[h]: the scheduling entity of h
  tree,         \* tree[a]: the entries (vruntime, handle) of a's run queue
  curr,         \* curr[a]: the uss_curr_state of a's run queue
  tokill_list,  \* finished jobs the main loop has to remove
  main,         \* the main thread
  disp,         \* the message whose pick_next the dispatcher has to do
  daemon_fifo,  \* messages from the clients
  fifo,         \* fifo[h]: RUNON messages the client of h has not read
  client        \* client[h]: the library thread of h

schedVars == <<clock, se_table, se, tree, curr, tokill_list>>
vars == <<alive, schedVars, main, disp, daemon_fifo, fifo, client>>

--------------------------------------------------------------------------------
(* Records and the initial state.                                            *)

Entry == [vruntime : Nat, handle : Handles]

Entity == [is_finished : BOOLEAN, execution_mode : Modes,
           next_execution_mode : Modes, already_send_free_cpu : BOOLEAN,
           enqueued_in : Accels \cup {NoAccel}, vruntime : Nat, rruntime : Nat,
           min_granularity : Nat]

CurrState == [handle : Handles \cup {NoHandle}, already_send_message : BOOLEAN,
              exec_start : Nat]

MainState == [pc : {"select", "tick", "pick", "update", "remove"},
              todo : SUBSET Accels, accel : Accels \cup {NoAccel},
              job : Handles \cup {NoHandle}]

Message == [from : Handles, accel : Accels \cup {CPU}, is_finished : BOOLEAN]

ClientState == [pc : {"closed", "registering", "accepted", "loop", "accel", "cpu"},
                run_on : Modes, device : Accels \cup {NoAccel}, once : BOOLEAN,
                is_finished : BOOLEAN]

NewClient == [pc |-> "closed", run_on |-> IDLE, device |-> NoAccel,
              once |-> FALSE, is_finished |-> FALSE]

NewEntity(a) == [is_finished |-> FALSE, execution_mode |-> IDLE,
                 next_execution_mode |-> IDLE, already_send_free_cpu |-> FALSE,
                 enqueued_in |-> a, vruntime |-> NewVruntime, rruntime |-> 0,
                 min_granularity |-> 0]

EmptyCurr == [handle |-> NoHandle, already_send_message |-> FALSE,
              exec_start |-> clock]

Init ==
  /\ alive = TRUE
  /\ clock = 0
  /\ se_table = {}
  /\ se = [h \in Handles |-> NewEntity(NoAccel)]
  /\ tree = [a \in Accels |-> {}]
  /\ curr = [a \in Accels |-> EmptyCurr]
  /\ tokill_list = {}
  /\ main = [pc |-> "select", todo |-> {}, accel |-> NoAccel, job |-> NoHandle]
  /\ disp = {}
  /\ daemon_fifo = <<>>
  /\ fifo = [h \in Handles |-> <<>>]
  /\ client = [h \in Handles |-> NewClient]

--------------------------------------------------------------------------------
(* Run queues.                                                               *)

\* uss_rq_tree_entry::operator<, reflexively: the order of a tree.
Before(e, f) == \/ e.vruntime < f.vruntime
                \/ e.vruntime = f.vruntime /\ e.handle <= f.handle

First(S, e) == e \in S /\ \A f \in S : Before(e, f)

\* The entry under which h is (or is to be erased) in a tree.
EntryOf(h) == [vruntime |-> se[h].vruntime, handle |-> h]

\* A write() to h's FIFO: it fails with EPIPE when the client has closed it.
Reachable(h) == client[h].pc # "closed"

\* A call of dexit(): the daemon exits and with it all that it remembers.
Dexit == alive' = FALSE /\ UNCHANGED <<schedVars, main, disp, daemon_fifo, fifo, client>>

\* Variants of Pickable with a guard of pick_next forgotten.
PickableIfFinished(a) == {e \in tree[a] : se[e.handle].execution_mode = IDLE}
PickableIfBusy(a) == {e \in tree[a] : ~se[e.handle].is_finished}

\* What pick_next may choose: not finished, and neither on an accelerator nor
\* on the CPU.
Pickable(a) == {e \in tree[a] : /\ ~se[e.handle].is_finished
                                /\ se[e.handle].execution_mode = IDLE}

\* How far the entry after e in the tree is ahead of e in real runtime.
Lead(a, e) ==
  LET behind == {f \in tree[a] : f # e /\ Before(e, f)}
      leads == {d \in {se[f.handle].rruntime - se[e.handle].rruntime :
                         f \in {g \in behind : First(behind, g)}} : d > 0}
  IN IF leads = {} THEN 0 ELSE CHOOSE d \in leads : TRUE

\* The real runtime the job of e has to reach before it may be preempted.
MinGranularity(a, e) == Lead(a, e) + Granularity + se[e.handle].rruntime

\* pick_next of run queue a, under its tree_mutex: the leftmost pickable job
\* becomes current and is told so; without one the queue has no current job.
PickNext(a) ==
  /\ UNCHANGED <<alive, clock, se_table, tree, tokill_list, client>>
  /\ \/ /\ Pickable(a) = {}
        /\ curr' = [curr EXCEPT ![a] = EmptyCurr]
        /\ UNCHANGED <<se, fifo>>
     \/ \E e \in Pickable(a) :
          /\ First(Pickable(a), e)
          /\ curr' = [curr EXCEPT ![a] = [handle |-> e.handle,
                                          already_send_message |-> FALSE,
                                          exec_start |-> clock]]
          /\ se' = [se EXCEPT ![e.handle] =
                        [@ EXCEPT !.execution_mode = a,
                                  !.min_granularity = MinGranularity(a, e)]]
          /\ fifo' = [fifo EXCEPT ![e.handle] = Append(@, a)]

--------------------------------------------------------------------------------
(* The main thread.                                                          *)

\* update_time() and the start of the loop over all run queues.
StartTick(job) ==
  /\ clock' \in {clock, clock + 1} \cap 0..MaxClock
  /\ main' = [pc |-> "tick", todo |-> Accels, accel |-> NoAccel, job |-> job]

\* add_job of a registered client: a fresh entity, an entry in the tree of the
\* run queue insert_to_mq selects, then the tick add_job ends with.
AddJob(h, a) ==
  /\ main.pc = "select"
  /\ client[h].pc = "registering"
  /\ se_table' = se_table \cup {h}
  /\ se' = [se EXCEPT ![h] = NewEntity(a)]
  /\ tree' = [tree EXCEPT ![a] = @ \cup {[vruntime |-> NewVruntime, handle |-> h]}]
  /\ StartTick(h)
  /\ UNCHANGED <<alive, curr, tokill_list, disp, daemon_fifo, fifo, client>>

\* No new registration: the main loop's own periodic tick.
PeriodicTick ==
  /\ main.pc = "select"
  /\ \A h \in Handles : client[h].pc # "registering"
  /\ StartTick(NoHandle)
  /\ UNCHANGED <<alive, se_table, se, tree, curr, tokill_list, disp, daemon_fifo,
                 fifo, client>>

\* Variants of CheckCurr: the check is forgotten, has no consequence, or looks at
\* another run queue.
CheckNothing(a) ==
  /\ main.pc = "tick" /\ a \in main.todo
  /\ main' = [main EXCEPT !.pc = "pick", !.accel = a, !.todo = @ \ {a}]
  /\ UNCHANGED <<alive, schedVars, disp, daemon_fifo, fifo, client>>
CheckOtherQueue(a) ==
  /\ main.pc = "tick" /\ a \in main.todo
  /\ main' = [main EXCEPT !.pc = IF \E b \in Accels : curr[b].handle = NoHandle
                                 THEN "pick" ELSE "update",
                          !.accel = a, !.todo = @ \ {a}]
  /\ UNCHANGED <<alive, schedVars, disp, daemon_fifo, fifo, client>>
CheckWithoutPick(a) ==
  /\ main.pc = "tick" /\ a \in main.todo
  /\ main' = [main EXCEPT !.pc = "update", !.accel = a, !.todo = @ \ {a}]
  /\ UNCHANGED <<alive, schedVars, disp, daemon_fifo, fifo, client>>

\* update_curr looks at curr.handle without a lock and decides what to do.
CheckCurr(a) ==
  /\ main.pc = "tick" /\ a \in main.todo
  /\ main' = [main EXCEPT !.pc = IF curr[a].handle = NoHandle THEN "pick" ELSE "update",
                          !.accel = a, !.todo = @ \ {a}]
  /\ UNCHANGED <<alive, schedVars, disp, daemon_fifo, fifo, client>>

\* Nothing was running: the main thread picks the next job itself.
PickIdle ==
  /\ main.pc = "pick"
  /\ PickNext(main.accel)
  /\ main' = [main EXCEPT !.pc = "tick", !.accel = NoAccel]
  /\ UNCHANGED <<disp, daemon_fifo>>

\* Something was running, but when the lock is taken the queue is empty.
UpdateNothing ==
  /\ main.pc = "update"
  /\ curr[main.accel].handle = NoHandle
  /\ main' = [main EXCEPT !.pc = "tick", !.accel = NoAccel]
  /\ UNCHANGED <<alive, schedVars, disp, daemon_fifo, fifo, client>>

\* update_runtime: how long the current job of a has run since the last update.
DeltaSwapped(a) == curr[a].exec_start - clock
Delta(a) == clock - curr[a].exec_start

\* A variant of UpdatedTree without the erase().
TreeWithoutErase(a) ==
  LET h == curr[a].handle
  IN tree[a] \cup {[vruntime |-> se[h].vruntime + Delta(a), handle |-> h]}

\* The tree with the entry of the current job moved to its new vruntime.
UpdatedTree(a) ==
  LET h == curr[a].handle
  IN (tree[a] \ {EntryOf(h)}) \cup
       {[vruntime |-> se[h].vruntime + Delta(a), handle |-> h]}

\* Variants of FreesCpu and Preempts that do not ask whether the message was
\* sent already.
FreesCpuAgain(a, l) == /\ l # curr[a].handle
                       /\ ~se[l].is_finished
                       /\ se[l].execution_mode = CPU
PreemptsAgain(a, l) ==
  LET h == curr[a].handle
  IN /\ l # h
     /\ ~se[l].is_finished
     /\ se[h].rruntime + Delta(a) >= se[h].min_granularity

\* The leftmost job l runs on the CPU while another is current: call it back.
FreesCpu(a, l) == /\ l # curr[a].handle
                  /\ ~se[l].is_finished
                  /\ se[l].execution_mode = CPU
                  /\ ~se[l].already_send_free_cpu

\* The current job has used up its granularity and is not leftmost any more.
Preempts(a, l) ==
  LET h == curr[a].handle
  IN /\ l # h
     /\ ~se[l].is_finished
     /\ se[h].rruntime + Delta(a) >= se[h].min_granularity
     /\ ~curr[a].already_send_message

\* The jobs a tick writes a message to.
Notified(a, l) == (IF FreesCpu(a, l) THEN {l} ELSE {})
                    \cup (IF Preempts(a, l) THEN {curr[a].handle} ELSE {})

\* The runtime of the current job, and the mode each job that is written to is
\* to have when it has obeyed.
UpdatedEntities(a, l) ==
  LET h == curr[a].handle
      current == [se[h] EXCEPT !.vruntime = @ + Delta(a), !.rruntime = @ + Delta(a)]
  IN [x \in Handles |->
        IF x = h /\ Preempts(a, l) THEN [current EXCEPT !.next_execution_mode = IdleMode]
        ELSE IF x = h THEN current
        ELSE IF x = l /\ FreesCpu(a, l)
        THEN [se[l] EXCEPT !.next_execution_mode = IDLE, !.already_send_free_cpu = TRUE]
        ELSE se[x]]

UpdatedCurr(a, l) ==
  [handle |-> curr[a].handle, exec_start |-> clock,
   already_send_message |-> curr[a].already_send_message \/ Preempts(a, l)]

UpdatedFifos(a, l) ==
  [x \in Handles |->
     IF x = curr[a].handle /\ Preempts(a, l) THEN Append(fifo[x], IdleMode)
     ELSE IF x = l /\ FreesCpu(a, l) THEN Append(fifo[x], IDLE)
     ELSE fifo[x]]

Leftmost(a, l) == \E e \in UpdatedTree(a) : First(UpdatedTree(a), e) /\ e.handle = l

\* update_curr of a run queue with a current job, under tree_mutex and
\* se_mutex: account the runtime, then send what has to be sent.
UpdateCurr(l) ==
  LET a == main.accel
      h == curr[a].handle
  IN /\ main.pc = "update"
     /\ h # NoHandle
     /\ Leftmost(a, l)
     /\ \A x \in Notified(a, l) : Reachable(x)
     /\ tree' = [tree EXCEPT ![a] = UpdatedTree(a)]
     /\ se' = UpdatedEntities(a, l)
     /\ curr' = [curr EXCEPT ![a] = UpdatedCurr(a, l)]
     /\ fifo' = UpdatedFifos(a, l)
     /\ main' = [main EXCEPT !.pc = "tick", !.accel = NoAccel]
     /\ UNCHANGED <<alive, clock, se_table, tokill_list, disp, daemon_fifo, client>>

\* "update_curr: failed to send message": the client has closed its FIFO.
SendFails(l) ==
  /\ main.pc = "update"
  /\ curr[main.accel].handle # NoHandle
  /\ Leftmost(main.accel, l)
  /\ \E x \in Notified(main.accel, l) : ~Reachable(x)
  /\ Dexit

\* All run queues are updated.  A tick of add_job is followed by
\* finish_registration, the main loop's own by remove_finished_jobs.
EndTick ==
  /\ main.pc = "tick" /\ main.todo = {}
  /\ main' = [main EXCEPT !.pc = IF main.job = NoHandle THEN "remove" ELSE "select",
                          !.job = NoHandle]
  /\ client' = [h \in Handles |-> IF h = main.job
                                  THEN [client[h] EXCEPT !.pc = "accepted"]
                                  ELSE client[h]]
  /\ UNCHANGED <<alive, schedVars, disp, daemon_fifo, fifo>>

\* The job remove_finished_jobs removes next: the first of the set.
FirstToKill(h) == h \in tokill_list /\ \A k \in tokill_list : h <= k

\* remove_job of a finished job that is not current in its run queue.
RemoveJob(h) ==
  LET a == se[h].enqueued_in
  IN /\ main.pc = "remove"
     /\ FirstToKill(h)
     /\ curr[a].handle # h
     /\ tree' = [tree EXCEPT ![a] = @ \ {EntryOf(h)}]
     /\ se' = [se EXCEPT ![h] = NewEntity(NoAccel)]
     /\ se_table' = se_table \ {h}
     /\ tokill_list' = tokill_list \ {h}
     /\ UNCHANGED <<alive, clock, curr, main, disp, daemon_fifo, fifo, client>>

\* "remove_job: rem failed, but in this version this must not happen".
RemoveFails(h) ==
  /\ main.pc = "remove"
  /\ FirstToKill(h)
  /\ curr[se[h].enqueued_in].handle = h
  /\ Dexit

EndRemove ==
  /\ main.pc = "remove" /\ tokill_list = {}
  /\ main' = [main EXCEPT !.pc = "select"]
  /\ UNCHANGED <<alive, schedVars, disp, daemon_fifo, fifo, client>>

--------------------------------------------------------------------------------
(* The quick dispatcher.                                                     *)

\* The job that message m adds to tokill_list, and two variants: every job that
\* leaves, or none.
FinishedOrNot(m) == {m.from}
FinishedLost(m) == {}
Finished(m) == IF m.is_finished THEN {m.from} ELSE {}

\* A variant of CleanedUp in which a later RUNON does not lead to the CPU.
CleanedUpAsleep(m) ==
  [se[m.from] EXCEPT !.execution_mode = IDLE, !.already_send_free_cpu = FALSE,
                     !.is_finished = @ \/ m.is_finished]

\* The entity of the sender when its cleanup message m is handled.
CleanedUp(m) ==
  [se[m.from] EXCEPT !.execution_mode = se[m.from].next_execution_mode,
                     !.already_send_free_cpu = FALSE,
                     !.is_finished = @ \/ m.is_finished]

\* Read a message; handle_cleanup, under se_mutex.
HandleCleanup ==
  /\ disp = {} /\ daemon_fifo # <<>>
  /\ LET m == Head(daemon_fifo)
     IN /\ disp' = {m}
        /\ se' = [se EXCEPT ![m.from] = CleanedUp(m)]
        /\ tokill_list' = tokill_list \cup Finished(m)
  /\ daemon_fifo' = Tail(daemon_fifo)
  /\ UNCHANGED <<alive, clock, se_table, tree, curr, main, fifo, client>>

\* pick_next for the accelerator that became free.
DispatchNext ==
  \E m \in disp :
    /\ m.accel # CPU
    /\ PickNext(m.accel)
    /\ disp' = {}
    /\ UNCHANGED <<main, daemon_fifo>>

\* pick_next returns at once when the job was on the CPU.
DispatchNothing ==
  /\ \E m \in disp : m.accel = CPU
  /\ disp' = {}
  /\ UNCHANGED <<alive, schedVars, main, daemon_fifo, fifo, client>>

--------------------------------------------------------------------------------
(* The client library.                                                       *)

\* A program creates its FIFO and registers.  A handle is used again only
\* after the job that had it is removed.
Register(h) ==
  /\ client[h].pc = "closed" /\ h \notin se_table
  /\ client' = [client EXCEPT ![h].pc = "registering"]
  /\ UNCHANGED <<alive, schedVars, main, disp, daemon_fifo, fifo>>

\* update_run_on: one read that takes the oldest message, if there is one, for
\* run_on; c is the client's state otherwise.
UpdateRunOn(h, c) ==
  IF fifo[h] = <<>>
  THEN client' = [client EXCEPT ![h] = c] /\ UNCHANGED fifo
  ELSE /\ client' = [client EXCEPT ![h] = [c EXCEPT !.run_on = Head(fifo[h])]]
       /\ fifo' = [fifo EXCEPT ![h] = Tail(@)]

\* The registration was accepted; update_run_on once before the loop.
Start(h) ==
  /\ client[h].pc = "accepted"
  /\ UpdateRunOn(h, [client[h] EXCEPT !.pc = "loop"])
  /\ UNCHANGED <<alive, schedVars, main, disp, daemon_fifo>>

\* case IDLE: a blocking read.
WaitForRunOn(h) ==
  /\ client[h].pc = "loop" /\ ~client[h].is_finished /\ client[h].run_on = IDLE
  /\ fifo[h] # <<>>
  /\ UpdateRunOn(h, client[h])
  /\ UNCHANGED <<alive, schedVars, main, disp, daemon_fifo>>

\* init() of the accelerator, or of the CPU implementation.
InitAccel(h) ==
  /\ client[h].pc = "loop" /\ ~client[h].is_finished /\ client[h].run_on \in Accels
  /\ client' = [client EXCEPT ![h] =
                     [@ EXCEPT !.pc = "accel", !.device = client[h].run_on, !.once = FALSE]]
  /\ UNCHANGED <<alive, schedVars, main, disp, daemon_fifo, fifo>>

InitCpu(h) ==
  /\ client[h].pc = "loop" /\ ~client[h].is_finished /\ client[h].run_on = CPU
  /\ client' = [client EXCEPT ![h].pc = "cpu"]
  /\ UNCHANGED <<alive, schedVars, main, disp, daemon_fifo, fifo>>

\* A variant of KeepsRunning: a new RUNON is not obeyed before the work is done.
KeepsRunningOn(c) == ~c.is_finished /\ c.pc \in {"accel", "cpu"}

\* The condition of the loop around main().
KeepsRunning(c) ==
  /\ ~c.is_finished
  /\ \/ c.pc = "accel" /\ (c.run_on = c.device \/ ~c.once)
     \/ c.pc = "cpu" /\ c.run_on = CPU

\* main(), which may finish the job's work, then update_run_on.
Work(h) ==
  /\ KeepsRunning(client[h])
  /\ \E done \in BOOLEAN :
       UpdateRunOn(h, [client[h] EXCEPT !.is_finished = done, !.once = TRUE])
  /\ UNCHANGED <<alive, schedVars, main, disp, daemon_fifo>>

\* A variant of CleanupMessage that names the mode the job is to go to.
CleanupOfNewMode(h) ==
  [from |-> h, accel |-> IF client[h].run_on \in Accels THEN client[h].run_on ELSE CPU,
   is_finished |-> client[h].is_finished]

\* free(), then a CLEANUP_DONE or ISFINISHED message to the daemon.
CleanupMessage(h) ==
  [from |-> h, accel |-> IF client[h].pc = "accel" THEN client[h].device ELSE CPU,
   is_finished |-> client[h].is_finished]

Free(h) ==
  /\ client[h].pc \in {"accel", "cpu"} /\ ~KeepsRunning(client[h])
  /\ daemon_fifo' = Append(daemon_fifo, CleanupMessage(h))
  /\ client' = [client EXCEPT ![h] = [@ EXCEPT !.pc = "loop", !.device = NoAccel]]
  /\ UNCHANGED <<alive, schedVars, main, disp, fifo>>

\* The end of libuss_start: both file descriptors are closed.
Close(h) ==
  /\ client[h].pc = "loop" /\ client[h].is_finished
  /\ client' = [client EXCEPT ![h] = NewClient]
  /\ fifo' = [fifo EXCEPT ![h] = <<>>]
  /\ UNCHANGED <<alive, schedVars, main, disp, daemon_fifo>>

--------------------------------------------------------------------------------
Main == \/ \E h \in Handles : \/ \E a \in Accels : AddJob(h, a)
                              \/ UpdateCurr(h) \/ SendFails(h)
                              \/ RemoveJob(h) \/ RemoveFails(h)
        \/ \E a \in Accels : CheckCurr(a)
        \/ PeriodicTick \/ PickIdle \/ UpdateNothing \/ EndTick \/ EndRemove

Dispatcher == HandleCleanup \/ DispatchNext \/ DispatchNothing

\* The steps of h's library thread after its registration.
Client(h) == \/ Start(h) \/ WaitForRunOn(h) \/ InitAccel(h) \/ InitCpu(h)
             \/ Work(h) \/ Free(h) \/ Close(h)

Next == alive /\ (\/ Main
                  \/ Dispatcher
                  \/ \E h \in Handles : Register(h) \/ Client(h))

Spec == Init /\ [][Next]_vars

\* The steps of h's library thread in which its work is not finished.
Continues(h) == Client(h) /\ (client'[h].is_finished => client[h].is_finished)

\* Every thread is scheduled again and again, and main(), init() and free() of
\* a client return; nothing makes a program register or its work finish.
FairSpec == Spec /\ WF_vars(alive /\ Main) /\ WF_vars(alive /\ Dispatcher)
                 /\ \A h \in Handles : WF_vars(alive /\ Continues(h))

--------------------------------------------------------------------------------
(* Properties.                                                               *)

TypeOK ==
  /\ alive \in BOOLEAN /\ clock \in 0..MaxClock
  /\ se_table \subseteq Handles /\ tokill_list \subseteq Handles
  /\ se \in [Handles -> Entity]
  /\ tree \in [Accels -> SUBSET Entry]
  /\ curr \in [Accels -> CurrState]
  /\ main \in MainState
  /\ disp \subseteq Message
  /\ daemon_fifo \in Seq(Message)
  /\ fifo \in [Handles -> Seq(Modes)]
  /\ client \in [Handles -> ClientState]

\* A client is inside of an accelerator only while it is the current job of
\* the accelerator's run queue; so no two clients ever share one.  Both the
\* main thread (after a check of curr without the lock, update_curr) and the
\* dispatcher call pick_next: neither may give the accelerator away twice.
UsersAreCurrent ==
  \A h \in Handles : client[h].pc = "accel" => curr[client[h].device].handle = h

\* The key in the tree and se.vruntime are changed in different places
\* (update_runtime, insert_to_rq): were they ever to differ, erase() would miss
\* and a job would be queued twice.  Every job with an entity is queued once.
TreesMatchEntities ==
  /\ \A a \in Accels : \A e \in tree[a] :
       /\ e.handle \in se_table
       /\ e = EntryOf(e.handle) /\ se[e.handle].enqueued_in = a
  /\ \A h \in se_table : /\ se[h].enqueued_in \in Accels
                         /\ EntryOf(h) \in tree[se[h].enqueued_in]

\* Every message on its way to the dispatcher comes from a job that still has
\* its entity, so get_handle_of_address and handle_cleanup never dexit().
SendersAreKnown ==
  \A i \in DOMAIN daemon_fifo : daemon_fifo[i].from \in se_table

\* h is sent a RUNON message for an accelerator in this step.
Granted(h) == /\ Len(fifo'[h]) > Len(fifo[h])
              /\ fifo'[h][Len(fifo'[h])] \in Accels

\* "a finished handle will never be picked to run again" (handle_cleanup), in
\* the client's terms: a grant goes to a client that reads it, whose work is
\* not done, that is not inside of anything, and that has no older message
\* left unread which it would obey first.
GrantIsClean ==
  [][\A h \in Handles : Granted(h) =>
       /\ fifo[h] = <<>>
       /\ ~client[h].is_finished
       /\ client[h].pc \in {"registering", "accepted", "loop"}]_vars

\* A client never has two preemptions, or two grants, in its FIFO: messages
\* for an accelerator and messages to leave it alternate.
MessagesAlternate ==
  \A h \in Handles :
    /\ Len(fifo[h]) <= 2
    /\ Len(fifo[h]) = 2 => (fifo[h][1] \in Accels <=> fifo[h][2] \notin Accels)

\* The state of a grant of accelerator a, for AcceleratorGrant: it was sent
\* back from the moment free() returned until pick_next is done.
grantStage ==
  [a \in Accels |->
     IF curr[a].handle = NoHandle THEN "free"
     ELSE IF \E h \in Handles : client[h].pc = "accel" /\ client[h].device = a
     THEN "inside"
     ELSE IF \E m \in disp \cup {daemon_fifo[i] : i \in DOMAIN daemon_fifo} : m.accel = a
     THEN "left"
     ELSE "granted"]

Grants == INSTANCE AcceleratorGrant
            WITH holder <- [a \in Accels |-> curr[a].handle], stage <- grantStage

\* The scheduler implements AcceleratorGrant: a job enters an accelerator at
\* most once per RUNON, and the accelerator is never given to another job
\* before the cleanup message of the last one was handled.
ImplementsGrants == Grants!Spec

\* A preempted job leaves: the RUNON message is answered by a cleanup message
\* and the dispatcher picks the next job, unless the daemon has exited.
PreemptionIsAnswered ==
  \A a \in Accels : curr[a].already_send_message
                      ~> (~curr[a].already_send_message \/ ~alive)

\* An accelerator is not left idle for ever while a job waits for it.
IdleAcceleratorIsUsed ==
  \A a \in Accels : (curr[a].handle = NoHandle /\ Pickable(a) # {})
                      ~> (curr[a].handle # NoHandle \/ ~alive)

\* A job whose client is done (its work finished, or its FIFO closed) loses its
\* entity, its tree entry and its handle.
FinishedJobIsRemoved ==
  \A h \in Handles : (h \in se_table /\ (client[h].is_finished \/ client[h].pc = "closed"))
                       ~> (h \notin se_table \/ ~alive)

\* remove_job: "in general it is possible that an handle cannot be removed
\* because it is current now ->this should not happen in this version".
RemovedJobIsNotCurrent ==
  main.pc = "remove" =>
    \A h \in Handles : FirstToKill(h) => curr[se[h].enqueued_in].handle # h

\* uss_daemon.cpp: "make thread immune to SIGPIPE signals => such fails are
\* handled by errno status".  A job that closed its FIFO must not stop the daemon.
TickReachesItsClients ==
  (main.pc = "update" /\ curr[main.accel].handle # NoHandle) =>
    \A l \in Handles : Leftmost(main.accel, l) =>
      \A x \in Notified(main.accel, l) : Reachable(x)
===============================================================================
