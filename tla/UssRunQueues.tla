------------------------------ MODULE UssRunQueues ------------------------------
(***************************************************************************)
(* The run-queue matrix of the user-space scheduler and its load balancing *)
(* (daemon/uss_scheduler.cpp, LONG TERM part), with the queues that the    *)
(* device list asks for (daemon/uss_device_controller.cpp); the lists of   *)
(* affinities that clients send are those of UssAffinities.                *)
(*                                                                         *)
(* One multi-queue (mq) per accelerator type, one run queue (rq) per       *)
(* device of the type.  The main thread adds, moves and removes jobs; the  *)
(* dispatcher makes a job current and cleans up after it, between any two  *)
(* steps of the main thread that are not under one lock.  load_balancing   *)
(* is modelled attempt by attempt: what it has read of a job may be old    *)
(* when move_to_rq takes the locks of the two queues.                      *)
(*                                                                         *)
(* The order inside a tree, messages and preemption are those of           *)
(* UssDispatch and left out here: pick_next may take any job it accepts,   *)
(* and the job that runs may clean up at any time.  A centerpoint is a     *)
(* multiple of 1/Scale; rounding of doubles is not modelled.               *)
(***************************************************************************)
EXTENDS UssAffinities, FiniteSets, FiniteSetsExt, Functions

CONSTANTS
  Handles,      \* handles of jobs, each registered at most once
  Devices,      \* the device list: a sequence of <<type, index>>
  Implemented,  \* what a client may implement: functions from types to affinity
  Scale,        \* the unit of a centerpoint is 1/Scale
  Garbage,      \* what uninitialised memory may hold as a centerpoint
  Balancing     \* the main loop calls load_balancing()

\* create_rq() ends the daemon for a device that is listed twice.
Queues == Range(Devices)
Types == {q[1] : q \in Queues}
Rqs(t) == {q[2] : q \in {p \in Queues : p[1] = t}}
NofRq(t) == Cardinality(Rqs(t))

ASSUME RunQueueAssumption ==
  /\ Handles \subseteq Nat /\ IsFiniteSet(Handles)
  /\ Devices \in Seq(Nat \X (0..9)) /\ Cardinality(Queues) = Len(Devices)
  /\ \A f \in Implemented : /\ DOMAIN f # {} /\ DOMAIN f \subseteq 0..(NofTypes - 1)
                            /\ \A t \in DOMAIN f : f[t] \in Nat \ {0}
  /\ Scale \in Nat \ {0} /\ Garbage \subseteq Int /\ Garbage # {}
  /\ Balancing \in BOOLEAN

VARIABLES
  dexit,         \* why the daemon has ended, "" while it runs
  se,            \* se_table: the entity of every job that was added
  tree,          \* tree[q]: the handles in the tree of a queue
  length,        \* length[q]: the counter the code keeps of them
  curr,          \* curr[q].handle
  nof_all,       \* nof_all_handles of a mq
  best_to_push,  \* best_to_push[t]: pairs of affinity and handle
  best_to_pull,  \* best_to_pull[t]
  centerpoint,   \* centerpoint[t] * Scale
  tokill_list,   \* handles of finished jobs
  arrived,       \* handles that were given out
  main,          \* the main thread
  disp           \* the queue the dispatcher is about to pick for

queueVars == <<tree, length, nof_all>>
listVars == <<best_to_push, best_to_pull>>
vars == <<dexit, se, queueVars, curr, listVars, centerpoint, tokill_list, arrived,
          main, disp>>

--------------------------------------------------------------------------------
NoJob == -1
NoQueue == <<>>
IDLE == -1

Entity == [msai : Seq(Element), mq : Types, rq : 0..9,
           mode : Types \cup {IDLE}, is_finished : BOOLEAN]
AffinityEntry == Nat \X Handles

\* Why the main thread calls dexit(), or waits for itself.
Exits == {"", "add_job", "get_best_rq_of_mq", "move_to_rq: null-ptr as parameter", "deadlock",
          "move_to_rq: insert failed", "lb: no se of handle", "remove_job", "lost"}

MainState == [pc : {"poll", "newtick", "tick", "pull", "retick", "push", "remove"},
              mqs : SUBSET Types, rqs : SUBSET (0..9), at : Queues \cup {NoQueue},
              tries : SUBSET AffinityEntry, min : Nat, left : Nat,
              targets : SUBSET (Nat \X Types)]

\* The places in the list of a job whose type the daemon has, and the affinity
\* for one of the types.
Active(msai) == {i \in DOMAIN msai : msai[i].type \in Types}
AffinityOf(msai, t) == LET i == CHOOSE i \in DOMAIN msai : msai[i].type = t
                       IN msai[i].affinity

\* The sum of the affinities for types that the daemon has, over the first n places.
SumTo(msai) ==
  LET sum[n \in Nat] == IF n = 0 THEN 0
                        ELSE sum[n - 1] + (IF n \in Active(msai) THEN msai[n].affinity ELSE 0)
  IN sum

Sum(msai) == SumTo(msai)[Len(msai)]

\* The part of a job that the centerpoint of type t accounts for.
Share(msai, t) == IF \E i \in Active(msai) : msai[i].type = t
                  THEN (Scale * AffinityOf(msai, t)) \div Sum(msai) ELSE 0

ASSUME SharesAreExact ==
  \A f \in Implemented : LET msai == Filled(f)
                         IN \A i \in Active(msai) : (Scale * msai[i].affinity) % Sum(msai) = 0

\* The push curve: how good an alternative must be for a mq that is x jobs
\* above its centerpoint.
PushCurve == [x \in 0..19 |-> IF x <= 10 THEN 11 - x ELSE 1]
MinPushAffinity(x) == PushCurve[IF x \in DOMAIN PushCurve THEN x ELSE 19]

Ceiling(c) == -((-c) \div Scale)

\* The order of the affinity lists.
Before(d, e) == d[1] < e[1] \/ (d[1] = e[1] /\ d[2] < e[2])
Lowest(S) == CHOOSE e \in S : \A d \in S \ {e} : Before(e, d)
Highest(S) == CHOOSE e \in S : \A d \in S \ {e} : Before(d, e)

QueueOf(h) == <<se[h].mq, se[h].rq>>
Insert(f, x, e) == [y \in DOMAIN f \cup {x} |-> IF y = x THEN e ELSE f[y]]
Erase(f, x) == [y \in DOMAIN f \ {x} |-> f[y]]

\* A variant of WithRoom that forgets to divide by the number of queues.
WithRoomForAll(t) == {i \in Rqs(t) : Cardinality(tree[<<t, i>>]) <= nof_all[t]}

\* The rqs of a mq that have room for one more job of an equal distribution;
\* the first of them is taken.
WithRoom(t) == {i \in Rqs(t) : Cardinality(tree[<<t, i>>]) <= nof_all[t] \div NofRq(t)}
BestRq(t) == Min(WithRoom(t))

Quiet(pc) == [pc |-> pc, mqs |-> {}, rqs |-> {}, at |-> NoQueue, tries |-> {},
              min |-> 0, left |-> 0, targets |-> {}]

Init ==
  /\ dexit = ""
  /\ se = <<>>
  /\ tree = [q \in Queues |-> {}] /\ length = [q \in Queues |-> 0]
  /\ nof_all = [t \in Types |-> 0]
  /\ curr = [q \in Queues |-> NoJob]
  /\ best_to_push = [t \in Types |-> {}] /\ best_to_pull = [t \in Types |-> {}]
  /\ centerpoint \in [Types -> Garbage]
  /\ tokill_list = {} /\ arrived = {}
  /\ main = Quiet("poll") /\ disp = NoQueue

Dexit(why) ==
  /\ dexit' = why
  /\ UNCHANGED <<se, queueVars, curr, listVars, centerpoint, tokill_list, arrived, main, disp>>

--------------------------------------------------------------------------------
(* The main thread: new jobs.                                                *)

\* The mq for a new job: the first type of its list that the daemon has.
FirstType(msai) == msai[Min(Active(msai))].type

AddJob(h, f) ==
  LET msai == Sorted(Filled(f))
      t == FirstType(msai)
      i == BestRq(t)
      entries(u) == {<<msai[j].affinity, h>> : j \in {k \in DOMAIN msai : msai[k].type = u}}
  IN
  /\ main.pc = "poll" /\ h \notin arrived
  /\ Active(msai) # {} /\ WithRoom(t) # {}
  /\ arrived' = arrived \cup {h}
  /\ se' = Insert(se, h, [msai |-> msai, mq |-> t, rq |-> i, mode |-> IDLE,
                          is_finished |-> FALSE])
  /\ tree' = [tree EXCEPT ![<<t, i>>] = @ \cup {h}]
  /\ length' = [length EXCEPT ![<<t, i>>] = @ + 1]
  /\ nof_all' = [nof_all EXCEPT ![t] = @ + 1]
  /\ best_to_push' = [best_to_push EXCEPT ![t] = @ \cup {<<AffinityOf(msai, t), h>>}]
  /\ best_to_pull' = [u \in Types |-> best_to_pull[u] \cup IF u = t THEN {} ELSE entries(u)]
  /\ centerpoint' = [u \in Types |-> centerpoint[u] + Share(msai, u)]
  /\ main' = Quiet("newtick")
  /\ UNCHANGED <<dexit, curr, tokill_list, disp>>

\* dexit() instead of a new job: no accelerator for it, or no rq with room.
AddJobFails(h, f) ==
  LET msai == Sorted(Filled(f))
  IN
  /\ main.pc = "poll" /\ h \notin arrived
  /\ \/ Active(msai) = {} /\ Dexit("add_job")
     \/ /\ Active(msai) # {} /\ WithRoom(FirstType(msai)) = {}
        /\ Dexit("get_best_rq_of_mq")

NoNewReg == main.pc = "poll" /\ main' = Quiet("tick")
            /\ UNCHANGED <<dexit, se, queueVars, curr, listVars, centerpoint, tokill_list,
                           arrived, disp>>
--------------------------------------------------------------------------------
(* periodic_tick: an idle queue picks a job, if it has one to pick.          *)

Pickable(q) == {h \in tree[q] : ~se[h].is_finished /\ se[h].mode = IDLE}

PickNext(q, h) ==
  /\ curr' = [curr EXCEPT ![q] = h]
  /\ se' = [se EXCEPT ![h].mode = q[1]]

TickPick ==
  /\ main.pc \in {"newtick", "tick", "retick"}
  /\ \E q \in Queues : \E h \in Pickable(q) : curr[q] = NoJob /\ PickNext(q, h)
  /\ UNCHANGED <<dexit, queueVars, listVars, centerpoint, tokill_list, arrived, main, disp>>

\* periodic_tick is called by add_job, by the main loop and between pull and push.
AfterTick == CASE main.pc = "newtick" -> Quiet("poll")
               [] main.pc = "retick" -> [Quiet("push") EXCEPT !.mqs = Types]
               [] main.pc = "tick" /\ Balancing -> [Quiet("pull") EXCEPT !.mqs = Types]
               [] main.pc = "tick" /\ ~Balancing -> Quiet("remove")

EndTick ==
  /\ main.pc \in {"newtick", "tick", "retick"}
  /\ \A q \in Queues : curr[q] = NoJob => Pickable(q) = {}
  /\ main' = AfterTick
  /\ UNCHANGED <<dexit, se, queueVars, curr, listVars, centerpoint, tokill_list, arrived, disp>>

--------------------------------------------------------------------------------
(* move_to_rq                                                                *)

\* A variant of Movable that may move the current job.
MovableIfCurrent(h) == ~se[h].is_finished /\ length[QueueOf(h)] > 1

\* What it checks of the job under the locks of both queues.
Movable(h) == /\ ~se[h].is_finished
              /\ length[QueueOf(h)] > 1 /\ curr[QueueOf(h)] # h

UpdatedPush(h, s, t) ==
  IF s = t THEN best_to_push
  ELSE [best_to_push EXCEPT ![s] = @ \ {<<AffinityOf(se[h].msai, s), h>>},
                            ![t] = @ \cup {<<AffinityOf(se[h].msai, t), h>>}]
\* A variant of UpdatedPull that leaves the entry of the target.
PullEntryLeft(h, s, t) ==
  IF s = t THEN best_to_pull
  ELSE [best_to_pull EXCEPT ![s] = @ \cup {<<AffinityOf(se[h].msai, s), h>>}]

UpdatedPull(h, s, t) ==
  IF s = t THEN best_to_pull
  ELSE [best_to_pull EXCEPT ![s] = @ \cup {<<AffinityOf(se[h].msai, s), h>>},
                            ![t] = @ \ {<<AffinityOf(se[h].msai, t), h>>}]

\* Variants of MovedNofAll without the decrement, and without the increment.
NofAllKept(p, q) == [nof_all EXCEPT ![q[1]] = @ + 1]
NofAllLost(p, q) == [nof_all EXCEPT ![p[1]] = @ - 1]

\* The counters of the mqs after a move from p to q.
MovedNofAll(p, q) == [t \in Types |-> nof_all[t] - (IF t = p[1] THEN 1 ELSE 0)
                                                 + (IF t = q[1] THEN 1 ELSE 0)]

MoveToRq(h, q) ==
  LET p == QueueOf(h)
  IN
  /\ tree' = [tree EXCEPT ![p] = @ \ {h}, ![q] = @ \cup {h}]
  /\ length' = [length EXCEPT ![p] = @ - 1, ![q] = @ + 1]
  /\ nof_all' = MovedNofAll(p, q)
  /\ se' = [se EXCEPT ![h].mq = q[1], ![h].rq = q[2]]
  /\ best_to_push' = UpdatedPush(h, p[1], q[1])
  /\ best_to_pull' = UpdatedPull(h, p[1], q[1])

\* It locks the target, then the source: twice the same mutex is a deadlock,
\* a job without entity or one that the target has already is a dexit().
MoveFails(h, q) ==
  \/ h \notin DOMAIN se /\ Dexit("move_to_rq: null-ptr as parameter")
  \/ h \in DOMAIN se /\ QueueOf(h) = q /\ Dexit("deadlock")
  \/ h \in DOMAIN se /\ QueueOf(h) # q /\ Movable(h) /\ h \in tree[q]
     /\ Dexit("move_to_rq: insert failed")

MayMove(h, q) == h \in DOMAIN se /\ QueueOf(h) # q /\ h \notin tree[q]

--------------------------------------------------------------------------------
(* load_balancing, pull: empty queues take the best jobs of other mqs.       *)

\* A mq is looked into when it has fewer jobs than queues.
HasEmptyRq(t) == nof_all[t] < NofRq(t)

PullMq ==
  /\ main.pc = "pull" /\ main.mqs # {} /\ main.rqs = {} /\ main.tries = {}
  /\ LET t == Min(main.mqs)
     IN main' = [main EXCEPT !.mqs = @ \ {t}, !.at = <<t, Min(Rqs(t))>>,
                             !.rqs = IF HasEmptyRq(t) THEN Rqs(t) ELSE {}]
  /\ UNCHANGED <<dexit, se, queueVars, curr, listVars, centerpoint, tokill_list, arrived, disp>>

PullRq ==
  /\ main.pc = "pull" /\ main.rqs # {} /\ main.tries = {}
  /\ LET q == <<main.at[1], Min(main.rqs)>>
     IN main' = [main EXCEPT !.rqs = @ \ {q[2]}, !.at = q,
                             !.tries = IF length[q] = 0 THEN best_to_pull[q[1]] ELSE {}]
  /\ UNCHANGED <<dexit, se, queueVars, curr, listVars, centerpoint, tokill_list, arrived, disp>>

PullTry ==
  LET e == Highest(main.tries)
      h == e[2]
  IN
  /\ main.pc = "pull" /\ main.tries # {}
  /\ \/ /\ MayMove(h, main.at) /\ Movable(h) /\ MoveToRq(h, main.at)
        /\ main' = [main EXCEPT !.tries = {}]
        /\ UNCHANGED <<dexit, curr, centerpoint, tokill_list, arrived, disp>>
     \/ /\ MayMove(h, main.at) /\ ~Movable(h)
        /\ main' = [main EXCEPT !.tries = @ \ {e}]
        /\ UNCHANGED <<dexit, se, queueVars, curr, listVars, centerpoint, tokill_list,
                       arrived, disp>>
     \/ MoveFails(h, main.at)

EndPull ==
  /\ main.pc = "pull" /\ main.mqs = {} /\ main.rqs = {} /\ main.tries = {}
  /\ main' = Quiet("retick")
  /\ UNCHANGED <<dexit, se, queueVars, curr, listVars, centerpoint, tokill_list, arrived, disp>>

--------------------------------------------------------------------------------
(* load_balancing, push: a mq with more jobs than its centerpoint and than   *)
(* queues gives one of its worst jobs to another mq.                         *)

Excess(t) == nof_all[t] - Ceiling(centerpoint[t])

MustPush(t) == Excess(t) > 0 /\ nof_all[t] > NofRq(t)

PushMq ==
  /\ main.pc = "push" /\ main.mqs # {} /\ main.tries = {}
  /\ LET t == Min(main.mqs)
         x == Excess(t)
         next == [main EXCEPT !.mqs = @ \ {t}, !.at = <<t, Min(Rqs(t))>>]
     IN main' = IF MustPush(t)
                THEN [next EXCEPT !.tries = best_to_push[t], !.min = MinPushAffinity(x), !.left = x]
                ELSE next
  /\ UNCHANGED <<dexit, se, queueVars, curr, listVars, centerpoint, tokill_list, arrived, disp>>

\* The types a job may be pushed to, with their places in its list.
PushTargets(h) == LET msai == se[h].msai
                  IN {<<i, msai[i].type>> :
                        i \in {j \in Active(msai) : /\ msai[j].type # main.at[1]
                                                   /\ msai[j].affinity >= main.min}}
FirstTarget == CHOOSE p \in main.targets : \A r \in main.targets : p[1] <= r[1]

\* A variant of NextTry that does not count its tries.
NextTryUncounted(e) == [main EXCEPT !.tries = @ \ {e}, !.left = @ - 1, !.targets = {}]

\* On to the next job of the list, unless x jobs were tried.
NextTry(e) == [main EXCEPT !.tries = IF main.left = 1 THEN {} ELSE @ \ {e}, !.left = @ - 1,
                           !.targets = {}]

PushCheck ==
  LET e == Lowest(main.tries)
      h == e[2]
  IN
  /\ main.pc = "push" /\ main.tries # {} /\ main.targets = {}
  /\ \/ /\ h \in DOMAIN se
        /\ main' = IF se[h].mode = IDLE /\ ~se[h].is_finished /\ PushTargets(h) # {}
                   THEN [main EXCEPT !.targets = PushTargets(h)]
                   ELSE NextTry(e)
        /\ UNCHANGED <<dexit, se, queueVars, curr, listVars, centerpoint, tokill_list,
                       arrived, disp>>
     \/ h \notin DOMAIN se /\ Dexit("lb: no se of handle")

PushTry ==
  LET e == Lowest(main.tries)
      h == e[2]
      t == FirstTarget[2]
      q == <<t, BestRq(t)>>
  IN
  /\ main.pc = "push" /\ main.targets # {}
  /\ \/ /\ WithRoom(t) # {} /\ MayMove(h, q) /\ Movable(h) /\ MoveToRq(h, q)
        /\ main' = [main EXCEPT !.tries = {}, !.targets = {}]
        /\ UNCHANGED <<dexit, curr, centerpoint, tokill_list, arrived, disp>>
     \/ /\ WithRoom(t) # {} /\ MayMove(h, q) /\ ~Movable(h)
        /\ main' = IF main.targets = {FirstTarget} THEN NextTry(e)
                   ELSE [main EXCEPT !.targets = @ \ {FirstTarget}]
        /\ UNCHANGED <<dexit, se, queueVars, curr, listVars, centerpoint, tokill_list,
                       arrived, disp>>
     \/ WithRoom(t) # {} /\ MoveFails(h, q)
     \/ WithRoom(t) = {} /\ Dexit("get_best_rq_of_mq")

EndPush ==
  /\ main.pc = "push" /\ main.mqs = {} /\ main.tries = {}
  /\ main' = Quiet("remove")
  /\ UNCHANGED <<dexit, se, queueVars, curr, listVars, centerpoint, tokill_list, arrived, disp>>

--------------------------------------------------------------------------------
(* remove_finished_jobs                                                      *)

RemoveJob ==
  LET h == Min(tokill_list)
      q == QueueOf(h)
      msai == se[h].msai
  IN
  /\ main.pc = "remove" /\ tokill_list # {}
  /\ curr[q] # h /\ h \in tree[q]
  /\ tree' = [tree EXCEPT ![q] = @ \ {h}]
  /\ length' = [length EXCEPT ![q] = @ - 1]
  /\ nof_all' = [nof_all EXCEPT ![q[1]] = @ - 1]
  /\ best_to_push' = [best_to_push EXCEPT ![q[1]] = @ \ {<<AffinityOf(msai, q[1]), h>>}]
  /\ best_to_pull' = [t \in Types |-> best_to_pull[t]
                       \ {<<msai[i].affinity, h>> : i \in {j \in DOMAIN msai : msai[j].type = t}}]
  /\ centerpoint' = [t \in Types |-> centerpoint[t] - Share(msai, t)]
  /\ se' = Erase(se, h)
  /\ tokill_list' = tokill_list \ {h}
  /\ UNCHANGED <<dexit, curr, arrived, main, disp>>

\* A job that is still current, or is not found in its queue, is not removed.
RemoveJobFails ==
  /\ main.pc = "remove" /\ tokill_list # {}
  /\ LET h == Min(tokill_list)
     IN \/ curr[QueueOf(h)] = h /\ Dexit("remove_job")
        \/ curr[QueueOf(h)] # h /\ h \notin tree[QueueOf(h)] /\ Dexit("lost")

EndRemove ==
  /\ main.pc = "remove" /\ tokill_list = {}
  /\ main' = Quiet("poll")
  /\ UNCHANGED <<dexit, se, queueVars, curr, listVars, centerpoint, tokill_list, arrived, disp>>

--------------------------------------------------------------------------------
(* The dispatcher: the job that runs on a queue cleans up, because it was    *)
(* preempted or has finished, and the queue picks another one.               *)

HandleCleanup(q, finished) ==
  /\ disp = NoQueue /\ curr[q] # NoJob
  /\ se' = [se EXCEPT ![curr[q]].mode = IDLE, ![curr[q]].is_finished = finished]
  /\ tokill_list' = IF finished THEN tokill_list \cup {curr[q]} ELSE tokill_list
  /\ disp' = q
  /\ UNCHANGED <<dexit, queueVars, curr, listVars, centerpoint, arrived, main>>

DispatchNext ==
  /\ disp # NoQueue
  /\ \/ \E h \in Pickable(disp) : PickNext(disp, h)
     \/ Pickable(disp) = {} /\ curr' = [curr EXCEPT ![disp] = NoJob] /\ se' = se
  /\ disp' = NoQueue
  /\ UNCHANGED <<dexit, queueVars, listVars, centerpoint, tokill_list, arrived, main>>

--------------------------------------------------------------------------------
Registration == \E h \in Handles, f \in Implemented : AddJob(h, f) \/ AddJobFails(h, f)

Dispatcher == (\E q \in Queues, finished \in BOOLEAN : HandleCleanup(q, finished))
              \/ DispatchNext

Next == /\ dexit = ""
        /\ \/ Registration \/ NoNewReg \/ TickPick \/ EndTick
           \/ PullMq \/ PullRq \/ PullTry \/ EndPull
           \/ PushMq \/ PushCheck \/ PushTry \/ EndPush
           \/ RemoveJob \/ RemoveJobFails \/ EndRemove
           \/ Dispatcher

Spec == Init /\ [][Next]_vars

--------------------------------------------------------------------------------
TypeOK ==
  /\ dexit \in Exits
  /\ DOMAIN se \subseteq arrived /\ \A h \in DOMAIN se : se[h] \in Entity
  /\ tree \in [Queues -> SUBSET Handles] /\ length \in [Queues -> Int]
  /\ nof_all \in [Types -> Int]
  /\ curr \in [Queues -> Handles \cup {NoJob}]
  /\ \A t \in Types : best_to_push[t] \subseteq AffinityEntry
                      /\ best_to_pull[t] \subseteq AffinityEntry
  /\ centerpoint \in [Types -> Int]
  /\ tokill_list \subseteq Handles /\ arrived \subseteq Handles
  /\ main \in MainState /\ disp \in Queues \cup {NoQueue}

\* A job is in the tree of one queue, the one its entity names, and the
\* counters of queues and mqs (changed by insert_to_rq, remove_from_rq and
\* move_to_rq, each on its own) count what is in the trees.
CountersMatchTrees ==
  /\ \A q \in Queues : /\ tree[q] = {h \in DOMAIN se : QueueOf(h) = q}
                       /\ length[q] = Cardinality(tree[q])
  /\ \A t \in Types : nof_all[t] = Cardinality({h \in DOMAIN se : se[h].mq = t})

\* The lists that load_balancing works from are kept by four functions:
\* best_to_push of a mq has exactly its jobs, best_to_pull exactly the jobs of
\* other mqs that implement its type, each with its affinity for the type.
ListsMatchPlaces ==
  \A t \in Types :
    LET able == {h \in DOMAIN se : \E i \in DOMAIN se[h].msai : se[h].msai[i].type = t}
        entries(S) == {<<AffinityOf(se[h].msai, t), h>> : h \in S}
    IN /\ best_to_push[t] = entries({h \in able : se[h].mq = t})
       /\ best_to_pull[t] = entries({h \in able : se[h].mq # t})

\* The daemon ends for two reasons only: a job without accelerator
\* (add_job, 963) and one that is removed while it is current (1056).  In
\* particular get_best_rq_of_mq always finds a queue, load balancing never
\* meets a job without entity, and move_to_rq never locks one queue twice.
OnlyKnownExits == dexit \in {"", "add_job", "remove_job"}

\* A job that has an accelerator is current on a queue of that type and stays
\* there until it has cleaned up, whatever load balancing read before.
RunningJobStaysPut ==
  [][\A h \in DOMAIN se \cap DOMAIN se' :
       se[h].mode # IDLE => /\ curr[QueueOf(h)] = h /\ se[h].mode = se[h].mq
                            /\ se'[h].mq = se[h].mq /\ se'[h].rq = se[h].rq]_vars

\* A job starts on a type with the highest affinity among those it implements
\* and the daemon has: add_job takes the first type, the library sorts.
JobStartsAtBestType ==
  [][\A h \in DOMAIN se' \ DOMAIN se :
       \A i \in Active(se'[h].msai) :
         se'[h].msai[i].affinity <= AffinityOf(se'[h].msai, se'[h].mq)]_vars

\* The queues of a mq differ by at most one job.
IsBalanced(t) == \A i, j \in Rqs(t) : length[<<t, i>>] <= length[<<t, j>>] + 1

\* "each mq is balanced inside with every insertion or removal operation"
\* (comment at uss_scheduler.cpp:1501).  What the code does: a job that enters a
\* mq, because it is new, pulled or pushed, leaves the queues of this mq within
\* one job of each other if they were so.  (A removal need not: remove_from_mq
\* has only a comment at 685.)
InsertionsKeepBalance ==
  [][\A t \in Types : nof_all'[t] > nof_all[t] /\ IsBalanced(t) => IsBalanced(t)']_vars

================================================================================
