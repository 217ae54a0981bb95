--------------------------- MODULE UssDispatchProofs ---------------------------
(***************************************************************************)
(* Types and queues of UssDispatch, for every set of handles and           *)
(* accelerators, for both builds (with and without USS_BLUEMODE) and for   *)
(* every bound on the clock.                                               *)
(*                                                                         *)
(* QueueInv ties the four places that say where a job is queued: se_table, *)
(* se, tree and curr.  UssDispatchSafety builds on it: it follows one job  *)
(* through the protocol between the daemon and its client.                 *)
(***************************************************************************)
EXTENDS UssDispatch, TLAPS

--------------------------------------------------------------------------------
(* The invariant.                                                            *)

\* The clock does not run behind the start of a job's time slice (the code
\* subtracts the two as unsigned numbers).
DaemonTypeInv ==
  /\ TypeOK
  /\ \A a \in Accels : curr[a].exec_start <= clock
  /\ main.pc \in {"pick", "update"} => main.accel \in Accels

DeviceIsKnown == \A h \in Handles : client[h].pc = "accel" => client[h].device \in Accels

TypeInv == DaemonTypeInv /\ DeviceIsKnown

\* Between add_job and finish_registration only the job main.job is in
\* se_table and still registering.
QueueInv ==
  /\ TreesMatchEntities
  /\ \A a \in Accels : curr[a].handle # NoHandle =>
       /\ curr[a].handle \in se_table
       /\ se[curr[a].handle].enqueued_in = a
  /\ \A h \in se_table : client[h].pc = "registering" => h = main.job
  /\ main.pc \in {"select", "remove"} => main.job = NoHandle

--------------------------------------------------------------------------------
(* Types.                                                                    *)

LEMMA LeadType ==
  ASSUME TypeInv, NEW a \in Accels, NEW e \in tree[a]
  PROVE  Lead(a, e) \in Nat
<1> DEFINE behind == {f \in tree[a] : f # e /\ Before(e, f)}
           leads == {d \in {se[f.handle].rruntime - se[e.handle].rruntime :
                              f \in {g \in behind : First(behind, g)}} : d > 0}
<1>1. \A f \in tree[a] : se[f.handle].rruntime \in Nat
  BY DEF TypeInv, DaemonTypeInv, TypeOK, Entry, Entity
<1>2. leads \subseteq Nat
  <2> SUFFICES ASSUME NEW d \in leads PROVE d \in Nat
    OBVIOUS
  <2>1. PICK f \in tree[a] : d = se[f.handle].rruntime - se[e.handle].rruntime
    OBVIOUS
  <2> QED BY <1>1, <2>1
<1>3. CASE leads = {}
  BY <1>3 DEF Lead
<1>4. CASE leads # {}
  <2>1. (CHOOSE d \in leads : TRUE) \in leads
    BY <1>4
  <2> QED BY <2>1, <1>2, <1>4 DEF Lead
<1> QED BY <1>3, <1>4

LEMMA PickNextType ==
  ASSUME TypeInv, NEW a \in Accels, PickNext(a)
  PROVE  /\ curr' \in [Accels -> CurrState]
         /\ se' \in [Handles -> Entity]
         /\ fifo' \in [Handles -> Seq(Modes)]
         /\ \A b \in Accels : curr[b]'.exec_start <= clock
         /\ UNCHANGED <<alive, clock, se_table, tree, tokill_list, client>>
<1>1. CASE Pickable(a) = {} /\ curr' = [curr EXCEPT ![a] = EmptyCurr] /\ UNCHANGED <<se, fifo>>
  <2>1. EmptyCurr \in CurrState /\ EmptyCurr.exec_start = clock /\ clock <= clock
    BY DispatchAssumption DEF TypeInv, DaemonTypeInv, TypeOK, EmptyCurr, CurrState
  <2>2. curr' \in [Accels -> CurrState]
    BY <1>1, <2>1 DEF TypeInv, DaemonTypeInv, TypeOK
  <2>3. \A b \in Accels : curr[b]'.exec_start <= clock
    BY <1>1, <2>1 DEF TypeInv, DaemonTypeInv, TypeOK
  <2> QED BY <1>1, <2>2, <2>3 DEF TypeInv, DaemonTypeInv, TypeOK, PickNext
<1>2. ASSUME NEW e \in Pickable(a),
             curr' = [curr EXCEPT ![a] = [handle |-> e.handle,
                                          already_send_message |-> FALSE,
                                          exec_start |-> clock]],
             se' = [se EXCEPT ![e.handle] =
                        [@ EXCEPT !.execution_mode = a,
                                  !.min_granularity = MinGranularity(a, e)]],
             fifo' = [fifo EXCEPT ![e.handle] = Append(@, a)]
      PROVE /\ curr' \in [Accels -> CurrState]
            /\ se' \in [Handles -> Entity]
            /\ fifo' \in [Handles -> Seq(Modes)]
            /\ \A b \in Accels : curr[b]'.exec_start <= clock
  <2>1. e \in tree[a] /\ e.handle \in Handles
    BY DEF Pickable, TypeInv, DaemonTypeInv, TypeOK, Entry
  <2>2. MinGranularity(a, e) \in Nat
    <3>1. Lead(a, e) \in Nat
      BY <2>1, LeadType
    <3>2. Granularity \in Nat /\ se[e.handle].rruntime \in Nat
      BY <2>1, DispatchAssumption DEF TypeInv, DaemonTypeInv, TypeOK, Entity
    <3> QED BY <3>1, <3>2 DEF MinGranularity
  <2>3. curr' \in [Accels -> CurrState] /\ \A b \in Accels : curr[b]'.exec_start <= clock
    BY <1>2, <2>1 DEF TypeInv, DaemonTypeInv, TypeOK, CurrState
  <2>4. se' \in [Handles -> Entity]
    <3>1. ASSUME NEW f \in Entity, NEW g \in Nat
          PROVE  [f EXCEPT !.execution_mode = a, !.min_granularity = g] \in Entity
      BY DEF Entity, Modes
    <3>2. se \in [Handles -> Entity] /\ se[e.handle] \in Entity
      BY <2>1 DEF TypeInv, DaemonTypeInv, TypeOK
    <3> DEFINE picked == [se[e.handle] EXCEPT !.execution_mode = a,
                                              !.min_granularity = MinGranularity(a, e)]
    <3>3. picked \in Entity
      BY <2>2, <3>1, <3>2
    <3>4. se' = [se EXCEPT ![e.handle] = picked]
      BY <1>2
    <3> HIDE DEF picked
    <3> QED BY <3>2, <3>3, <3>4
  <2>5. fifo' \in [Handles -> Seq(Modes)]
    BY <1>2, <2>1 DEF TypeInv, DaemonTypeInv, TypeOK, Modes
  <2> QED BY <2>3, <2>4, <2>5
<1> QED BY <1>1, <1>2 DEF PickNext

LEMMA StartTickType ==
  ASSUME TypeInv, NEW job \in Handles \cup {NoHandle}, StartTick(job)
  PROVE  /\ main' \in MainState /\ clock' \in 0..MaxClock /\ clock <= clock'
         /\ main'.pc = "tick"
BY DEF TypeInv, DaemonTypeInv, TypeOK, StartTick, MainState

LEMMA UpdateRunOnType ==
  ASSUME TypeInv, NEW h \in Handles, NEW c \in ClientState, UpdateRunOn(h, c)
  PROVE  /\ client' \in [Handles -> ClientState]
         /\ fifo' \in [Handles -> Seq(Modes)]
         /\ client'[h].pc = c.pc /\ client'[h].device = c.device
         /\ \A x \in Handles \ {h} : client'[x] = client[x]
<1>1. CASE fifo[h] = <<>>
  BY <1>1 DEF TypeInv, DaemonTypeInv, TypeOK, UpdateRunOn
<1>2. CASE fifo[h] # <<>>
  <2>1. Head(fifo[h]) \in Modes /\ Tail(fifo[h]) \in Seq(Modes)
    BY <1>2 DEF TypeInv, DaemonTypeInv, TypeOK
  <2>2. /\ [c EXCEPT !.run_on = Head(fifo[h])] \in ClientState
        /\ [c EXCEPT !.run_on = Head(fifo[h])].pc = c.pc
        /\ [c EXCEPT !.run_on = Head(fifo[h])].device = c.device
    BY <2>1 DEF ClientState
  <2> QED BY <1>2, <2>1, <2>2 DEF TypeInv, DaemonTypeInv, TypeOK, UpdateRunOn
<1> QED BY <1>1, <1>2

\* What update_runtime adds is not negative, so vruntime and rruntime grow.
LEMMA DeltaType ==
  ASSUME TypeInv, NEW a \in Accels
  PROVE  Delta(a) \in Nat
BY DispatchAssumption DEF TypeInv, DaemonTypeInv, TypeOK, CurrState, Delta

LEMMA UpdatedEntitiesType ==
  ASSUME TypeInv, NEW a \in Accels, curr[a].handle # NoHandle, NEW l \in Handles
  PROVE  UpdatedEntities(a, l) \in [Handles -> Entity]
<1> DEFINE h == curr[a].handle
           current == [se[h] EXCEPT !.vruntime = @ + Delta(a), !.rruntime = @ + Delta(a)]
<1>1. IdleMode \in Modes /\ IDLE \in Modes
  BY DEF IdleMode, Modes
<1>2. current \in Entity
  <2>1. h \in Handles /\ Delta(a) \in Nat
    BY DeltaType DEF TypeInv, DaemonTypeInv, TypeOK, CurrState
  <2>2. se[h].vruntime + Delta(a) \in Nat /\ se[h].rruntime + Delta(a) \in Nat
    <3>1. se[h] \in Entity
      BY <2>1 DEF TypeInv, DaemonTypeInv, TypeOK
    <3>2. se[h].vruntime \in Nat /\ se[h].rruntime \in Nat
      BY <3>1 DEF Entity
    <3> QED BY <2>1, <3>2
  <2>3. ASSUME NEW e \in Entity, NEW v \in Nat, NEW r \in Nat
        PROVE  [e EXCEPT !.vruntime = v, !.rruntime = r] \in Entity
    BY DEF Entity
  <2>4. se[h] \in Entity
    BY <2>1 DEF TypeInv, DaemonTypeInv, TypeOK
  <2> QED BY <2>2, <2>3, <2>4
<1>3. [current EXCEPT !.next_execution_mode = IdleMode] \in Entity
  <2> HIDE DEF current
  <2> QED BY <1>1, <1>2 DEF Entity
<1>4. [se[l] EXCEPT !.next_execution_mode = IDLE, !.already_send_free_cpu = TRUE] \in Entity
  <2>1. ASSUME NEW e \in Entity, NEW m \in Modes
        PROVE  [e EXCEPT !.next_execution_mode = m, !.already_send_free_cpu = TRUE] \in Entity
    BY DEF Entity
  <2>2. se[l] \in Entity
    BY DEF TypeInv, DaemonTypeInv, TypeOK
  <2> QED BY <1>1, <2>1, <2>2
<1>5. \A x \in Handles : se[x] \in Entity
  BY DEF TypeInv, DaemonTypeInv, TypeOK
<1> QED BY <1>2, <1>3, <1>4, <1>5 DEF UpdatedEntities

LEMMA UpdatedFifosType ==
  ASSUME TypeInv, NEW a \in Accels, NEW l \in Handles
  PROVE  UpdatedFifos(a, l) \in [Handles -> Seq(Modes)]
BY DEF UpdatedFifos, TypeInv, DaemonTypeInv, TypeOK, IdleMode, Modes

LEMMA UpdateCurrType ==
  ASSUME TypeInv, NEW l \in Handles, UpdateCurr(l)
  PROVE  DaemonTypeInv'
<1> DEFINE a == main.accel
           h == curr[a].handle
<1>1. a \in Accels /\ h \in Handles /\ h # NoHandle
  BY DEF UpdateCurr, TypeInv, DaemonTypeInv, TypeOK, CurrState
<1>2. Delta(a) \in Nat
  BY <1>1, DeltaType
<1>3. tree' \in [Accels -> SUBSET Entry]
  <2>1. se[h].vruntime + Delta(a) \in Nat
    <3>1. se[h] \in Entity
      BY <1>1 DEF TypeInv, DaemonTypeInv, TypeOK
    <3>2. se[h].vruntime \in Nat
      BY <3>1 DEF Entity
    <3> QED BY <1>2, <3>2
  <2>2. UpdatedTree(a) \subseteq Entry
    BY <1>1, <2>1 DEF UpdatedTree, Entry, TypeInv, DaemonTypeInv, TypeOK
  <2> QED BY <1>1, <2>2 DEF UpdateCurr, TypeInv, DaemonTypeInv, TypeOK
<1>4. se' \in [Handles -> Entity] /\ fifo' \in [Handles -> Seq(Modes)]
  BY <1>1, UpdatedEntitiesType, UpdatedFifosType DEF UpdateCurr
<1>5. curr' \in [Accels -> CurrState] /\ \A b \in Accels : curr'[b].exec_start <= clock
  <2>1. UpdatedCurr(a, l) \in CurrState /\ UpdatedCurr(a, l).exec_start = clock
    BY <1>1, DispatchAssumption DEF UpdatedCurr, Preempts, CurrState, TypeInv, DaemonTypeInv, TypeOK
  <2>2. curr' = [curr EXCEPT ![a] = UpdatedCurr(a, l)]
    BY DEF UpdateCurr
  <2> QED BY <1>1, <2>1, <2>2, DispatchAssumption DEF TypeInv, DaemonTypeInv, TypeOK
<1>6. main' \in MainState /\ main'.pc = "tick"
  BY DEF UpdateCurr, TypeInv, DaemonTypeInv, TypeOK, MainState
<1> QED BY <1>3, <1>4, <1>5, <1>6 DEF UpdateCurr, TypeInv, DaemonTypeInv, TypeOK

LEMMA DaemonTypeStep ==
  ASSUME TypeInv, [Next]_vars
  PROVE  DaemonTypeInv'
<1> USE DEF TypeInv, DaemonTypeInv, TypeOK
<1>1. CASE UNCHANGED vars
  BY <1>1 DEF vars, schedVars
<1>2. ASSUME NEW h \in Handles, NEW a \in Accels, AddJob(h, a) PROVE DaemonTypeInv'
  <2>1. NewEntity(a) \in Entity /\ [vruntime |-> NewVruntime, handle |-> h] \in Entry
    BY DispatchAssumption DEF NewEntity, Entity, Entry, Modes
  <2>2. se' \in [Handles -> Entity] /\ tree' \in [Accels -> SUBSET Entry]
    BY <1>2, <2>1 DEF AddJob
  <2>3. main' \in MainState /\ clock' \in 0..MaxClock /\ clock <= clock' /\ main'.pc = "tick"
    BY <1>2, StartTickType DEF AddJob
  <2>4. \A b \in Accels : curr'[b].exec_start <= clock'
    BY <1>2, <2>3, DispatchAssumption DEF AddJob, CurrState
  <2> QED BY <1>2, <2>2, <2>3, <2>4 DEF AddJob
<1>3. CASE PeriodicTick
  <2>1. main' \in MainState /\ clock' \in 0..MaxClock /\ clock <= clock' /\ main'.pc = "tick"
    BY <1>3, StartTickType DEF PeriodicTick
  <2>2. \A b \in Accels : curr'[b].exec_start <= clock'
    BY <1>3, <2>1, DispatchAssumption DEF PeriodicTick, CurrState
  <2> QED BY <1>3, <2>1, <2>2 DEF PeriodicTick
<1>4. ASSUME NEW a \in Accels, CheckCurr(a) PROVE DaemonTypeInv'
  BY <1>4 DEF CheckCurr, MainState, schedVars
<1>5. CASE PickIdle
  <2>1. main.accel \in Accels /\ PickNext(main.accel)
    BY <1>5 DEF PickIdle
  <2>2. main' \in MainState /\ main'.pc = "tick"
    BY <1>5 DEF PickIdle, MainState
  <2> QED BY <1>5, <2>1, <2>2, PickNextType DEF PickIdle
<1>6. CASE UpdateNothing
  BY <1>6 DEF UpdateNothing, MainState, schedVars
<1>7. ASSUME NEW l \in Handles, UpdateCurr(l) PROVE DaemonTypeInv'
  BY <1>7, UpdateCurrType
<1>8. CASE Dexit
  BY <1>8 DEF Dexit, schedVars
<1>9. CASE EndTick
  <2>1. main' \in MainState /\ main'.pc \in {"select", "remove"}
    BY <1>9 DEF EndTick, MainState
  <2>2. /\ client' \in [Handles -> ClientState]
        /\ \A h \in Handles : client'[h].pc = "accel" => client'[h] = client[h]
    <3>1. ASSUME NEW c \in ClientState
          PROVE  /\ [c EXCEPT !.pc = "accepted"] \in ClientState
                 /\ [c EXCEPT !.pc = "accepted"].pc = "accepted"
      BY DEF ClientState
    <3> QED BY <1>9, <3>1 DEF EndTick
  <2> QED BY <1>9, <2>1, <2>2 DEF EndTick, schedVars
<1>10. ASSUME NEW h \in Handles, RemoveJob(h) PROVE DaemonTypeInv'
  <2>1. NewEntity(NoAccel) \in Entity
    BY DispatchAssumption DEF NewEntity, Entity, Modes
  <2> QED BY <1>10, <2>1 DEF RemoveJob
<1>11. CASE EndRemove
  BY <1>11 DEF EndRemove, MainState, schedVars
<1>12. CASE HandleCleanup
  <2> DEFINE m == Head(daemon_fifo)
  <2>1. m \in Message /\ Tail(daemon_fifo) \in Seq(Message)
    BY <1>12 DEF HandleCleanup
  <2>2. m.from \in Handles
    BY <2>1 DEF Message
  <2>3. CleanedUp(m) \in Entity
    <3>1. se[m.from] \in Entity /\ m.is_finished \in BOOLEAN
      BY <2>1, <2>2 DEF Message
    <3> HIDE DEF m
    <3> QED BY <3>1 DEF CleanedUp, Entity
  <2>4. se' \in [Handles -> Entity]
    BY <1>12, <2>2, <2>3 DEF HandleCleanup
  <2>5. tokill_list' \subseteq Handles
    <3>1. Finished(m) \subseteq Handles
      BY <2>2 DEF Finished
    <3> QED BY <1>12, <3>1 DEF HandleCleanup, TypeInv, DaemonTypeInv, TypeOK
  <2> QED BY <1>12, <2>1, <2>4, <2>5 DEF HandleCleanup
<1>13. CASE DispatchNext
  <2>1. PICK m \in disp : m.accel # CPU /\ PickNext(m.accel)
    BY <1>13 DEF DispatchNext
  <2>2. m.accel \in Accels
    BY <2>1 DEF Message
  <2> QED BY <1>13, <2>1, <2>2, PickNextType DEF DispatchNext
<1>14. CASE DispatchNothing
  BY <1>14 DEF DispatchNothing, schedVars
<1>15. ASSUME NEW h \in Handles, Register(h) PROVE DaemonTypeInv'
  <2>1. ASSUME NEW c \in ClientState PROVE [c EXCEPT !.pc = "registering"] \in ClientState
    BY DEF ClientState
  <2>2. client' \in [Handles -> ClientState]
    BY <1>15, <2>1 DEF Register, TypeInv, DaemonTypeInv, TypeOK
  <2> QED BY <1>15, <2>2 DEF Register, schedVars
<1>16. ASSUME NEW h \in Handles, Start(h) PROVE DaemonTypeInv'
  <2>1. [client[h] EXCEPT !.pc = "loop"] \in ClientState
    BY DEF ClientState
  <2> QED BY <1>16, <2>1, UpdateRunOnType DEF Start, schedVars
<1>17. ASSUME NEW h \in Handles, WaitForRunOn(h) PROVE DaemonTypeInv'
  BY <1>17, UpdateRunOnType DEF WaitForRunOn, schedVars
<1>18. ASSUME NEW h \in Handles, InitAccel(h) PROVE DaemonTypeInv'
  <2>1. client[h].run_on \in Accels
    BY <1>18 DEF InitAccel
  <2>2. ASSUME NEW c \in ClientState, NEW a \in Accels
        PROVE  /\ [c EXCEPT !.pc = "accel", !.device = a, !.once = FALSE] \in ClientState
               /\ [c EXCEPT !.pc = "accel", !.device = a, !.once = FALSE].device = a
    BY DEF ClientState
  <2>3. client' \in [Handles -> ClientState]
    BY <1>18, <2>1, <2>2 DEF InitAccel, TypeInv, DaemonTypeInv, TypeOK
  <2> QED BY <1>18, <2>3 DEF InitAccel, schedVars
<1>19. ASSUME NEW h \in Handles, InitCpu(h) PROVE DaemonTypeInv'
  <2>1. ASSUME NEW c \in ClientState PROVE [c EXCEPT !.pc = "cpu"] \in ClientState
    BY DEF ClientState
  <2>2. client' \in [Handles -> ClientState]
    BY <1>19, <2>1 DEF InitCpu, TypeInv, DaemonTypeInv, TypeOK
  <2> QED BY <1>19, <2>2 DEF InitCpu, schedVars
<1>20. ASSUME NEW h \in Handles, Work(h) PROVE DaemonTypeInv'
  <2>1. PICK done \in BOOLEAN :
          UpdateRunOn(h, [client[h] EXCEPT !.is_finished = done, !.once = TRUE])
    BY <1>20 DEF Work
  <2>2. [client[h] EXCEPT !.is_finished = done, !.once = TRUE] \in ClientState
    BY DEF ClientState
  <2> QED BY <1>20, <2>1, <2>2, UpdateRunOnType DEF Work, schedVars
<1>21. ASSUME NEW h \in Handles, Free(h) PROVE DaemonTypeInv'
  <2>1. CleanupMessage(h) \in Message
    BY <1>21 DEF Free, CleanupMessage, Message, ClientState, DeviceIsKnown
  <2>2. client' \in [Handles -> ClientState]
    <3>1. ASSUME NEW c \in ClientState
          PROVE  [c EXCEPT !.pc = "loop", !.device = NoAccel] \in ClientState
      BY DEF ClientState
    <3>2. client \in [Handles -> ClientState]
      BY DEF TypeInv, DaemonTypeInv, TypeOK
    <3>3. [client[h] EXCEPT !.pc = "loop", !.device = NoAccel] \in ClientState
      BY <3>1, <3>2
    <3>4. client' = [client EXCEPT ![h] =
                         [client[h] EXCEPT !.pc = "loop", !.device = NoAccel]]
      BY <1>21 DEF Free
    <3> QED BY <3>2, <3>3, <3>4
  <2>3. daemon_fifo' \in Seq(Message)
    BY <1>21, <2>1 DEF Free
  <2> QED BY <1>21, <2>2, <2>3 DEF Free, schedVars
<1>22. ASSUME NEW h \in Handles, Close(h) PROVE DaemonTypeInv'
  BY <1>22, SMTT(30) DEF Close, NewClient, ClientState, Modes, schedVars
<1> QED
  BY <1>1, <1>2, <1>3, <1>4, <1>5, <1>6, <1>7, <1>8, <1>9, <1>10, <1>11, <1>12, <1>13,
     <1>14, <1>15, <1>16, <1>17, <1>18, <1>19, <1>20, <1>21, <1>22
     DEF Next, Main, Dispatcher, Client, SendFails, RemoveFails

LEMMA DeviceStep ==
  ASSUME TypeInv, [Next]_vars
  PROVE  DeviceIsKnown'
<1> SUFFICES ASSUME NEW x \in Handles, client'[x].pc = "accel"
             PROVE  client'[x].device \in Accels
  BY DEF DeviceIsKnown
<1>1. client[x].pc = "accel" => client[x].device \in Accels
  BY DEF TypeInv, DeviceIsKnown
<1>2. client \in [Handles -> ClientState]
  BY DEF TypeInv, DaemonTypeInv, TypeOK
<1>3. CASE UNCHANGED client
  BY <1>1, <1>3
<1>4. CASE EndTick
  BY <1>1, <1>2, <1>4 DEF EndTick, ClientState
<1>5. ASSUME NEW h \in Handles, NEW c \in ClientState, UpdateRunOn(h, c),
             c.pc = "accel" => c.device \in Accels
      PROVE  client'[x].device \in Accels
  BY <1>1, <1>5, UpdateRunOnType
<1>6. ASSUME NEW h \in Handles, Register(h) \/ InitCpu(h) \/ Free(h) \/ Close(h)
      PROVE  client'[x].device \in Accels
  <2>1. CASE Register(h)
    BY <1>1, <1>2, <2>1 DEF Register, ClientState
  <2>2. CASE InitCpu(h)
    BY <1>1, <1>2, <2>2 DEF InitCpu, ClientState
  <2>3. CASE Free(h)
    BY <1>1, <1>2, <2>3 DEF Free, ClientState
  <2>4. CASE Close(h)
    BY <1>1, <1>2, <2>4 DEF Close, NewClient, ClientState
  <2> QED BY <1>6, <2>1, <2>2, <2>3, <2>4
<1>7. ASSUME NEW h \in Handles, Start(h) PROVE client'[x].device \in Accels
  BY <1>2, <1>5, <1>7 DEF Start, ClientState
<1>8. ASSUME NEW h \in Handles, WaitForRunOn(h) PROVE client'[x].device \in Accels
  BY <1>2, <1>5, <1>8 DEF WaitForRunOn, ClientState
<1>9. ASSUME NEW h \in Handles, InitAccel(h) PROVE client'[x].device \in Accels
  BY <1>1, <1>2, <1>9 DEF InitAccel, ClientState
<1>10. ASSUME NEW h \in Handles, Work(h) PROVE client'[x].device \in Accels
  <2>1. PICK done \in BOOLEAN :
          UpdateRunOn(h, [client[h] EXCEPT !.is_finished = done, !.once = TRUE])
    BY <1>10 DEF Work
  <2>2. ASSUME NEW c \in ClientState
        PROVE  /\ [c EXCEPT !.is_finished = done, !.once = TRUE] \in ClientState
               /\ [c EXCEPT !.is_finished = done, !.once = TRUE].pc = c.pc
               /\ [c EXCEPT !.is_finished = done, !.once = TRUE].device = c.device
    BY DEF ClientState
  <2>3. client[h] \in ClientState /\ (client[h].pc = "accel" => client[h].device \in Accels)
    BY <1>2 DEF TypeInv, DeviceIsKnown
  <2> QED BY <1>5, <2>1, <2>2, <2>3
<1> QED
  BY <1>3, <1>4, <1>6, <1>7, <1>8, <1>9, <1>10
     DEF Next, Main, Dispatcher, Client, vars, AddJob, PeriodicTick, CheckCurr, PickIdle,
         PickNext, UpdateNothing, UpdateCurr, SendFails, Dexit, RemoveJob, RemoveFails,
         EndRemove, HandleCleanup, DispatchNext, DispatchNothing

\* The type invariant is inductive.
LEMMA TypeStep ==
  ASSUME TypeInv, [Next]_vars
  PROVE  TypeInv'
BY DaemonTypeStep, DeviceStep DEF TypeInv

LEMMA TypeInit ==
  ASSUME Init
  PROVE  TypeInv
<1>1. NewEntity(NoAccel) \in Entity
  BY DispatchAssumption DEF NewEntity, Entity, Modes
<1>2. EmptyCurr \in CurrState /\ EmptyCurr.exec_start <= clock
  BY DispatchAssumption DEF Init, EmptyCurr, CurrState
<1>3. NewClient \in ClientState /\ NewClient.pc # "accel"
  BY DEF NewClient, ClientState, Modes
<1>4. main \in MainState /\ main.pc = "select"
  BY DEF Init, MainState
<1> QED
  BY <1>1, <1>2, <1>3, <1>4, DispatchAssumption
     DEF Init, TypeInv, DaemonTypeInv, DeviceIsKnown, TypeOK

\* In every state of the daemon and its clients the variables have their
\* types: what update_curr and pick_next compute for a job's runtime is never
\* negative, and what is sent on a FIFO is a mode or a message of its kind.
THEOREM TypesAreCorrect == Spec => []TypeOK
<1>1. Init => TypeInv
  BY TypeInit
<1>2. TypeInv /\ [Next]_vars => TypeInv'
  BY TypeStep
<1>3. TypeInv => TypeOK
  BY DEF TypeInv, DaemonTypeInv
<1> QED BY <1>1, <1>2, <1>3, PTL DEF Spec

--------------------------------------------------------------------------------
(* The run queues.                                                           *)

\* The part of se that QueueInv is about.
SameQueues == /\ UNCHANGED <<se_table, tree>>
              /\ \A h \in Handles : /\ se'[h].vruntime = se[h].vruntime
                                    /\ se'[h].enqueued_in = se[h].enqueued_in

\* Neither pick_next nor handle_cleanup moves a job.
LEMMA PickNextQueues ==
  ASSUME TypeInv, NEW a \in Accels, PickNext(a)
  PROVE  SameQueues
<1> USE DEF SameQueues
<1>1. CASE UNCHANGED se
  BY <1>1 DEF PickNext
<1>2. ASSUME NEW e \in Pickable(a),
             se' = [se EXCEPT ![e.handle] =
                        [@ EXCEPT !.execution_mode = a,
                                  !.min_granularity = MinGranularity(a, e)]]
      PROVE  SameQueues
  <2>1. e.handle \in Handles /\ se[e.handle] \in Entity
    BY DEF Pickable, TypeInv, DaemonTypeInv, TypeOK, Entry
  <2>2. ASSUME NEW f \in Entity, NEW g
        PROVE  LET k == [f EXCEPT !.execution_mode = a, !.min_granularity = g]
               IN  k.vruntime = f.vruntime /\ k.enqueued_in = f.enqueued_in
    BY DEF Entity
  <2> DEFINE picked == [se[e.handle] EXCEPT !.execution_mode = a,
                                            !.min_granularity = MinGranularity(a, e)]
  <2>3. /\ picked.vruntime = se[e.handle].vruntime
        /\ picked.enqueued_in = se[e.handle].enqueued_in
    BY <2>1, <2>2
  <2>4. se' = [se EXCEPT ![e.handle] = picked]
    BY <1>2
  <2> HIDE DEF picked
  <2>5. \A x \in Handles : /\ se'[x].vruntime = se[x].vruntime
                           /\ se'[x].enqueued_in = se[x].enqueued_in
    BY <2>1, <2>3, <2>4 DEF TypeInv, DaemonTypeInv, TypeOK
  <2> QED BY <2>5 DEF PickNext
<1> QED BY <1>1, <1>2 DEF PickNext

LEMMA HandleCleanupQueues ==
  ASSUME TypeInv, HandleCleanup
  PROVE  SameQueues
<1> DEFINE m == Head(daemon_fifo)
<1>1. /\ se' = [se EXCEPT ![m.from] = CleanedUp(m)]
      /\ UNCHANGED se_table /\ UNCHANGED tree
  BY DEF HandleCleanup
<1>2. m \in Message /\ m.from \in Handles
  <2>1. m \in Message
    BY DEF HandleCleanup, TypeInv, DaemonTypeInv, TypeOK
  <2> QED BY <2>1 DEF Message
<1>3. /\ CleanedUp(m).vruntime = se[m.from].vruntime
      /\ CleanedUp(m).enqueued_in = se[m.from].enqueued_in
  <2> HIDE DEF m
  <2> QED BY <1>2 DEF CleanedUp, TypeInv, DaemonTypeInv, TypeOK, Entity
<1> HIDE DEF m
<1> QED BY <1>1, <1>2, <1>3 DEF SameQueues, TypeInv, DaemonTypeInv, TypeOK

\* A job keeps its key when its queue is unchanged.
LEMMA TreesFrame ==
  ASSUME TypeInv, QueueInv, SameQueues
  PROVE  TreesMatchEntities'
BY DEF SameQueues, QueueInv, TreesMatchEntities, EntryOf, TypeInv, DaemonTypeInv, TypeOK, Entry

\* update_runtime erases the entry of the current job under its old key before
\* it inserts it under the new one.
LEMMA TreesUpdateCurr ==
  ASSUME TypeInv, QueueInv, NEW l \in Handles, UpdateCurr(l)
  PROVE  /\ TreesMatchEntities'
         /\ \A x \in Handles : se'[x].enqueued_in = se[x].enqueued_in
<1> DEFINE a == main.accel
           h == curr[a].handle
<1>1. a \in Accels /\ h \in Handles /\ h \in se_table /\ se[h].enqueued_in = a
  BY DEF UpdateCurr, QueueInv, TypeInv, DaemonTypeInv, TypeOK, CurrState
<1>2. /\ se'[h].vruntime = se[h].vruntime + Delta(a)
      /\ se'[h].enqueued_in = a
      /\ \A x \in Handles \ {h} : /\ se'[x].vruntime = se[x].vruntime
                                  /\ se'[x].enqueued_in = se[x].enqueued_in
  <2> DEFINE current == [se[h] EXCEPT !.vruntime = @ + Delta(a), !.rruntime = @ + Delta(a)]
             preempted == [current EXCEPT !.next_execution_mode = IdleMode]
             called == [se[l] EXCEPT !.next_execution_mode = IDLE,
                                     !.already_send_free_cpu = TRUE]
  <2>1. \A x \in Handles : se'[x] = IF x = h /\ Preempts(a, l) THEN preempted
                                    ELSE IF x = h THEN current
                                    ELSE IF x = l /\ FreesCpu(a, l) THEN called
                                    ELSE se[x]
    BY DEF UpdateCurr, UpdatedEntities
  <2>2. se[h] \in Entity /\ se[l] \in Entity
    BY <1>1 DEF TypeInv, DaemonTypeInv, TypeOK
  <2>3. current.vruntime = se[h].vruntime + Delta(a) /\ current.enqueued_in = a
    BY <1>1, <2>2 DEF Entity
  <2>4. preempted.vruntime = current.vruntime /\ preempted.enqueued_in = current.enqueued_in
    BY <2>2 DEF Entity
  <2>5. called.vruntime = se[l].vruntime /\ called.enqueued_in = se[l].enqueued_in
    BY <2>2 DEF Entity
  <2> HIDE DEF current, preempted, called
  <2> QED BY <1>1, <2>1, <2>3, <2>4, <2>5
<1>3. tree' = [tree EXCEPT ![a] = UpdatedTree(a)] /\ se_table' = se_table
  BY DEF UpdateCurr
<1>4. ASSUME NEW b \in Accels, NEW e \in tree'[b]
      PROVE  e.handle \in se_table' /\ e = EntryOf(e.handle)' /\ se'[e.handle].enqueued_in = b
  <2>1. CASE e = [vruntime |-> se[h].vruntime + Delta(a), handle |-> h] /\ b = a
    BY <1>1, <1>2, <1>3, <2>1 DEF EntryOf
  <2>2. CASE e \in tree[b] /\ e.handle # h
    <3>1. e.handle \in se_table /\ e = EntryOf(e.handle) /\ se[e.handle].enqueued_in = b
      BY <2>2 DEF QueueInv, TreesMatchEntities
    <3>2. e.handle \in Handles
      BY <3>1 DEF TypeInv, DaemonTypeInv, TypeOK
    <3>3. EntryOf(e.handle)' = EntryOf(e.handle)
      BY <1>2, <2>2, <3>2 DEF EntryOf
    <3> QED BY <1>2, <1>3, <2>2, <3>1, <3>2, <3>3
  <2>3. ASSUME e \in tree[b], e.handle = h PROVE b = a /\ e = EntryOf(h)
    BY <1>1, <2>3 DEF QueueInv, TreesMatchEntities
  <2> QED BY <1>1, <1>3, <2>1, <2>2, <2>3 DEF UpdatedTree, TypeInv, DaemonTypeInv, TypeOK
<1>5. ASSUME NEW x \in se_table'
      PROVE  se'[x].enqueued_in \in Accels /\ EntryOf(x)' \in tree'[se'[x].enqueued_in]
  <2>1. x \in Handles /\ x \in se_table
    BY <1>3, <1>5, SMTT(30) DEF TypeInv, DaemonTypeInv, TypeOK
  <2>2. CASE x = h
    BY <1>1, <1>2, <1>3, <2>2 DEF EntryOf, UpdatedTree, TypeInv, DaemonTypeInv, TypeOK
  <2>3. CASE x # h
    <3>1. EntryOf(x)' = EntryOf(x) /\ EntryOf(x) # EntryOf(h)
      BY <1>2, <2>1, <2>3 DEF EntryOf
    <3>2. se[x].enqueued_in \in Accels /\ EntryOf(x) \in tree[se[x].enqueued_in]
      BY <2>1, SMTT(30) DEF QueueInv, TreesMatchEntities
    <3> QED BY <1>1, <1>2, <1>3, <2>1, <2>3, <3>1, <3>2 DEF UpdatedTree, TypeInv, DaemonTypeInv, TypeOK
  <2> QED BY <2>2, <2>3
<1> QED BY <1>1, <1>2, <1>4, <1>5 DEF TreesMatchEntities

LEMMA TreesStep ==
  ASSUME TypeInv, QueueInv, [Next]_vars
  PROVE  TreesMatchEntities'
<1>1. CASE UNCHANGED <<se_table, se, tree>>
  BY <1>1, TreesFrame DEF SameQueues
<1>2. ASSUME NEW h \in Handles, NEW a \in Accels, AddJob(h, a) PROVE TreesMatchEntities'
  <2>1. h \notin se_table
    BY <1>2, DispatchAssumption DEF AddJob, QueueInv, NoHandle
  <2>2. \A x \in Handles \ {h} : se'[x] = se[x]
    BY <1>2 DEF AddJob, TypeInv, DaemonTypeInv, TypeOK
  <2>3. se'[h].vruntime = NewVruntime /\ se'[h].enqueued_in = a
    BY <1>2 DEF AddJob, NewEntity, TypeInv, DaemonTypeInv, TypeOK
  <2>4. /\ se_table' = se_table \cup {h}
        /\ tree' = [tree EXCEPT ![a] = @ \cup {[vruntime |-> NewVruntime, handle |-> h]}]
    BY <1>2 DEF AddJob
  <2>5. ASSUME NEW b \in Accels, NEW e \in tree'[b]
        PROVE  e.handle \in se_table' /\ e = EntryOf(e.handle)' /\ se'[e.handle].enqueued_in = b
    <3>1. CASE e = [vruntime |-> NewVruntime, handle |-> h] /\ b = a
      BY <2>3, <2>4, <3>1 DEF EntryOf
    <3>2. CASE e \in tree[b]
      <4>1. e.handle \in se_table /\ e = EntryOf(e.handle) /\ se[e.handle].enqueued_in = b
        BY <3>2 DEF QueueInv, TreesMatchEntities
      <4> QED BY <2>1, <2>2, <2>4, <4>1 DEF EntryOf, TypeInv, DaemonTypeInv, TypeOK
    <3> QED BY <2>4, <3>1, <3>2 DEF TypeInv, DaemonTypeInv, TypeOK
  <2>6. ASSUME NEW x \in se_table'
        PROVE  se'[x].enqueued_in \in Accels /\ EntryOf(x)' \in tree'[se'[x].enqueued_in]
    <3>1. CASE x = h
      BY <2>3, <2>4, <3>1 DEF EntryOf, TypeInv, DaemonTypeInv, TypeOK
    <3>2. CASE x \in se_table
      <4>1. se'[x] = se[x]
        BY <2>1, <2>2, <3>2 DEF TypeInv, DaemonTypeInv, TypeOK
      <4>2. se[x].enqueued_in \in Accels /\ EntryOf(x) \in tree[se[x].enqueued_in]
        BY <3>2 DEF QueueInv, TreesMatchEntities
      <4> QED BY <2>4, <4>1, <4>2 DEF EntryOf, TypeInv, DaemonTypeInv, TypeOK
    <3> QED BY <2>4, <3>1, <3>2
  <2> QED BY <2>5, <2>6 DEF TreesMatchEntities
<1>3. ASSUME NEW h \in Handles, RemoveJob(h) PROVE TreesMatchEntities'
  <2> DEFINE a == se[h].enqueued_in
  <2>1. /\ se_table' = se_table \ {h}
        /\ tree' = [tree EXCEPT ![a] = @ \ {EntryOf(h)}]
        /\ se' = [se EXCEPT ![h] = NewEntity(NoAccel)]
    BY <1>3 DEF RemoveJob
  <2>2. ASSUME NEW b \in Accels, NEW e \in tree'[b]
        PROVE  e.handle \in se_table' /\ e = EntryOf(e.handle)' /\ se'[e.handle].enqueued_in = b
    <3>1. e \in tree[b]
      BY <2>1 DEF TypeInv, DaemonTypeInv, TypeOK
    <3>2. e.handle \in se_table /\ e = EntryOf(e.handle) /\ se[e.handle].enqueued_in = b
      BY <3>1 DEF QueueInv, TreesMatchEntities
    <3>3. e.handle # h
      BY <2>1, <3>2 DEF TypeInv, DaemonTypeInv, TypeOK
    <3> QED BY <2>1, <3>2, <3>3 DEF EntryOf, TypeInv, DaemonTypeInv, TypeOK
  <2>3. ASSUME NEW x \in se_table'
        PROVE  se'[x].enqueued_in \in Accels /\ EntryOf(x)' \in tree'[se'[x].enqueued_in]
    <3>1. x \in se_table /\ x # h /\ x \in Handles
      BY <2>1 DEF TypeInv, DaemonTypeInv, TypeOK
    <3>2. se'[x] = se[x] /\ EntryOf(x) # EntryOf(h)
      BY <2>1, <3>1 DEF EntryOf, TypeInv, DaemonTypeInv, TypeOK
    <3>3. se[x].enqueued_in \in Accels /\ EntryOf(x) \in tree[se[x].enqueued_in]
      BY <3>1 DEF QueueInv, TreesMatchEntities
    <3> QED BY <2>1, <3>2, <3>3 DEF EntryOf, TypeInv, DaemonTypeInv, TypeOK
  <2> QED BY <2>2, <2>3 DEF TreesMatchEntities
<1>4. ASSUME NEW a \in Accels, PickNext(a) PROVE TreesMatchEntities'
  BY <1>4, PickNextQueues, TreesFrame
<1>5. CASE PickIdle
  BY <1>4, <1>5 DEF PickIdle, TypeInv, DaemonTypeInv
<1>6. CASE DispatchNext
  BY <1>4, <1>6 DEF DispatchNext, TypeInv, DaemonTypeInv, TypeOK, Message
<1>7. CASE HandleCleanup
  BY <1>7, HandleCleanupQueues, TreesFrame
<1>8. ASSUME NEW l \in Handles, UpdateCurr(l) PROVE TreesMatchEntities'
  BY <1>8, TreesUpdateCurr, SMTT(30)
<1> QED
  BY <1>1, <1>2, <1>3, <1>5, <1>6, <1>7, <1>8
     DEF Next, Main, Dispatcher, Client, vars, schedVars, PeriodicTick, CheckCurr,
         UpdateNothing, SendFails, Dexit, EndTick, RemoveFails, EndRemove,
         DispatchNothing, Register, Start, WaitForRunOn, InitAccel, InitCpu, Work,
         Free, Close

\* The current job of a run queue stays one of its jobs.
LEMMA CurrStep ==
  ASSUME TypeInv, QueueInv, [Next]_vars
  PROVE  (\A a \in Accels : curr[a].handle # NoHandle =>
            /\ curr[a].handle \in se_table
            /\ se[curr[a].handle].enqueued_in = a)'
<1> DEFINE CurrIsQueued(a) == curr[a].handle # NoHandle =>
                                /\ curr[a].handle \in se_table
                                /\ se[curr[a].handle].enqueued_in = a
<1> SUFFICES ASSUME NEW a \in Accels, curr'[a].handle # NoHandle
             PROVE  curr'[a].handle \in se_table' /\ se'[curr'[a].handle].enqueued_in = a
  OBVIOUS
<1>1. CurrIsQueued(a)
  BY DEF QueueInv
<1>2. CASE UNCHANGED <<se_table, se, curr>>
  BY <1>1, <1>2
<1>3. ASSUME NEW h \in Handles, NEW b \in Accels, AddJob(h, b)
      PROVE  curr'[a].handle \in se_table' /\ se'[curr'[a].handle].enqueued_in = a
  <2>1. h \notin se_table
    BY <1>3, DispatchAssumption DEF AddJob, QueueInv, NoHandle
  <2> QED BY <1>1, <1>3, <2>1 DEF AddJob, TypeInv, DaemonTypeInv, TypeOK
<1>4. ASSUME NEW h \in Handles, RemoveJob(h)
      PROVE  curr'[a].handle \in se_table' /\ se'[curr'[a].handle].enqueued_in = a
  BY <1>1, <1>4 DEF RemoveJob, TypeInv, DaemonTypeInv, TypeOK
<1>5. ASSUME NEW b \in Accels, PickNext(b)
      PROVE  curr'[a].handle \in se_table' /\ se'[curr'[a].handle].enqueued_in = a
  <2>1. SameQueues
    BY <1>5, PickNextQueues
  <2>2. CASE curr' = [curr EXCEPT ![b] = EmptyCurr]
    BY <1>1, <2>1, <2>2 DEF EmptyCurr, SameQueues, TypeInv, DaemonTypeInv, TypeOK
  <2>3. ASSUME NEW e \in Pickable(b),
               curr' = [curr EXCEPT ![b] = [handle |-> e.handle,
                                            already_send_message |-> FALSE,
                                            exec_start |-> clock]]
        PROVE  curr'[a].handle \in se_table' /\ se'[curr'[a].handle].enqueued_in = a
    <3>1. e.handle \in se_table /\ se[e.handle].enqueued_in = b
      BY DEF Pickable, QueueInv, TreesMatchEntities
    <3> QED BY <1>1, <2>1, <2>3, <3>1 DEF SameQueues, TypeInv, DaemonTypeInv, TypeOK
  <2> QED BY <1>5, <2>2, <2>3 DEF PickNext
<1>6. CASE PickIdle
  BY <1>5, <1>6 DEF PickIdle, TypeInv, DaemonTypeInv
<1>7. CASE DispatchNext
  BY <1>5, <1>7 DEF DispatchNext, TypeInv, DaemonTypeInv, TypeOK, Message
<1>8. CASE HandleCleanup
  BY <1>1, <1>8, HandleCleanupQueues DEF HandleCleanup, SameQueues, TypeInv, DaemonTypeInv, TypeOK
<1>9. ASSUME NEW l \in Handles, UpdateCurr(l)
      PROVE  curr'[a].handle \in se_table' /\ se'[curr'[a].handle].enqueued_in = a
  <2>1. curr'[a].handle = curr[a].handle /\ se_table' = se_table
    BY <1>9 DEF UpdateCurr, UpdatedCurr, TypeInv, DaemonTypeInv, TypeOK
  <2> QED BY <1>1, <1>9, <2>1, TreesUpdateCurr DEF TypeInv, DaemonTypeInv, TypeOK
<1> QED
  BY <1>2, <1>3, <1>4, <1>6, <1>7, <1>8, <1>9
     DEF Next, Main, Dispatcher, Client, vars, schedVars, PeriodicTick, CheckCurr,
         UpdateNothing, SendFails, Dexit, EndTick, RemoveFails, EndRemove,
         DispatchNothing, Register, Start, WaitForRunOn, InitAccel, InitCpu, Work,
         Free, Close

\* Only add_job gives a registering client an entity.
LEMMA RegisteringStep ==
  ASSUME TypeInv, QueueInv, [Next]_vars
  PROVE  /\ (\A h \in se_table : client[h].pc = "registering" => h = main.job)'
         /\ (main.pc \in {"select", "remove"} => main.job = NoHandle)'
<1> DEFINE Known(h) == h \in se_table => (client[h].pc = "registering" => h = main.job)
           NoJob == main.pc \in {"select", "remove"} => main.job = NoHandle
<1> SUFFICES (\A h \in Handles : Known(h))' /\ NoJob'
  BY TypeStep DEF TypeInv, DaemonTypeInv, TypeOK
<1>1. NoJob /\ \A h \in Handles : Known(h)
  BY DEF QueueInv
<1>2. CASE UNCHANGED <<se_table, main, client>>
  BY <1>1, <1>2
<1>3. ASSUME NEW h \in Handles, NEW a \in Accels, AddJob(h, a)
      PROVE  (\A x \in Handles : Known(x))' /\ NoJob'
  BY <1>1, <1>3, DispatchAssumption DEF AddJob, StartTick, NoHandle
<1>4. CASE PeriodicTick
  BY <1>4 DEF PeriodicTick, StartTick
<1>5. ASSUME NEW a \in Accels, CheckCurr(a) PROVE (\A h \in Handles : Known(h))' /\ NoJob'
  BY <1>1, <1>5 DEF CheckCurr, TypeInv, DaemonTypeInv, TypeOK, MainState, schedVars
<1>6. ASSUME UNCHANGED <<se_table, client>>, main' = [main EXCEPT !.pc = "tick", !.accel = NoAccel]
      PROVE  (\A h \in Handles : Known(h))' /\ NoJob'
  BY <1>1, <1>6 DEF TypeInv, DaemonTypeInv, TypeOK, MainState
<1>7. CASE PickIdle \/ UpdateNothing
  BY <1>6, <1>7 DEF PickIdle, PickNext, UpdateNothing, schedVars
<1>8. ASSUME NEW l \in Handles, UpdateCurr(l) PROVE (\A h \in Handles : Known(h))' /\ NoJob'
  BY <1>6, <1>8 DEF UpdateCurr
<1>9. CASE EndTick
  <2>1. main'.job = NoHandle /\ se_table' = se_table
    BY <1>9 DEF EndTick, TypeInv, DaemonTypeInv, TypeOK, MainState, schedVars
  <2>2. ASSUME NEW h \in Handles, h \in se_table, client'[h].pc = "registering" PROVE FALSE
    <3>1. CASE h = main.job
      BY <1>9, <2>2, <3>1 DEF EndTick, TypeInv, DaemonTypeInv, TypeOK, ClientState
    <3>2. CASE h # main.job
      BY <1>1, <1>9, <2>2, <3>2 DEF EndTick
    <3> QED BY <3>1, <3>2
  <2> QED BY <2>1, <2>2
<1>10. ASSUME NEW h \in Handles, RemoveJob(h) PROVE (\A x \in Handles : Known(x))' /\ NoJob'
  BY <1>1, <1>10 DEF RemoveJob
<1>11. CASE EndRemove
  BY <1>1, <1>11 DEF EndRemove, TypeInv, DaemonTypeInv, TypeOK, MainState, schedVars
<1>12. ASSUME UNCHANGED <<se_table, main>>, NEW h \in Handles,
              \A x \in Handles \ {h} : client'[x] = client[x],
              client'[h].pc = "registering" => (h \notin se_table \/ client[h].pc = "registering")
       PROVE  (\A x \in Handles : Known(x))' /\ NoJob'
  BY <1>1, <1>12
<1>13. ASSUME NEW h \in Handles, Register(h) \/ Client(h)
       PROVE  (\A x \in Handles : Known(x))' /\ NoJob'
  <2>1. client \in [Handles -> ClientState] /\ UNCHANGED <<se_table, main>>
    BY <1>13 DEF TypeInv, DaemonTypeInv, TypeOK, Client, Register, Start, WaitForRunOn, InitAccel,
              InitCpu, Work, Free, Close, schedVars
  <2>2. CASE Register(h)
    BY <1>12, <2>1, <2>2 DEF Register
  <2>3. ASSUME NEW c \in ClientState, UpdateRunOn(h, c), c.pc # "registering"
        PROVE  (\A x \in Handles : Known(x))' /\ NoJob'
    BY <1>12, <2>1, <2>3, UpdateRunOnType
  <2>4. CASE Start(h)
    BY <2>1, <2>3, <2>4 DEF Start, ClientState
  <2>5. CASE WaitForRunOn(h)
    BY <2>1, <2>3, <2>5 DEF WaitForRunOn
  <2>6. CASE InitAccel(h)
    BY <1>12, <2>1, <2>6 DEF InitAccel, ClientState
  <2>7. CASE InitCpu(h)
    BY <1>12, <2>1, <2>7 DEF InitCpu, ClientState
  <2>8. CASE Work(h)
    <3>1. ASSUME NEW done \in BOOLEAN
          PROVE  /\ [client[h] EXCEPT !.is_finished = done, !.once = TRUE] \in ClientState
                 /\ [client[h] EXCEPT !.is_finished = done, !.once = TRUE].pc = client[h].pc
      BY <2>1 DEF ClientState
    <3>2. client[h].pc # "registering"
      BY <2>8 DEF Work, KeepsRunning
    <3> QED BY <2>3, <2>8, <3>1, <3>2 DEF Work
  <2>9. CASE Free(h)
    BY <1>12, <2>1, <2>9 DEF Free, ClientState
  <2>10. CASE Close(h)
    BY <1>12, <2>1, <2>10 DEF Close, NewClient
  <2> QED BY <1>13, <2>2, <2>4, <2>5, <2>6, <2>7, <2>8, <2>9, <2>10 DEF Client
<1>14. CASE HandleCleanup \/ DispatchNext \/ DispatchNothing \/ Dexit
  BY <1>2, <1>14 DEF HandleCleanup, DispatchNext, DispatchNothing, PickNext, Dexit, schedVars
<1> QED
  BY <1>2, <1>3, <1>4, <1>5, <1>7, <1>8, <1>9, <1>10, <1>11, <1>13, <1>14
     DEF Next, Main, Dispatcher, vars, schedVars, SendFails, RemoveFails

LEMMA QueueStep ==
  ASSUME TypeInv, QueueInv, [Next]_vars
  PROVE  QueueInv'
BY TreesStep, CurrStep, RegisteringStep DEF QueueInv

LEMMA QueueInit ==
  ASSUME Init
  PROVE  QueueInv
BY DispatchAssumption DEF Init, QueueInv, TreesMatchEntities, EmptyCurr

\* A job's key in its run queue is always the vruntime of its entity, and a
\* job with an entity is queued exactly once, in the queue its entity names:
\* the erase() of update_runtime and of remove_job never misses.
THEOREM QueuesAreConsistent == Spec => []TreesMatchEntities
<1>1. Init => TypeInv /\ QueueInv
  BY TypeInit, QueueInit
<1>2. TypeInv /\ QueueInv /\ [Next]_vars => (TypeInv /\ QueueInv)'
  BY TypeStep, QueueStep
<1>3. QueueInv => TreesMatchEntities
  BY DEF QueueInv
<1> QED BY <1>1, <1>2, <1>3, PTL DEF Spec
================================================================================
