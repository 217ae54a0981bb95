------------------------- MODULE UssDispatchRefinement -------------------------
(***************************************************************************)
(* UssDispatch implements AcceleratorGrant, for every set of handles and   *)
(* accelerators, for both builds and for every bound on the clock.         *)
(*                                                                         *)
(* Under the invariant of UssDispatchSafety every step changes the grant   *)
(* of at most one accelerator: pick_next gives it away (Grant) or leaves   *)
(* it idle (Idle), init() of the client library enters it (Enter), and     *)
(* free() with its cleanup message leaves it (Leave).                      *)
(***************************************************************************)
EXTENDS UssDispatchSafety

--------------------------------------------------------------------------------
(* The refinement mapping.                                                   *)

\* A client is inside of a; a message of a job that left a was not handled to
\* its end.
Inside(a) == \E h \in Handles : client[h].pc = "accel" /\ client[h].device = a
Queued(a) == \E i \in DOMAIN daemon_fifo : daemon_fifo[i].accel = a
Mailed(a) == (\E m \in disp : m.accel = a) \/ Queued(a)

Stage(a) == IF curr[a].handle = NoHandle THEN "free"
            ELSE IF Inside(a) THEN "inside"
            ELSE IF Mailed(a) THEN "left"
            ELSE "granted"

holderMap == [a \in Accels |-> curr[a].handle]

LEMMA StageMap == /\ grantStage = [a \in Accels |-> Stage(a)]
                  /\ grantStage' = [a \in Accels |-> Stage(a)']
<1> DEFINE Sent(a) == \E m \in disp \cup {daemon_fifo[i] : i \in DOMAIN daemon_fifo} : m.accel = a
<1>1. \A a \in Accels : Sent(a) <=> Mailed(a)
  BY DEF Mailed, Queued
<1>2. \A a \in Accels : Sent(a)' <=> Mailed(a)'
  BY DEF Mailed, Queued
<1> QED BY <1>1, <1>2 DEF grantStage, Stage, Inside

\* What a grant of b depends on does not change.
SameGrant(b) == /\ curr'[b].handle = curr[b].handle
                /\ Inside(b)' <=> Inside(b)
                /\ Mailed(b)' <=> Mailed(b)

LEMMA SameStage ==
  ASSUME NEW b, SameGrant(b)
  PROVE  curr'[b].handle = curr[b].handle /\ Stage(b)' = Stage(b)
<1>1. curr'[b].handle = curr[b].handle
  BY DEF SameGrant
<1>2. CASE Inside(b) /\ Inside(b)'
  BY <1>1, <1>2 DEF Stage
<1>3. CASE ~Inside(b) /\ ~Inside(b)' /\ Mailed(b) /\ Mailed(b)'
  BY <1>1, <1>3 DEF Stage
<1>4. CASE ~Inside(b) /\ ~Inside(b)' /\ ~Mailed(b) /\ ~Mailed(b)'
  BY <1>1, <1>4 DEF Stage
<1>5. /\ Inside(b)' <=> Inside(b)
      /\ Mailed(b)' <=> Mailed(b)
  BY DEF SameGrant
<1> QED BY <1>1, <1>2, <1>3, <1>4, <1>5

LEMMA NoGrantChanges ==
  ASSUME \A b \in Accels : SameGrant(b)
  PROVE  UNCHANGED Grants!vars
<1>1. \A b \in Accels : curr'[b].handle = curr[b].handle /\ Stage(b)' = Stage(b)
  BY SameStage
<1>2. UNCHANGED holderMap /\ UNCHANGED grantStage
  BY <1>1, StageMap DEF holderMap
<1> QED BY <1>2 DEF Grants!vars, holderMap

LEMMA OneGrantChanges ==
  ASSUME NEW a \in Accels, \A b \in Accels \ {a} : SameGrant(b)
  PROVE  /\ holderMap' = [holderMap EXCEPT ![a] = curr'[a].handle]
         /\ grantStage' = [grantStage EXCEPT ![a] = Stage(a)']
<1>1. \A b \in Accels \ {a} : curr'[b].handle = curr[b].handle /\ Stage(b)' = Stage(b)
  BY SameStage
<1>2. holderMap' = [holderMap EXCEPT ![a] = curr'[a].handle]
  BY <1>1 DEF holderMap
<1>3. grantStage' = [grantStage EXCEPT ![a] = Stage(a)']
  BY <1>1, StageMap
<1> QED BY <1>2, <1>3

\* Who is inside, and which messages there are, is only changed by the clients
\* (and the second by the dispatcher).
LEMMA SameInside ==
  ASSUME \A h \in Handles : /\ (client'[h].pc = "accel") <=> (client[h].pc = "accel")
                            /\ client[h].pc = "accel" => client'[h].device = client[h].device
  PROVE  \A a \in Accels : Inside(a)' <=> Inside(a)
BY DEF Inside

LEMMA SameMessages ==
  ASSUME UNCHANGED <<disp, daemon_fifo>>
  PROVE  \A a \in Accels : Mailed(a)' <=> Mailed(a)
BY DEF Mailed, Queued

--------------------------------------------------------------------------------
(* What the invariant says of a grant.                                       *)

\* A job that is queued to have left a is believed to be on a.
LEMMA QueuedJob ==
  ASSUME Inv, NEW a \in Accels, NEW i \in DOMAIN daemon_fifo, daemon_fifo[i].accel = a
  PROVE  LET h == daemon_fifo[i].from
         IN h \in Handles /\ se[h].execution_mode = a /\ curr[a].handle = h
<1>1. daemon_fifo[i] \in Message
  BY DEF Inv, TypeInv, DaemonTypeInv, TypeOK
<1>2. PICK h \in Handles : h = daemon_fifo[i].from
  BY <1>1 DEF Message
<1>3. JobInv(h) /\ ~NoMail(daemon_fifo, h)
  BY <1>2 DEF Inv, JobsInv, NoMail
<1>4. /\ \A m : OnlyMail(daemon_fifo, h, m) => m.accel = a
      /\ \A m, n : TwoMails(daemon_fifo, h, m, n) => m.accel = a \/ n.accel = a
  BY <1>2 DEF OnlyMail, TwoMails
<1>5. \A b, fin : Msg(h, b, fin).accel = b
  BY DEF Msg
<1>6. h \in se_table /\ se[h].execution_mode # IDLE
  BY <1>3 DEF JobInv, NoJobInv, IdleInv
<1>7. se[h].execution_mode # CPU
  BY <1>3, <1>4, <1>5, <1>6, ModesDiffer DEF JobInv, CpuInv
<1>8. PICK b \in Accels : se[h].execution_mode = b
  BY <1>6, <1>7 DEF Inv, TypeInv, DaemonTypeInv, TypeOK, Entity, Modes
<1>9. AccelInv(h, b)
  BY <1>3, <1>6, <1>8 DEF JobInv
<1>10. b = a
  <2>1. \/ \E fin \in BOOLEAN : OnlyMail(daemon_fifo, h, Msg(h, b, fin))
        \/ TwoMails(daemon_fifo, h, Msg(h, b, FALSE), Msg(h, CPU, TRUE))
    BY <1>3, <1>9 DEF AccelInv
  <2>2. ASSUME NEW fin \in BOOLEAN, OnlyMail(daemon_fifo, h, Msg(h, b, fin)) PROVE b = a
    <3>1. Msg(h, b, fin).accel = a
      BY <1>4, <2>2
    <3> QED BY <1>5, <3>1
  <2>3. ASSUME TwoMails(daemon_fifo, h, Msg(h, b, FALSE), Msg(h, CPU, TRUE)) PROVE b = a
    <3>1. Msg(h, b, FALSE).accel = a \/ Msg(h, CPU, TRUE).accel = a
      BY <1>4, <2>3
    <3>2. CPU # a /\ Msg(h, b, FALSE).accel = b /\ Msg(h, CPU, TRUE).accel = CPU
      BY <1>5, ModesDiffer
    <3> QED BY <3>1, <3>2
  <2> QED BY <2>1, <2>2, <2>3
<1> QED BY <1>2, <1>8, <1>9, <1>10 DEF AccelInv

\* An accelerator on which no job is believed to be is not used.
LEMMA FreeAccel ==
  ASSUME Inv, NEW a \in Accels, \A x \in Handles : se[x].execution_mode # a
  PROVE  ~Inside(a) /\ ~Queued(a)
<1>1. ~Inside(a)
  BY InsideJob DEF Inside, Inv, JobsInv
<1>2. ~Queued(a)
  BY QueuedJob DEF Queued
<1> QED BY <1>1, <1>2

\* The job on an accelerator is the only one that can be inside or have left.
LEMMA UsedAccel ==
  ASSUME Inv, NEW a \in Accels, NEW h \in Handles, se[h].execution_mode = a,
         curr[a].handle = h
  PROVE  /\ Inside(a) <=> client[h].pc = "accel" /\ client[h].device = a
         /\ NoMail(daemon_fifo, h) => ~Mailed(a)
<1>1. ASSUME NEW x \in Handles, client[x].pc = "accel", client[x].device = a PROVE x = h
  BY <1>1, InsideJob DEF Inv, JobsInv
<1>2. \A m \in disp : m.accel # a
  BY DEF Inv, DispatchInv, LeftInv
<1>3. ASSUME NEW i \in DOMAIN daemon_fifo, daemon_fifo[i].accel = a
      PROVE  daemon_fifo[i].from = h
  BY <1>3, QueuedJob
<1> QED BY <1>1, <1>2, <1>3 DEF Inside, Mailed, Queued, NoMail

--------------------------------------------------------------------------------
(* The steps.                                                                *)

\* pick_next of an accelerator nobody uses, by the main thread or the dispatcher.
LEMMA PickNextGrant ==
  ASSUME Inv, NEW a \in Accels, PickNext(a), \A x \in Handles : se[x].execution_mode # a,
         UNCHANGED daemon_fifo, Stage(a) \in {"free", "left"},
         \A m \in disp' : m \in disp /\ m.accel # a,
         \A m \in disp : m.accel # a => m \in disp'
  PROVE  Grants!Next \/ UNCHANGED Grants!vars
<1>1. UNCHANGED client
  BY DEF PickNext
<1>2. \A b \in Accels : Inside(b)' <=> Inside(b)
  BY <1>1 DEF Inside
<1>3. \A b \in Accels \ {a} : Mailed(b)' <=> Mailed(b)
  BY DEF Mailed, Queued
<1>4. ~Inside(a)' /\ ~Mailed(a)'
  <2>1. ~Inside(a) /\ ~Queued(a)
    BY FreeAccel
  <2> QED BY <1>2, <2>1 DEF Mailed, Queued
<1>5. /\ curr'[a].handle \in Handles \cup {NoHandle}
      /\ \A b \in Accels \ {a} : curr'[b] = curr[b]
  BY PickNextEffect DEF Inv, Picks, PickFrame
<1>6. /\ holderMap' = [holderMap EXCEPT ![a] = curr'[a].handle]
      /\ grantStage' = [grantStage EXCEPT ![a] = Stage(a)']
  BY <1>2, <1>3, <1>5, OneGrantChanges DEF SameGrant
<1>7. Stage(a)' = IF curr'[a].handle = NoHandle THEN "free" ELSE "granted"
  BY <1>4 DEF Stage
<1>8. grantStage[a] = Stage(a) /\ holderMap[a] = curr[a].handle
  BY StageMap DEF holderMap
<1>9. CASE curr'[a].handle # NoHandle
  <2>1. PICK h \in Handles : h = curr'[a].handle
    BY <1>5, <1>9
  <2>2. Stage(a)' = "granted"
    BY <1>7, <1>9
  <2>3. /\ holderMap' = [holderMap EXCEPT ![a] = h]
        /\ grantStage' = [grantStage EXCEPT ![a] = "granted"]
        /\ grantStage[a] \in {"free", "left"}
    BY <1>6, <1>8, <2>1, <2>2
  <2>4. Grants!Grant(a, h)
    BY <2>3 DEF Grants!Grant, holderMap
  <2> QED BY <2>4 DEF Grants!Next
<1>10. CASE curr'[a].handle = NoHandle /\ Stage(a) = "left"
  <2>1. Stage(a)' = "free"
    BY <1>7, <1>10
  <2>2. /\ holderMap' = [holderMap EXCEPT ![a] = NoHandle]
        /\ grantStage' = [grantStage EXCEPT ![a] = "free"]
        /\ grantStage[a] = "left"
    BY <1>6, <1>8, <1>10, <2>1
  <2>3. Grants!Idle(a)
    BY <2>2 DEF Grants!Idle, holderMap
  <2> QED BY <2>3 DEF Grants!Next
<1>11. CASE curr'[a].handle = NoHandle /\ Stage(a) = "free"
  <2>1. curr[a].handle = NoHandle
    BY <1>11 DEF Stage
  <2>2. holderMap' = holderMap
    BY <1>6, <1>11, <2>1 DEF holderMap
  <2>3. grantStage' = [grantStage EXCEPT ![a] = grantStage[a]]
    BY <1>6, <1>7, <1>8, <1>11
  <2>4. grantStage' = grantStage
    BY <2>3, StageMap
  <2> QED BY <2>2, <2>4 DEF Grants!vars, holderMap
<1> QED BY <1>9, <1>10, <1>11

LEMMA PickIdleGrant ==
  ASSUME Inv, PickIdle
  PROVE  Grants!Next \/ UNCHANGED Grants!vars
<1>1. PICK a \in Accels : a = main.accel
  BY IdleAccelIsFree DEF PickIdle, Inv
<1>2. /\ PickNext(a) /\ curr[a].handle = NoHandle /\ UNCHANGED <<daemon_fifo, disp>>
      /\ \A x \in Handles : se[x].execution_mode # a
  BY <1>1, IdleAccelIsFree DEF PickIdle, Inv, DispatchInv
<1>3. Stage(a) = "free"
  BY <1>2 DEF Stage
<1>4. \A m \in disp : m.accel # a
  <2>1. ASSUME NEW m \in disp, m.accel = a PROVE FALSE
    <3>1. m.from # NoHandle /\ curr[a].handle = m.from
      BY <2>1, LeftFacts, DispatchParts DEF Inv
    <3> QED BY <1>2, <3>1
  <2> QED BY <2>1
<1> QED BY <1>2, <1>3, <1>4, PickNextGrant

LEMMA DispatchNextGrant ==
  ASSUME Inv, DispatchNext
  PROVE  Grants!Next \/ UNCHANGED Grants!vars
<1>1. PICK m \in disp : m.accel # CPU /\ PickNext(m.accel) /\ disp' = {} /\ UNCHANGED daemon_fifo
  BY DEF DispatchNext
<1>2. PICK a \in Accels : a = m.accel
  BY <1>1, LeftAccelIsFree DEF Inv
<1>3. \A x \in Handles : se[x].execution_mode # a
  BY <1>1, <1>2, LeftAccelIsFree DEF Inv
<1>4. Stage(a) \in {"free", "left"}
  BY <1>2, <1>3, FreeAccel DEF Stage, Mailed
<1>5. \A n \in disp : n.accel = a
  BY <1>2 DEF Inv, DispatchInv
<1> QED BY <1>1, <1>2, <1>3, <1>4, <1>5, PickNextGrant

\* The client obeys a RUNON message for an accelerator.
LEMMA InitAccelGrant ==
  ASSUME Inv, NEW h \in Handles, InitAccel(h)
  PROVE  Grants!Next
<1>1. PICK a \in Accels : a = client[h].run_on
  BY DEF InitAccel
<1> DEFINE c == client[h]
           f == fifo[h]
<1>2. /\ c.pc = "loop" /\ ~c.is_finished /\ c.run_on = a
      /\ UNCHANGED <<curr, disp, daemon_fifo>>
      /\ client' = [client EXCEPT ![h] = [@ EXCEPT !.pc = "accel", !.device = a, !.once = FALSE]]
  BY <1>1 DEF InitAccel, schedVars
<1>3. client \in [Handles -> ClientState] /\ JobInv(h)
  BY DEF Inv, JobsInv, TypeInv, DaemonTypeInv, TypeOK
<1>4. /\ client'[h].pc = "accel" /\ client'[h].device = a
      /\ \A x \in Handles \ {h} : client'[x] = client[x]
  BY <1>2, <1>3 DEF ClientState
<1>5. /\ ~Waits(c, f) /\ \A s : ~OnCpu(c, f, s) /\ ~IsDone(c, f, s)
      /\ \A b, s : Uses(c, f, b, s) => a = b
  BY <1>2, ModesDiffer DEF Waits, OnCpu, IsDone, NewClient, Uses, IsGranted, Enters, IsInside
<1>6. se[h].execution_mode = a /\ curr[a].handle = h /\ NoMail(daemon_fifo, h)
  <2> HIDE DEF c, f
  <2>1. h \in se_table /\ se[h].execution_mode # IDLE
    BY <1>2, <1>3, <1>5 DEF JobInv, NoJobInv, IdleInv, c, f
  <2>2. se[h].execution_mode # CPU
    BY <1>3, <1>5, <2>1 DEF JobInv, CpuInv, c, f
  <2>3. PICK b \in Accels : se[h].execution_mode = b
    BY <2>1, <2>2 DEF Inv, TypeInv, DaemonTypeInv, TypeOK, Entity, Modes
  <2>4. AccelInv(h, b)
    BY <1>3, <2>1, <2>3 DEF JobInv
  <2> QED BY <1>5, <2>3, <2>4 DEF AccelInv, AfterAccel, c, f
<1>7. h # NoHandle
  BY DispatchAssumption DEF NoHandle
<1>8. Stage(a) = "granted"
  BY <1>2, <1>6, <1>7, UsedAccel DEF Stage
<1>9. Stage(a)' = "inside"
  BY <1>2, <1>4, <1>6, <1>7 DEF Stage, Inside
<1>10. \A b \in Accels \ {a} : SameGrant(b)
  BY <1>2, <1>4, SameMessages DEF SameGrant, Inside
<1>11. UNCHANGED holderMap /\ grantStage' = [grantStage EXCEPT ![a] = "inside"]
  BY <1>2, <1>9, <1>10, OneGrantChanges DEF holderMap
<1>12. grantStage[a] = "granted"
  BY <1>8, StageMap
<1>13. Grants!Enter(a)
  BY <1>11, <1>12 DEF Grants!Enter, holderMap
<1> QED BY <1>13 DEF Grants!Next

\* free() of the accelerator, and the cleanup message.
LEMMA FreeGrant ==
  ASSUME Inv, NEW h \in Handles, Free(h)
  PROVE  Grants!Next \/ UNCHANGED Grants!vars
<1>1. /\ client[h].pc \in {"accel", "cpu"} /\ client'[h].pc = "loop"
      /\ \A x \in Handles \ {h} : client'[x] = client[x]
      /\ UNCHANGED <<curr, disp>>
      /\ CleanupMessage(h).accel = IF client[h].pc = "accel" THEN client[h].device ELSE CPU
      /\ daemon_fifo' = Append(daemon_fifo, CleanupMessage(h))
      /\ CleanupMessage(h) \in Message
  BY FreeEffect DEF Inv, Msg, schedVars
<1>2. \A b : Queued(b)' <=> Queued(b) \/ CleanupMessage(h).accel = b
  <2>1. daemon_fifo \in Seq(Message)
    BY DEF Inv, TypeInv, DaemonTypeInv, TypeOK
  <2> DEFINE z == Len(daemon_fifo) + 1
  <2>2. /\ DOMAIN daemon_fifo' = DOMAIN daemon_fifo \cup {z}
        /\ daemon_fifo'[z] = CleanupMessage(h)
        /\ \A i \in DOMAIN daemon_fifo : daemon_fifo'[i] = daemon_fifo[i]
    BY <1>1, <2>1
  <2> HIDE DEF z
  <2> QED BY <2>2 DEF Queued
<1>3. CASE client[h].pc = "cpu"
  <2>1. \A b \in Accels : SameGrant(b)
    BY <1>1, <1>2, <1>3, ModesDiffer DEF SameGrant, Inside, Mailed
  <2> QED BY <2>1, NoGrantChanges
<1>4. CASE client[h].pc = "accel"
  <2>1. PICK a \in Accels : a = client[h].device
    BY <1>4, InsideJob DEF Inv, JobsInv
  <2>2. curr[a].handle = h /\ h # NoHandle
    BY <1>4, <2>1, InsideJob, DispatchAssumption DEF Inv, JobsInv, NoHandle
  <2>3. Stage(a) = "inside"
    BY <1>4, <2>1, <2>2 DEF Stage, Inside
  <2>4. ~Inside(a)'
    <3>1. ASSUME NEW x \in Handles, client'[x].pc = "accel", client'[x].device = a PROVE FALSE
      <4>1. x # h /\ client[x].pc = "accel" /\ client[x].device = a
        BY <1>1, <3>1
      <4> QED BY <2>2, <4>1, InsideJob DEF Inv, JobsInv
    <3> QED BY <3>1 DEF Inside
  <2>5. Mailed(a)'
    BY <1>1, <1>2, <1>4, <2>1 DEF Mailed
  <2>6. Stage(a)' = "left"
    BY <1>1, <2>2, <2>4, <2>5 DEF Stage
  <2>7. \A b \in Accels \ {a} : SameGrant(b)
    BY <1>1, <1>2, <1>4, <2>1 DEF SameGrant, Inside, Mailed
  <2>8. UNCHANGED holderMap /\ grantStage' = [grantStage EXCEPT ![a] = "left"]
    BY <1>1, <2>6, <2>7, OneGrantChanges DEF holderMap
  <2>9. grantStage[a] = "inside"
    BY <2>3, StageMap
  <2>10. Grants!Leave(a)
    BY <2>8, <2>9 DEF Grants!Leave, holderMap
  <2> QED BY <2>10 DEF Grants!Next
<1> QED BY <1>1, <1>3, <1>4

\* A step of a client that is neither entering nor leaving an accelerator.
LEMMA OtherClientSteps ==
  ASSUME Inv, NEW h \in Handles,
         \/ Start(h) \/ WaitForRunOn(h) \/ InitCpu(h) \/ Work(h) \/ Close(h) \/ Register(h)
  PROVE  UNCHANGED Grants!vars
<1>1. client \in [Handles -> ClientState] /\ TypeInv
  BY DEF Inv, TypeInv, DaemonTypeInv, TypeOK
<1>2. UNCHANGED <<curr, disp, daemon_fifo>>
  BY DEF Start, WaitForRunOn, InitCpu, Work, Close, Register, schedVars
<1> DEFINE SameUse == /\ (client'[h].pc = "accel") <=> (client[h].pc = "accel")
                      /\ client[h].pc = "accel" => client'[h].device = client[h].device
                      /\ \A x \in Handles \ {h} : client'[x] = client[x]
<1>3. ASSUME NEW c \in ClientState, UpdateRunOn(h, c), c.device = client[h].device,
             (c.pc = "accel") <=> (client[h].pc = "accel")
      PROVE  SameUse
  BY <1>1, <1>3, UpdateRunOnType
<1>4. SameUse
  <2>1. CASE Start(h)
    <3>1. /\ [client[h] EXCEPT !.pc = "loop"] \in ClientState
          /\ [client[h] EXCEPT !.pc = "loop"].pc = "loop"
          /\ [client[h] EXCEPT !.pc = "loop"].device = client[h].device
          /\ client[h].pc = "accepted"
      BY <1>1, <2>1 DEF Start, ClientState
    <3> QED BY <1>3, <2>1, <3>1 DEF Start
  <2>2. CASE WaitForRunOn(h)
    BY <1>1, <1>3, <2>2 DEF WaitForRunOn
  <2>3. CASE InitCpu(h)
    BY <1>1, <2>3 DEF InitCpu, ClientState
  <2>4. CASE Work(h)
    <3>1. PICK done \in BOOLEAN :
            UpdateRunOn(h, [client[h] EXCEPT !.is_finished = done, !.once = TRUE])
      BY <2>4 DEF Work
    <3>2. /\ [client[h] EXCEPT !.is_finished = done, !.once = TRUE] \in ClientState
          /\ [client[h] EXCEPT !.is_finished = done, !.once = TRUE].pc = client[h].pc
          /\ [client[h] EXCEPT !.is_finished = done, !.once = TRUE].device = client[h].device
      BY <1>1 DEF ClientState
    <3> QED BY <1>3, <3>1, <3>2
  <2>5. CASE Close(h)
    BY <1>1, <2>5 DEF Close, NewClient
  <2>6. CASE Register(h)
    BY <1>1, <2>6 DEF Register, ClientState
  <2> QED BY <2>1, <2>2, <2>3, <2>4, <2>5, <2>6
<1>5. \A a \in Accels : Inside(a)' <=> Inside(a)
  BY <1>4, SameInside
<1> QED BY <1>2, <1>5, SameMessages, NoGrantChanges DEF SameGrant

\* The daemon's other steps; handle_cleanup moves a message from the FIFO to
\* the dispatcher.
LEMMA OtherDaemonSteps ==
  ASSUME Inv,
         \/ HandleCleanup \/ DispatchNothing \/ EndTick
         \/ \E l \in Handles : UpdateCurr(l)
         \/ UNCHANGED <<curr, disp, daemon_fifo, client>>
  PROVE  UNCHANGED Grants!vars
<1>1. CASE UNCHANGED <<curr, disp, daemon_fifo, client>>
  <2>1. \A a \in Accels : SameGrant(a)
    BY <1>1 DEF SameGrant, Inside, Mailed, Queued
  <2> QED BY <2>1, NoGrantChanges
<1>2. CASE HandleCleanup
  <2>1. /\ daemon_fifo \in Seq(Message) /\ daemon_fifo # <<>> /\ daemon_fifo' = Tail(daemon_fifo)
        /\ disp = {} /\ disp' = {Head(daemon_fifo)} /\ UNCHANGED <<curr, client>>
    BY <1>2, HandleCleanupEffect DEF Inv
  <2> DEFINE q == daemon_fifo
             r == Tail(daemon_fifo)
  <2>2. /\ 1 \in DOMAIN q /\ Head(q) = q[1]
        /\ \A i \in DOMAIN r : i + 1 \in DOMAIN q /\ r[i] = q[i + 1]
        /\ \A i \in DOMAIN q : i # 1 => i - 1 \in DOMAIN r /\ r[i - 1] = q[i]
    BY <2>1, TailIndices
  <2>3. ASSUME NEW a \in Accels PROVE Mailed(a)' <=> Mailed(a)
    <3> HIDE DEF q, r
    <3>1. (\E i \in DOMAIN q : q[i].accel = a)
            <=> Head(q).accel = a \/ \E i \in DOMAIN r : r[i].accel = a
      BY <2>2
    <3> QED BY <2>1, <3>1 DEF Mailed, Queued, q, r
  <2>4. \A a \in Accels : SameGrant(a)
    BY <2>1, <2>3 DEF SameGrant, Inside
  <2> QED BY <2>4, NoGrantChanges
<1>3. CASE DispatchNothing
  <2>1. /\ UNCHANGED <<curr, client, daemon_fifo>>
        /\ \A m \in disp : m.accel = CPU
        /\ disp' = {}
    BY <1>3 DEF DispatchNothing, Inv, DispatchInv, schedVars
  <2>2. \A a \in Accels : SameGrant(a)
    BY <2>1, ModesDiffer DEF SameGrant, Inside, Mailed, Queued
  <2> QED BY <2>2, NoGrantChanges
<1>4. CASE EndTick
  <2>1. UNCHANGED <<curr, disp, daemon_fifo>>
    BY <1>4 DEF EndTick, schedVars
  <2>2. ASSUME NEW x \in Handles
        PROVE  /\ (client'[x].pc = "accel") <=> (client[x].pc = "accel")
               /\ client[x].pc = "accel" => client'[x].device = client[x].device
    <3>1. client \in [Handles -> ClientState]
      BY DEF Inv, TypeInv, DaemonTypeInv, TypeOK
    <3>2. CASE x # main.job
      BY <1>4, <3>2 DEF EndTick
    <3>3. CASE x = main.job
      <4>1. client[x].pc = "registering"
        BY <3>3, DispatchAssumption DEF Inv, DispatchInv, NoHandle
      <4>2. client'[x].pc = "accepted"
        BY <1>4, <3>1, <3>3 DEF EndTick, ClientState
      <4> QED BY <4>1, <4>2
    <3> QED BY <3>2, <3>3
  <2> QED BY <2>1, <2>2, SameInside, SameMessages, NoGrantChanges DEF SameGrant
<1>5. ASSUME NEW l \in Handles, UpdateCurr(l) PROVE UNCHANGED Grants!vars
  <2>1. PICK a \in Accels, h \in Handles : UpdateEffect(a, h, l)
    BY <1>5, UpdateCurrEffect DEF Inv
  <2>2. /\ \A b \in Accels : curr'[b].handle = curr[b].handle
        /\ UNCHANGED <<disp, daemon_fifo, client>>
    BY <2>1 DEF UpdateEffect
  <2>3. \A b \in Accels : SameGrant(b)
    BY <2>2 DEF SameGrant, Inside, Mailed, Queued
  <2> QED BY <2>3, NoGrantChanges
<1> QED BY <1>1, <1>2, <1>3, <1>4, <1>5

LEMMA GrantStep ==
  ASSUME Inv, [Next]_vars
  PROVE  [Grants!Next]_(Grants!vars)
<1>1. CASE UNCHANGED <<curr, disp, daemon_fifo, client>>
  BY <1>1, OtherDaemonSteps
<1>2. ASSUME NEW h \in Handles, Client(h) PROVE [Grants!Next]_(Grants!vars)
  BY <1>2, InitAccelGrant, FreeGrant, OtherClientSteps DEF Client
<1>3. CASE Main
  BY <1>1, <1>3, PickIdleGrant, OtherDaemonSteps
     DEF Main, schedVars, AddJob, PeriodicTick, StartTick, CheckCurr, UpdateNothing,
         SendFails, RemoveFails, Dexit, RemoveJob, EndRemove
<1>4. CASE Dispatcher
  BY <1>4, DispatchNextGrant, OtherDaemonSteps DEF Dispatcher
<1>5. ASSUME NEW h \in Handles, Register(h) PROVE [Grants!Next]_(Grants!vars)
  BY <1>5, OtherClientSteps
<1> QED BY <1>1, <1>2, <1>3, <1>4, <1>5 DEF Next, vars, schedVars

LEMMA GrantInit ==
  ASSUME Init
  PROVE  Grants!Init
<1>1. \A a \in Accels : curr[a].handle = NoHandle
  BY DEF Init, EmptyCurr
<1>2. grantStage = [a \in Accels |-> "free"]
  BY <1>1, StageMap DEF Stage
<1> QED BY <1>1, <1>2 DEF Grants!Init

\* The scheduler implements AcceleratorGrant: a job enters an accelerator at
\* most once per RUNON message, and an accelerator is given to another job, or
\* left idle, only after the cleanup message of the last one was handled.
THEOREM SchedulerImplementsGrants == Spec => ImplementsGrants
<1>1. Init => Grants!Init
  BY GrantInit
<1>2. Inv /\ [Next]_vars => [Grants!Next]_(Grants!vars)
  BY GrantStep
<1> QED BY <1>1, <1>2, InductiveInvariant, PTL DEF Spec, ImplementsGrants, Grants!Spec
===============================================================================
