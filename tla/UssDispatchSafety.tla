--------------------------- MODULE UssDispatchSafety ---------------------------
(***************************************************************************)
(* The inductive invariant of UssDispatch and the safety theorems that     *)
(* follow from it, for every set of handles and accelerators, for both     *)
(* builds (with and without USS_BLUEMODE) and for every bound on the clock.*)
(*                                                                         *)
(* The argument.  JobInv follows one job through the protocol between the  *)
(* daemon and its client: what the daemon believes (execution_mode)        *)
(* determines, up to the messages on their way, what the client does.  A   *)
(* job that is believed to be on an accelerator is the current job of its  *)
(* run queue (AccelInv), and pick_next only gives an accelerator away when *)
(* curr is empty or when the last user's cleanup message is being handled  *)
(* (DispatchInv); so a client inside is always current.                    *)
(*                                                                         *)
(* What a client does is said by operators of its record c and its FIFO f, *)
(* and what the dispatcher has not read by operators of the FIFO q.        *)
(***************************************************************************)
EXTENDS UssDispatchProofs

--------------------------------------------------------------------------------
(* The invariant.                                                            *)

Msg(h, m, fin) == [from |-> h, accel |-> m, is_finished |-> fin]

\* The messages of h in q: none, only m, only m and then n.
NoMail(q, h) == \A i \in DOMAIN q : q[i].from # h
OnlyMail(q, h, m) ==
  \E i \in DOMAIN q : q[i] = m /\ \A k \in DOMAIN q : q[k].from = h => k = i
TwoMails(q, h, m, n) ==
  \E i, j \in DOMAIN q : /\ i < j /\ q[i] = m /\ q[j] = n
                         /\ \A k \in DOMAIN q : q[k].from = h => k \in {i, j}

\* The client reads its FIFO and is inside of nothing.
Listens(c) == c.pc \in {"registering", "accepted", "loop"} /\ ~c.is_finished

Waits(c, f) == Listens(c) /\ c.run_on = IDLE /\ f = <<>>

\* A grant of a is unread; sent: a preemption was sent after it.
IsGranted(c, f, a, sent) == /\ Listens(c) /\ c.run_on = IDLE
                            /\ f = IF sent THEN <<a, IdleMode>> ELSE <<a>>

Enters(c, f, a, sent) == /\ c.pc = "loop" /\ ~c.is_finished /\ c.run_on = a
                         /\ f = IF sent THEN <<IdleMode>> ELSE <<>>

IsInside(c, f, a, sent) ==
  /\ c.pc = "accel" /\ c.device = a
  /\ \/ c.run_on = a /\ f = IF sent THEN <<IdleMode>> ELSE <<>>
     \/ sent /\ c.run_on = IdleMode /\ f = <<>>

Uses(c, f, a, sent) == \/ IsGranted(c, f, a, sent)
                       \/ Enters(c, f, a, sent)
                       \/ IsInside(c, f, a, sent)

\* On the CPU, or on the way there; sent: it was called back.
OnCpu(c, f, sent) ==
  \/ /\ (c.pc = "loop" /\ ~c.is_finished) \/ c.pc = "cpu"
     /\ c.run_on = CPU
     /\ f = IF sent THEN <<IDLE>> ELSE <<>>
  \/ sent /\ c.pc = "cpu" /\ c.run_on = IDLE /\ f = <<>>

\* The work is done and the daemon was told; sent: an unread message to leave
\* may be there.
IsDone(c, f, sent) ==
  \/ c = NewClient /\ f = <<>>
  \/ /\ c.pc = "loop" /\ c.is_finished
     /\ f = <<>> \/ (sent /\ f \in {<<IDLE>>, <<CPU>>})

\* What a client does after it has left an accelerator on the daemon's demand.
AfterAccel(c, f) == IF BlueMode THEN OnCpu(c, f, FALSE) ELSE Waits(c, f)

\* The job is believed to be on accelerator a.
AccelInv(h, a) ==
  LET sent == curr[a].already_send_message
  IN /\ curr[a].handle = h
     /\ ~se[h].is_finished /\ ~se[h].already_send_free_cpu
     /\ sent => se[h].next_execution_mode = IdleMode
     /\ \/ NoMail(daemon_fifo, h) /\ Uses(client[h], fifo[h], a, sent)
        \/ /\ OnlyMail(daemon_fifo, h, Msg(h, a, TRUE))
           /\ IsDone(client[h], fifo[h], sent)
        \/ /\ sent
           /\ OnlyMail(daemon_fifo, h, Msg(h, a, FALSE))
           /\ AfterAccel(client[h], fifo[h])
        \/ /\ BlueMode /\ sent
           /\ TwoMails(daemon_fifo, h, Msg(h, a, FALSE), Msg(h, CPU, TRUE))
           /\ IsDone(client[h], fifo[h], FALSE)

\* The job is believed to be on the CPU.
CpuInv(h) ==
  LET sent == se[h].already_send_free_cpu
  IN /\ sent => se[h].next_execution_mode = IDLE /\ ~se[h].is_finished
     /\ \/ /\ NoMail(daemon_fifo, h) /\ ~se[h].is_finished
           /\ OnCpu(client[h], fifo[h], sent)
        \/ /\ NoMail(daemon_fifo, h) /\ se[h].is_finished
           /\ IsDone(client[h], fifo[h], TRUE)
        \/ /\ OnlyMail(daemon_fifo, h, Msg(h, CPU, TRUE)) /\ ~se[h].is_finished
           /\ IsDone(client[h], fifo[h], sent)
        \/ /\ OnlyMail(daemon_fifo, h, Msg(h, CPU, FALSE)) /\ ~se[h].is_finished
           /\ sent /\ Waits(client[h], fifo[h])

\* The job is believed to do nothing.
IdleInv(h) ==
  /\ NoMail(daemon_fifo, h)
  /\ ~se[h].already_send_free_cpu
  /\ IF se[h].is_finished THEN IsDone(client[h], fifo[h], TRUE)
     ELSE Waits(client[h], fifo[h])

\* There is no such job; its client may not have closed its FIFO yet.
NoJobInv(h) ==
  /\ NoMail(daemon_fifo, h)
  /\ se[h] = NewEntity(NoAccel)
  /\ h \notin tokill_list
  /\ \/ IsDone(client[h], fifo[h], TRUE)
     \/ client[h].pc = "registering" /\ Waits(client[h], fifo[h])

JobInv(h) ==
  /\ h \notin se_table => NoJobInv(h)
  /\ h \in se_table =>
       /\ se[h].next_execution_mode \in {IDLE, CPU}
       /\ h \in tokill_list => se[h].is_finished
       /\ se[h].execution_mode = IDLE => IdleInv(h)
       /\ se[h].execution_mode = CPU => CpuInv(h)
       /\ \A a \in Accels : se[h].execution_mode = a => AccelInv(h, a)

\* The message m with which the current job left an accelerator is being
\* handled: the daemon believes that it left, since it was done or preempted.
LeftInv(m) ==
  /\ curr[m.accel].handle = m.from
  /\ se[m.from].execution_mode \notin Accels
  /\ m.is_finished => /\ se[m.from].is_finished
                      /\ IsDone(client[m.from], fifo[m.from],
                                curr[m.accel].already_send_message)
  /\ m.is_finished \/ curr[m.accel].already_send_message

\* The current job of a run queue is on the accelerator, or the message with
\* which it left is being handled; only the latter, or an empty queue that the
\* main thread has found, lets pick_next give the accelerator away.
DispatchInv ==
  /\ \A m, n \in disp : m = n
  /\ \A m \in disp : m.accel \in Accels => LeftInv(m)
  /\ \A a \in Accels : curr[a].handle # NoHandle =>
       \/ se[curr[a].handle].execution_mode = a
       \/ \E m \in disp : m.accel = a
  /\ main.pc = "pick" => curr[main.accel].handle = NoHandle
  /\ main.job # NoHandle => main.job \in se_table /\ client[main.job].pc = "registering"

JobsInv == \A h \in Handles : JobInv(h)

\* The inductive invariant.
Inv == TypeInv /\ QueueInv /\ DispatchInv /\ JobsInv



--------------------------------------------------------------------------------
(* The messages in the dispatcher's FIFO.                                    *)

\* A message of another job changes nothing for h.
LEMMA MailAppendOther ==
  ASSUME NEW q \in Seq(Message), NEW h \in Handles, NEW x \in Message, x.from # h
  PROVE  LET r == Append(q, x) IN
         /\ NoMail(q, h) => NoMail(r, h)
         /\ \A m \in Message : OnlyMail(q, h, m) => OnlyMail(r, h, m)
         /\ \A m, n \in Message : TwoMails(q, h, m, n) => TwoMails(r, h, m, n)
<1> DEFINE r == Append(q, x)
<1>1. DOMAIN r = DOMAIN q \cup {Len(q) + 1} /\ r[Len(q) + 1] = x
  OBVIOUS
<1>2. \A i \in DOMAIN q : r[i] = q[i]
  OBVIOUS
<1> HIDE DEF r
<1>3. NoMail(q, h) => NoMail(r, h)
  BY <1>1, <1>2 DEF NoMail
<1>4. ASSUME NEW m \in Message, OnlyMail(q, h, m) PROVE OnlyMail(r, h, m)
  BY <1>1, <1>2, <1>4 DEF OnlyMail
<1>5. ASSUME NEW m \in Message, NEW n \in Message, TwoMails(q, h, m, n)
      PROVE  TwoMails(r, h, m, n)
  <2>1. PICK i, j \in DOMAIN q : /\ i < j /\ q[i] = m /\ q[j] = n
                                 /\ \A k \in DOMAIN q : q[k].from = h => k \in {i, j}
    BY <1>5 DEF TwoMails
  <2>2. i \in DOMAIN r /\ j \in DOMAIN r /\ i < j /\ r[i] = m /\ r[j] = n
    BY <1>1, <1>2, <2>1
  <2>3. \A k \in DOMAIN r : r[k].from = h => k \in {i, j}
    BY <1>1, <1>2, <2>1
  <2> QED BY <2>2, <2>3 DEF TwoMails
<1> QED BY <1>3, <1>4, <1>5 DEF r

\* A message of h comes after the one that is there.
LEMMA MailAppendOwn ==
  ASSUME NEW q \in Seq(Message), NEW h \in Handles, NEW x \in Message, x.from = h
  PROVE  LET r == Append(q, x) IN
         /\ NoMail(q, h) => OnlyMail(r, h, x)
         /\ \A m \in Message : OnlyMail(q, h, m) => TwoMails(r, h, m, x)
<1> DEFINE r == Append(q, x)
           z == Len(q) + 1
<1>1. DOMAIN r = DOMAIN q \cup {z} /\ r[z] = x
  OBVIOUS
<1>2. \A i \in DOMAIN q : r[i] = q[i] /\ i < z
  OBVIOUS
<1> HIDE DEF r, z
<1>3. NoMail(q, h) => OnlyMail(r, h, x)
  BY <1>1, <1>2 DEF NoMail, OnlyMail
<1>4. ASSUME NEW m \in Message, OnlyMail(q, h, m) PROVE TwoMails(r, h, m, x)
  <2>1. PICK i \in DOMAIN q : q[i] = m /\ \A k \in DOMAIN q : q[k].from = h => k = i
    BY <1>4 DEF OnlyMail
  <2>2. i \in DOMAIN r /\ z \in DOMAIN r /\ i < z /\ r[i] = m /\ r[z] = x
    BY <1>1, <1>2, <2>1
  <2>3. \A k \in DOMAIN r : r[k].from = h => k \in {i, z}
    BY <1>1, <1>2, <2>1
  <2> QED BY <2>2, <2>3 DEF TwoMails
<1> QED BY <1>3, <1>4 DEF r

LEMMA TailIndices ==
  ASSUME NEW q \in Seq(Message), q # <<>>
  PROVE  /\ Tail(q) \in Seq(Message) /\ 1 \in DOMAIN q /\ Head(q) = q[1]
         /\ \A i \in DOMAIN Tail(q) : i + 1 \in DOMAIN q /\ Tail(q)[i] = q[i + 1] /\ i \in Nat
         /\ \A i \in DOMAIN q : i # 1 => i - 1 \in DOMAIN Tail(q) /\ Tail(q)[i - 1] = q[i]
         /\ \A i \in DOMAIN q : i \in Nat /\ i >= 1
OBVIOUS

\* The message at the head is not one of h.
LEMMA MailTailOther ==
  ASSUME NEW q \in Seq(Message), q # <<>>, NEW h \in Handles, Head(q).from # h
  PROVE  LET r == Tail(q) IN
         /\ NoMail(q, h) => NoMail(r, h)
         /\ \A m \in Message : m.from = h => (OnlyMail(q, h, m) => OnlyMail(r, h, m))
         /\ \A m, n \in Message : m.from = h /\ n.from = h
                                    => (TwoMails(q, h, m, n) => TwoMails(r, h, m, n))
<1> DEFINE r == Tail(q)
<1>1. /\ 1 \in DOMAIN q /\ Head(q) = q[1]
      /\ \A i \in DOMAIN r : i + 1 \in DOMAIN q /\ r[i] = q[i + 1] /\ i \in Nat
      /\ \A i \in DOMAIN q : i # 1 => i - 1 \in DOMAIN r /\ r[i - 1] = q[i]
      /\ \A i \in DOMAIN q : i \in Nat /\ i >= 1
  BY TailIndices
<1> HIDE DEF r
<1>3. NoMail(q, h) => NoMail(r, h)
  BY <1>1 DEF NoMail
<1>4. ASSUME NEW m \in Message, m.from = h, OnlyMail(q, h, m) PROVE OnlyMail(r, h, m)
  <2>1. PICK i \in DOMAIN q : q[i] = m /\ \A k \in DOMAIN q : q[k].from = h => k = i
    BY <1>4 DEF OnlyMail
  <2>2. i # 1 /\ i - 1 \in DOMAIN r /\ r[i - 1] = m
    BY <1>1, <1>4, <2>1
  <2>3. ASSUME NEW k \in DOMAIN r, r[k].from = h PROVE k = i - 1
    <3>1. k + 1 \in DOMAIN q /\ q[k + 1].from = h /\ k \in Nat /\ i \in Nat
      BY <1>1, <2>3
    <3>2. k + 1 = i
      BY <2>1, <3>1
    <3> QED BY <3>1, <3>2
  <2> QED BY <2>2, <2>3 DEF OnlyMail
<1>5. ASSUME NEW m \in Message, NEW n \in Message, m.from = h, n.from = h,
             TwoMails(q, h, m, n)
      PROVE  TwoMails(r, h, m, n)
  <2>1. PICK i, j \in DOMAIN q : /\ i < j /\ q[i] = m /\ q[j] = n
                                 /\ \A k \in DOMAIN q : q[k].from = h => k \in {i, j}
    BY <1>5 DEF TwoMails
  <2>2. i # 1 /\ j # 1 /\ i \in Nat /\ j \in Nat
    BY <1>1, <1>5, <2>1
  <2>3. i - 1 \in DOMAIN r /\ r[i - 1] = m /\ j - 1 \in DOMAIN r /\ r[j - 1] = n
    BY <1>1, <2>1, <2>2
  <2>4. i - 1 < j - 1
    BY <2>1, <2>2
  <2>5. ASSUME NEW k \in DOMAIN r, r[k].from = h PROVE k \in {i - 1, j - 1}
    <3>1. k + 1 \in DOMAIN q /\ q[k + 1].from = h /\ k \in Nat
      BY <1>1, <2>5
    <3>2. k + 1 \in {i, j}
      BY <2>1, <3>1
    <3> QED BY <2>2, <3>1, <3>2
  <2> QED BY <2>3, <2>4, <2>5 DEF TwoMails
<1> QED BY <1>3, <1>4, <1>5 DEF r

\* The message at the head is the first of h.
LEMMA MailTailOwn ==
  ASSUME NEW q \in Seq(Message), q # <<>>, NEW h \in Handles, Head(q).from = h
  PROVE  LET r == Tail(q) IN
         /\ ~NoMail(q, h)
         /\ \A m \in Message : OnlyMail(q, h, m) => m = Head(q) /\ NoMail(r, h)
         /\ \A m, n \in Message : m.from = h /\ n.from = h
              => (TwoMails(q, h, m, n) => m = Head(q) /\ OnlyMail(r, h, n))
<1> DEFINE r == Tail(q)
<1>1. /\ 1 \in DOMAIN q /\ Head(q) = q[1]
      /\ \A i \in DOMAIN r : i + 1 \in DOMAIN q /\ r[i] = q[i + 1] /\ i \in Nat
      /\ \A i \in DOMAIN q : i # 1 => i - 1 \in DOMAIN r /\ r[i - 1] = q[i]
      /\ \A i \in DOMAIN q : i \in Nat /\ i >= 1
  BY TailIndices
<1> HIDE DEF r
<1>3. ~NoMail(q, h)
  BY <1>1 DEF NoMail
<1>4. ASSUME NEW m \in Message, OnlyMail(q, h, m) PROVE m = Head(q) /\ NoMail(r, h)
  <2>1. PICK i \in DOMAIN q : q[i] = m /\ \A k \in DOMAIN q : q[k].from = h => k = i
    BY <1>4 DEF OnlyMail
  <2>2. i = 1
    BY <1>1, <2>1
  <2>3. ASSUME NEW k \in DOMAIN r PROVE r[k].from # h
    <3>1. k + 1 \in DOMAIN q /\ q[k + 1] = r[k] /\ k \in Nat /\ k + 1 >= 1
      BY <1>1
    <3>2. k >= 1
      BY <2>3 DEF r
    <3> QED BY <2>1, <2>2, <3>1, <3>2
  <2> QED BY <1>1, <2>1, <2>2, <2>3 DEF NoMail
<1>5. ASSUME NEW m \in Message, NEW n \in Message, m.from = h, n.from = h,
             TwoMails(q, h, m, n)
      PROVE  m = Head(q) /\ OnlyMail(r, h, n)
  <2>1. PICK i, j \in DOMAIN q : /\ i < j /\ q[i] = m /\ q[j] = n
                                 /\ \A k \in DOMAIN q : q[k].from = h => k \in {i, j}
    BY <1>5 DEF TwoMails
  <2>2. i = 1 /\ j # 1 /\ j \in Nat
    BY <1>1, <2>1
  <2>3. j - 1 \in DOMAIN r /\ r[j - 1] = n
    BY <1>1, <2>1, <2>2
  <2>4. ASSUME NEW k \in DOMAIN r, r[k].from = h PROVE k = j - 1
    <3>1. k + 1 \in DOMAIN q /\ q[k + 1].from = h /\ k \in Nat
      BY <1>1, <2>4
    <3>2. k >= 1
      BY <2>4 DEF r
    <3>3. k + 1 = j
      BY <2>1, <2>2, <3>1, <3>2
    <3> QED BY <2>2, <3>1, <3>3
  <2> QED BY <1>1, <2>1, <2>2, <2>3, <2>4 DEF OnlyMail
<1> QED BY <1>3, <1>4, <1>5 DEF r

--------------------------------------------------------------------------------
(* A step that does not concern a job.                                       *)

\* What h sent and what is still to be read of it is the same.
MailFrame(h) ==
  /\ NoMail(daemon_fifo, h) => NoMail(daemon_fifo', h)
  /\ \A m \in Message : m.from = h => (OnlyMail(daemon_fifo, h, m) => OnlyMail(daemon_fifo', h, m))
  /\ \A m, n \in Message : m.from = h /\ n.from = h =>
       (TwoMails(daemon_fifo, h, m, n) => TwoMails(daemon_fifo', h, m, n))

\* What the daemon believes of h is the same.
BeliefFrame(h) ==
  /\ se'[h].is_finished = se[h].is_finished
  /\ se'[h].execution_mode = se[h].execution_mode
  /\ se'[h].next_execution_mode = se[h].next_execution_mode
  /\ se'[h].already_send_free_cpu = se[h].already_send_free_cpu
  /\ h \notin se_table => se'[h] = se[h]
  /\ (h \in se_table') = (h \in se_table)
  /\ h \in tokill_list' => h \in tokill_list
  /\ \A a \in Accels : se[h].execution_mode = a =>
       /\ curr'[a].handle = curr[a].handle
       /\ curr'[a].already_send_message = curr[a].already_send_message

\* What the client of h does, with what is in its FIFO, is of the same kind.
ClientFrame(h) ==
  /\ Waits(client[h], fifo[h]) => Waits(client'[h], fifo'[h])
  /\ \A a \in Accels, s \in BOOLEAN :
       Uses(client[h], fifo[h], a, s) => Uses(client'[h], fifo'[h], a, s)
  /\ \A s \in BOOLEAN : OnCpu(client[h], fifo[h], s) => OnCpu(client'[h], fifo'[h], s)
  /\ \A s \in BOOLEAN : IsDone(client[h], fifo[h], s) => IsDone(client'[h], fifo'[h], s)
  /\ h \notin se_table /\ client[h].pc = "registering" => client'[h].pc = "registering"

LEMMA MsgType ==
  ASSUME NEW h \in Handles, NEW a \in Accels \cup {CPU}, NEW fin \in BOOLEAN
  PROVE  Msg(h, a, fin) \in Message /\ Msg(h, a, fin).from = h
BY DEF Msg, Message

LEMMA SameClient ==
  ASSUME NEW h, client'[h] = client[h], fifo'[h] = fifo[h] PROVE ClientFrame(h)
BY DEF ClientFrame

LEMMA SameMail == ASSUME NEW h, UNCHANGED daemon_fifo PROVE MailFrame(h)
BY DEF MailFrame

LEMMA SameJob ==
  ASSUME TypeInv, NEW h \in Handles, JobInv(h), ClientFrame(h), MailFrame(h), BeliefFrame(h)
  PROVE  JobInv(h)'
<1> USE MsgType
<1>0. /\ se[h].already_send_free_cpu \in BOOLEAN
      /\ \A a \in Accels : curr[a].already_send_message \in BOOLEAN
  BY DEF TypeInv, DaemonTypeInv, TypeOK, Entity, CurrState
<1>1. CASE h \notin se_table
  <2>1. NoJobInv(h)
    BY <1>1 DEF JobInv
  <2>2. NoJobInv(h)'
    BY <1>1, <2>1 DEF NoJobInv, ClientFrame, MailFrame, BeliefFrame
  <2> QED BY <1>1, <2>2 DEF JobInv, BeliefFrame
<1>2. CASE h \in se_table
  <2>1. se[h].execution_mode = IDLE => IdleInv(h)'
    <3>1. SUFFICES ASSUME IdleInv(h) PROVE IdleInv(h)'
      BY <1>2 DEF JobInv
    <3> QED BY <1>2, <3>1 DEF IdleInv, ClientFrame, MailFrame, BeliefFrame
  <2>2. se[h].execution_mode = CPU => CpuInv(h)'
    <3>1. SUFFICES ASSUME CpuInv(h) PROVE CpuInv(h)'
      BY <1>2 DEF JobInv
    <3> DEFINE done == Msg(h, CPU, TRUE)
               left == Msg(h, CPU, FALSE)
    <3>2. done \in Message /\ done.from = h /\ left \in Message /\ left.from = h
      OBVIOUS
    <3> HIDE DEF done, left
    <3> QED BY <1>0, <1>2, <3>1, <3>2 DEF CpuInv, ClientFrame, MailFrame, BeliefFrame, done, left
  <2>3. ASSUME NEW a \in Accels, se[h].execution_mode = a PROVE AccelInv(h, a)'
    <3>1. AccelInv(h, a)
      BY <1>2, <2>3 DEF JobInv
    <3> DEFINE done == Msg(h, a, TRUE)
               left == Msg(h, a, FALSE)
               later == Msg(h, CPU, TRUE)
    <3>2. /\ done \in Message /\ done.from = h /\ left \in Message /\ left.from = h
          /\ later \in Message /\ later.from = h
      OBVIOUS
    <3>3. /\ curr'[a].handle = curr[a].handle
          /\ curr'[a].already_send_message = curr[a].already_send_message
      BY <2>3 DEF BeliefFrame
    <3> HIDE DEF done, left, later
    <3> QED BY <1>0, <1>2, <3>1, <3>2, <3>3
            DEF AccelInv, AfterAccel, ClientFrame, MailFrame, BeliefFrame, done, left, later
  <2> QED BY <1>2, <2>1, <2>2, <2>3 DEF JobInv, BeliefFrame
<1> QED BY <1>1, <1>2

--------------------------------------------------------------------------------
(* pick_next.                                                                *)

\* pick_next of a makes h current.
Picks(a, h) ==
  /\ h \in Handles /\ h \in se_table
  /\ se[h].enqueued_in = a /\ ~se[h].is_finished /\ se[h].execution_mode = IDLE
  /\ curr'[a].handle = h /\ curr'[a].already_send_message = FALSE
  /\ se'[h].execution_mode = a
  /\ se'[h].is_finished = se[h].is_finished
  /\ se'[h].next_execution_mode = se[h].next_execution_mode
  /\ se'[h].already_send_free_cpu = se[h].already_send_free_cpu
  /\ fifo'[h] = Append(fifo[h], a)

\* What pick_next leaves alone: the other queues, and all jobs but h.
PickFrame(a, h) ==
  /\ \A b \in Accels \ {a} : curr'[b] = curr[b]
  /\ \A x \in Handles \ {h} : se'[x] = se[x] /\ fifo'[x] = fifo[x]
  /\ UNCHANGED <<se_table, tokill_list, client>>

LEMMA PickNextEffect ==
  ASSUME TypeInv, QueueInv, NEW a \in Accels, PickNext(a)
  PROVE  \/ curr'[a].handle = NoHandle /\ PickFrame(a, NoHandle)
         \/ \E h \in Handles : Picks(a, h) /\ PickFrame(a, h)
<1> USE DEF TypeInv, DaemonTypeInv, TypeOK
<1>1. CASE curr' = [curr EXCEPT ![a] = EmptyCurr] /\ UNCHANGED <<se, fifo>>
  <2>1. curr'[a].handle = NoHandle /\ \A b \in Accels \ {a} : curr'[b] = curr[b]
    BY <1>1 DEF EmptyCurr
  <2> QED BY <1>1, <2>1 DEF PickNext, PickFrame
<1>2. ASSUME NEW e \in Pickable(a),
             curr' = [curr EXCEPT ![a] = [handle |-> e.handle,
                                          already_send_message |-> FALSE,
                                          exec_start |-> clock]],
             se' = [se EXCEPT ![e.handle] =
                        [@ EXCEPT !.execution_mode = a,
                                  !.min_granularity = MinGranularity(a, e)]],
             fifo' = [fifo EXCEPT ![e.handle] = Append(@, a)]
      PROVE  \E h \in Handles : Picks(a, h) /\ PickFrame(a, h)
  <2> DEFINE h == e.handle
             g == MinGranularity(a, e)
  <2>1. /\ h \in se_table /\ se[h].enqueued_in = a
        /\ ~se[h].is_finished /\ se[h].execution_mode = IDLE
    BY <1>2 DEF Pickable, QueueInv, TreesMatchEntities
  <2>2. h \in Handles /\ se[h] \in Entity
    BY <2>1
  <2>3. curr'[a].handle = h /\ curr'[a].already_send_message = FALSE
    BY <1>2
  <2>4. \A b \in Accels \ {a} : curr'[b] = curr[b]
    BY <1>2
  <2>5. fifo'[h] = Append(fifo[h], a) /\ \A x \in Handles \ {h} : fifo'[x] = fifo[x]
    BY <1>2, <2>2
  <2>6. /\ se'[h] = [se[h] EXCEPT !.execution_mode = a, !.min_granularity = g]
        /\ \A x \in Handles \ {h} : se'[x] = se[x]
    BY <1>2, <2>2
  <2> HIDE DEF h, g
  <2>7. /\ se'[h].execution_mode = a
        /\ se'[h].is_finished = se[h].is_finished
        /\ se'[h].next_execution_mode = se[h].next_execution_mode
        /\ se'[h].already_send_free_cpu = se[h].already_send_free_cpu
    BY <2>2, <2>6 DEF Entity
  <2> QED BY <2>1, <2>2, <2>3, <2>4, <2>5, <2>6, <2>7 DEF Picks, PickFrame, PickNext
<1> QED BY <1>1, <1>2 DEF PickNext

\* It changes no job of another queue.
LEMMA PickNextFrame ==
  ASSUME TypeInv, QueueInv, NEW a \in Accels, PickNext(a)
  PROVE  \E h : PickFrame(a, h) /\ (h \in Handles => se[h].enqueued_in = a)
<1>1. CASE PickFrame(a, NoHandle)
  <2>1. NoHandle \notin Handles
    BY DispatchAssumption DEF NoHandle
  <2> QED BY <1>1, <2>1
<1>2. ASSUME NEW h \in Handles, Picks(a, h), PickFrame(a, h)
      PROVE  PickFrame(a, h) /\ (h \in Handles => se[h].enqueued_in = a)
  BY <1>2 DEF Picks
<1>3. \/ PickFrame(a, NoHandle)
      \/ \E h \in Handles : Picks(a, h) /\ PickFrame(a, h)
  BY PickNextEffect
<1> QED BY <1>1, <1>2, <1>3

\* Only the current job of a run queue is believed to be on its accelerator.
LEMMA OnlyCurrentRuns ==
  ASSUME NEW x \in Handles, JobInv(x), NEW a \in Accels, se[x].execution_mode = a
  PROVE  curr[a].handle = x
<1>1. IDLE # a
  BY DispatchAssumption
<1>2. x \in se_table
  <2>1. NewEntity(NoAccel).execution_mode = IDLE
    BY DEF NewEntity
  <2> QED BY <1>1, <2>1 DEF JobInv, NoJobInv
<1> QED BY <1>2 DEF JobInv, AccelInv

\* A job that is picked waits; it is granted the accelerator.
LEMMA PickedJob ==
  ASSUME NEW h, JobInv(h), NEW a \in Accels, Picks(a, h), UNCHANGED <<daemon_fifo, client>>,
         UNCHANGED <<se_table, tokill_list>>
  PROVE  JobInv(h)'
<1>1. /\ NoMail(daemon_fifo, h) /\ Waits(client[h], fifo[h])
      /\ ~se[h].already_send_free_cpu /\ h \notin tokill_list
      /\ se[h].next_execution_mode \in {IDLE, CPU}
  BY DEF Picks, JobInv, IdleInv
<1>2. IsGranted(client[h], Append(fifo[h], a), a, FALSE)
  BY <1>1 DEF IsGranted, Waits
<1>3. AccelInv(h, a)'
  BY <1>1, <1>2 DEF AccelInv, Picks, Uses
<1>4. a # IDLE /\ a # CPU
  BY DispatchAssumption
<1> QED BY <1>1, <1>3, <1>4 DEF JobInv, Picks

\* pick_next for an accelerator that no job is believed to be on.
LEMMA PickNextJobs ==
  ASSUME TypeInv, QueueInv, JobsInv, NEW a \in Accels, PickNext(a), UNCHANGED daemon_fifo,
         \A x \in Handles : se[x].execution_mode # a
  PROVE  JobsInv'
<1>1. ASSUME NEW x \in Handles, NEW h, PickFrame(a, h), x # h PROVE JobInv(x)'
  <2>1. JobInv(x) /\ MailFrame(x)
    BY SameMail DEF JobsInv
  <2>2. ClientFrame(x) /\ BeliefFrame(x)
    BY <1>1, SameClient DEF BeliefFrame, PickFrame
  <2> QED BY <2>1, <2>2, SameJob
<1>2. CASE curr'[a].handle = NoHandle /\ PickFrame(a, NoHandle)
  <2>1. \A x \in Handles : x # NoHandle
    BY DispatchAssumption DEF NoHandle
  <2> QED BY <1>1, <1>2, <2>1 DEF JobsInv
<1>3. ASSUME NEW h \in Handles, Picks(a, h), PickFrame(a, h) PROVE JobsInv'
  <2>1. JobInv(h)'
    BY <1>3, PickedJob DEF JobsInv, PickFrame
  <2> QED BY <1>1, <1>3, <2>1 DEF JobsInv
<1> QED BY <1>2, <1>3, PickNextEffect

--------------------------------------------------------------------------------
(* The client's steps in which it sends nothing.                             *)

LEMMA TupleFacts ==
  ASSUME NEW x, NEW y
  PROVE  /\ <<x>> # <<>> /\ Head(<<x>>) = x /\ Tail(<<x>>) = <<>>
         /\ <<x, y>> # <<>> /\ Head(<<x, y>>) = x /\ Tail(<<x, y>>) = <<y>>
OBVIOUS

\* update_run_on, where c is the client's state otherwise.
Reads(h, c) ==
  /\ client'[h].pc = c.pc /\ client'[h].device = c.device
  /\ client'[h].is_finished = c.is_finished /\ client'[h].once = c.once
  /\ client'[h].run_on = IF fifo[h] = <<>> THEN c.run_on ELSE Head(fifo[h])
  /\ fifo'[h] = IF fifo[h] = <<>> THEN <<>> ELSE Tail(fifo[h])

LEMMA ReadEffect ==
  ASSUME TypeInv, NEW h \in Handles, NEW c \in ClientState, UpdateRunOn(h, c)
  PROVE  /\ Reads(h, c)
         /\ \A x \in Handles \ {h} : client'[x] = client[x] /\ fifo'[x] = fifo[x]
<1> USE DEF TypeInv, DaemonTypeInv, TypeOK
<1>1. CASE fifo[h] = <<>>
  <2>1. client' = [client EXCEPT ![h] = c] /\ fifo' = fifo
    BY <1>1 DEF UpdateRunOn
  <2> QED BY <1>1, <2>1 DEF Reads
<1>2. CASE fifo[h] # <<>>
  <2> DEFINE r == Head(fifo[h])
  <2>1. /\ client' = [client EXCEPT ![h] = [c EXCEPT !.run_on = r]]
        /\ fifo' = [fifo EXCEPT ![h] = Tail(@)]
    BY <1>2 DEF UpdateRunOn
  <2>2. [c EXCEPT !.run_on = r] \in [pc : {c.pc}, device : {c.device}, once : {c.once},
                                     is_finished : {c.is_finished}, run_on : {r}]
    BY DEF ClientState
  <2>3. /\ client'[h] = [c EXCEPT !.run_on = r] /\ fifo'[h] = Tail(fifo[h])
        /\ \A x \in Handles \ {h} : client'[x] = client[x] /\ fifo'[x] = fifo[x]
    BY <2>1
  <2> HIDE DEF r
  <2>4. /\ client'[h].pc = c.pc /\ client'[h].device = c.device
        /\ client'[h].is_finished = c.is_finished /\ client'[h].once = c.once
        /\ client'[h].run_on = r
    BY <2>2, <2>3
  <2> QED BY <1>2, <2>3, <2>4 DEF Reads, r
<1> QED BY <1>1, <1>2

\* The modes differ from each other.
LEMMA ModesDiffer ==
  /\ IDLE # CPU /\ IdleMode \in {IDLE, CPU} /\ IdleMode \notin Accels
  /\ IDLE \notin Accels /\ CPU \notin Accels
BY DispatchAssumption DEF IdleMode

LEMMA StartKind ==
  ASSUME TypeInv, NEW h \in Handles, Start(h)
  PROVE  /\ ClientFrame(h)
         /\ \A x \in Handles \ {h} : client'[x] = client[x] /\ fifo'[x] = fifo[x]
<1> DEFINE d == [client[h] EXCEPT !.pc = "loop"]
           c == client[h]
           e == client'[h]
           f == fifo[h]
           g == fifo'[h]
<1>1. c \in ClientState /\ d \in ClientState
  BY DEF TypeInv, DaemonTypeInv, TypeOK, ClientState
<1>2. /\ d.pc = "loop" /\ d.device = c.device
      /\ d.is_finished = c.is_finished /\ d.run_on = c.run_on
  BY <1>1 DEF ClientState
<1>3. Reads(h, d) /\ \A x \in Handles \ {h} : client'[x] = client[x] /\ fifo'[x] = fifo[x]
  BY <1>1, ReadEffect DEF Start
<1> HIDE DEF d
<1>4. /\ c.pc = "accepted" /\ e.pc = "loop" /\ e.is_finished = c.is_finished
      /\ f = <<>> => e.run_on = c.run_on /\ g = <<>>
      /\ f # <<>> => e.run_on = Head(f) /\ g = Tail(f)
  BY <1>2, <1>3 DEF Reads, Start
<1> HIDE DEF c, e, f, g
<1>5. Waits(c, f) => Waits(e, g)
  BY <1>4 DEF Waits, Listens
<1>6. ASSUME NEW a \in Accels, NEW s \in BOOLEAN, Uses(c, f, a, s) PROVE Uses(e, g, a, s)
  <2>1. IsGranted(c, f, a, s)
    BY <1>4, <1>6 DEF Uses, Enters, IsInside
  <2>2. Enters(e, g, a, s)
    BY <1>4, <2>1, TupleFacts DEF IsGranted, Enters, Listens
  <2> QED BY <2>2 DEF Uses
<1>7. \A s \in BOOLEAN : ~OnCpu(c, f, s) /\ ~IsDone(c, f, s)
  BY <1>4 DEF OnCpu, IsDone, NewClient
<1> QED BY <1>3, <1>4, <1>5, <1>6, <1>7 DEF ClientFrame, c, e, f, g

LEMMA WaitForRunOnKind ==
  ASSUME TypeInv, NEW h \in Handles, WaitForRunOn(h)
  PROVE  /\ ClientFrame(h)
         /\ \A x \in Handles \ {h} : client'[x] = client[x] /\ fifo'[x] = fifo[x]
<1> DEFINE c == client[h]
           e == client'[h]
           f == fifo[h]
           g == fifo'[h]
<1>1. c \in ClientState
  BY DEF TypeInv, DaemonTypeInv, TypeOK
<1>3. Reads(h, c) /\ \A x \in Handles \ {h} : client'[x] = client[x] /\ fifo'[x] = fifo[x]
  BY <1>1, ReadEffect DEF WaitForRunOn
<1>4. /\ c.pc = "loop" /\ ~c.is_finished /\ c.run_on = IDLE /\ f # <<>>
      /\ e.pc = "loop" /\ e.is_finished = c.is_finished /\ e.run_on = Head(f) /\ g = Tail(f)
  BY <1>3 DEF Reads, WaitForRunOn
<1> HIDE DEF c, e, f, g
<1>5. ~Waits(c, f)
  BY <1>4 DEF Waits
<1>6. ASSUME NEW a \in Accels, NEW s \in BOOLEAN, Uses(c, f, a, s) PROVE Uses(e, g, a, s)
  <2>1. IsGranted(c, f, a, s)
    BY <1>4, <1>6, ModesDiffer DEF Uses, Enters, IsInside
  <2>2. Enters(e, g, a, s)
    BY <1>4, <2>1, TupleFacts DEF IsGranted, Enters
  <2> QED BY <2>2 DEF Uses
<1>7. \A s \in BOOLEAN : ~OnCpu(c, f, s) /\ ~IsDone(c, f, s)
  BY <1>4, ModesDiffer DEF OnCpu, IsDone, NewClient
<1> QED BY <1>3, <1>4, <1>5, <1>6, <1>7 DEF ClientFrame, c, e, f, g

LEMMA InitAccelKind ==
  ASSUME TypeInv, NEW h \in Handles, InitAccel(h)
  PROVE  /\ ClientFrame(h)
         /\ \A x \in Handles \ {h} : client'[x] = client[x] /\ fifo'[x] = fifo[x]
<1> DEFINE c == client[h]
           e == client'[h]
           f == fifo[h]
<1>1. c \in ClientState
  BY DEF TypeInv, DaemonTypeInv, TypeOK
<1>2. /\ fifo' = fifo /\ \A x \in Handles \ {h} : client'[x] = client[x]
      /\ e = [c EXCEPT !.pc = "accel", !.device = c.run_on, !.once = FALSE]
  BY DEF InitAccel, TypeInv, DaemonTypeInv, TypeOK
<1>3. c.pc = "loop" /\ ~c.is_finished /\ c.run_on \in Accels
  BY DEF InitAccel
<1> HIDE DEF c, e, f
<1>4. e.pc = "accel" /\ e.device = c.run_on /\ e.run_on = c.run_on
  BY <1>1, <1>2 DEF ClientState
<1>5. ~Waits(c, f)
  BY <1>3, <1>4, ModesDiffer DEF Waits
<1>6. ASSUME NEW a \in Accels, NEW s \in BOOLEAN, Uses(c, f, a, s) PROVE Uses(e, f, a, s)
  <2>1. Enters(c, f, a, s)
    BY <1>3, <1>4, <1>6, ModesDiffer DEF Uses, IsGranted, IsInside
  <2>2. IsInside(e, f, a, s)
    BY <1>3, <1>4, <2>1 DEF IsInside, Enters
  <2> QED BY <2>2 DEF Uses
<1>7. \A s \in BOOLEAN : ~OnCpu(c, f, s) /\ ~IsDone(c, f, s)
  BY <1>3, <1>4, ModesDiffer DEF OnCpu, IsDone, NewClient
<1> QED BY <1>2, <1>3, <1>4, <1>5, <1>6, <1>7 DEF ClientFrame, c, e, f

LEMMA InitCpuKind ==
  ASSUME TypeInv, NEW h \in Handles, InitCpu(h)
  PROVE  /\ ClientFrame(h)
         /\ \A x \in Handles \ {h} : client'[x] = client[x] /\ fifo'[x] = fifo[x]
<1> DEFINE c == client[h]
           e == client'[h]
           f == fifo[h]
<1>1. c \in ClientState
  BY DEF TypeInv, DaemonTypeInv, TypeOK
<1>2. /\ fifo' = fifo /\ \A x \in Handles \ {h} : client'[x] = client[x]
      /\ e = [c EXCEPT !.pc = "cpu"]
  BY DEF InitCpu, TypeInv, DaemonTypeInv, TypeOK
<1>3. c.pc = "loop" /\ ~c.is_finished /\ c.run_on = CPU
  BY DEF InitCpu
<1> HIDE DEF c, e, f
<1>4. e.pc = "cpu" /\ e.run_on = c.run_on
  BY <1>1, <1>2 DEF ClientState
<1>5. ~Waits(c, f) /\ \A a \in Accels, s \in BOOLEAN : ~Uses(c, f, a, s)
  BY <1>3, <1>4, ModesDiffer DEF Waits, Uses, IsGranted, Enters, IsInside
<1>6. \A s \in BOOLEAN : OnCpu(c, f, s) => OnCpu(e, f, s)
  BY <1>3, <1>4, ModesDiffer DEF OnCpu
<1>7. \A s \in BOOLEAN : ~IsDone(c, f, s)
  BY <1>3, <1>4, ModesDiffer DEF IsDone, NewClient
<1> QED BY <1>2, <1>3, <1>4, <1>5, <1>6, <1>7 DEF ClientFrame, c, e, f

LEMMA WorkKind ==
  ASSUME TypeInv, NEW h \in Handles, Work(h)
  PROVE  /\ ClientFrame(h)
         /\ \A x \in Handles \ {h} : client'[x] = client[x] /\ fifo'[x] = fifo[x]
<1> DEFINE c == client[h]
           e == client'[h]
           f == fifo[h]
           g == fifo'[h]
<1>1. c \in ClientState
  BY DEF TypeInv, DaemonTypeInv, TypeOK
<1>2. PICK done \in BOOLEAN :
        UpdateRunOn(h, [client[h] EXCEPT !.is_finished = done, !.once = TRUE])
  BY DEF Work
<1> DEFINE d == [c EXCEPT !.is_finished = done, !.once = TRUE]
<1>3. d \in ClientState /\ d.pc = c.pc /\ d.device = c.device /\ d.run_on = c.run_on
  <2> HIDE DEF c
  <2> QED BY <1>1 DEF ClientState
<1>4. Reads(h, d) /\ \A x \in Handles \ {h} : client'[x] = client[x] /\ fifo'[x] = fifo[x]
  BY <1>2, <1>3, ReadEffect
<1>5. c.pc \in {"accel", "cpu"}
  BY DEF Work, KeepsRunning
<1> HIDE DEF d
<1>6. /\ e.pc = c.pc /\ e.device = c.device
      /\ f = <<>> => e.run_on = c.run_on /\ g = <<>>
      /\ f # <<>> => e.run_on = Head(f) /\ g = Tail(f)
  BY <1>3, <1>4 DEF Reads
<1> HIDE DEF c, e, f, g
<1>7. ~Waits(c, f) /\ \A s \in BOOLEAN : ~IsDone(c, f, s)
  BY <1>5 DEF Waits, Listens, IsDone, NewClient
<1>8. ASSUME NEW a \in Accels, NEW s \in BOOLEAN, Uses(c, f, a, s) PROVE Uses(e, g, a, s)
  <2>1. IsInside(c, f, a, s)
    BY <1>5, <1>8 DEF Uses, IsGranted, Enters, Listens
  <2>2. IsInside(e, g, a, s)
    BY <1>6, <2>1, TupleFacts DEF IsInside
  <2> QED BY <2>2 DEF Uses
<1>9. ASSUME NEW s \in BOOLEAN, OnCpu(c, f, s) PROVE OnCpu(e, g, s)
  BY <1>5, <1>6, <1>9, TupleFacts DEF OnCpu
<1> QED BY <1>4, <1>5, <1>7, <1>8, <1>9 DEF ClientFrame, c, e, f, g

LEMMA CloseKind ==
  ASSUME TypeInv, NEW h \in Handles, Close(h)
  PROVE  /\ ClientFrame(h)
         /\ \A x \in Handles \ {h} : client'[x] = client[x] /\ fifo'[x] = fifo[x]
<1> DEFINE c == client[h]
           f == fifo[h]
<1>1. /\ client'[h] = NewClient /\ fifo'[h] = <<>>
      /\ \A x \in Handles \ {h} : client'[x] = client[x] /\ fifo'[x] = fifo[x]
  BY DEF Close, TypeInv, DaemonTypeInv, TypeOK
<1>2. c.pc = "loop" /\ c.is_finished
  BY DEF Close
<1> HIDE DEF c, f
<1>3. ~Waits(c, f) /\ \A a \in Accels, s \in BOOLEAN : ~Uses(c, f, a, s)
  BY <1>2 DEF Waits, Listens, Uses, IsGranted, Enters, IsInside
<1>4. \A s \in BOOLEAN : ~OnCpu(c, f, s) /\ IsDone(NewClient, <<>>, s)
  BY <1>2 DEF OnCpu, IsDone
<1> QED BY <1>1, <1>2, <1>3, <1>4 DEF ClientFrame, c, f

\* The client's steps in which it sends nothing.
Quiet(h) == \/ Start(h) \/ WaitForRunOn(h) \/ InitAccel(h) \/ InitCpu(h)
            \/ Work(h) \/ Close(h)

LEMMA QuietKind ==
  ASSUME TypeInv, NEW h \in Handles, Quiet(h)
  PROVE  /\ UNCHANGED <<alive, schedVars, main, disp, daemon_fifo>>
         /\ \A x \in Handles : ClientFrame(x)
<1>1. /\ ClientFrame(h)
      /\ \A x \in Handles \ {h} : client'[x] = client[x] /\ fifo'[x] = fifo[x]
  BY StartKind, WaitForRunOnKind, InitAccelKind, InitCpuKind, WorkKind, CloseKind DEF Quiet
<1>2. UNCHANGED <<alive, schedVars, main, disp, daemon_fifo>>
  BY DEF Quiet, Start, WaitForRunOn, InitAccel, InitCpu, Work, Close
<1> QED BY <1>1, <1>2, SameClient

LEMMA SameBelief ==
  ASSUME NEW h, UNCHANGED schedVars PROVE BeliefFrame(h)
BY DEF BeliefFrame, schedVars

LEMMA QuietJobs ==
  ASSUME TypeInv, JobsInv, NEW h \in Handles, Quiet(h)
  PROVE  JobsInv'
<1> SUFFICES ASSUME NEW x \in Handles PROVE JobInv(x)'
  BY DEF JobsInv
<1>1. ClientFrame(x) /\ UNCHANGED daemon_fifo /\ UNCHANGED schedVars
  BY QuietKind
<1> QED BY <1>1, SameJob, SameMail, SameBelief DEF JobsInv

--------------------------------------------------------------------------------
(* The end of free(): the client tells the daemon that it has left.          *)

\* The client's record and FIFO after free().
LEMMA FreeEffect ==
  ASSUME TypeInv, NEW h \in Handles, Free(h)
  PROVE  /\ client[h].pc \in {"accel", "cpu"} /\ ~KeepsRunning(client[h])
         /\ client'[h].pc = "loop" /\ client'[h].run_on = client[h].run_on
         /\ client'[h].is_finished = client[h].is_finished
         /\ client[h].is_finished \in BOOLEAN
         /\ fifo' = fifo
         /\ \A x \in Handles \ {h} : client'[x] = client[x]
         /\ daemon_fifo' = Append(daemon_fifo, CleanupMessage(h))
         /\ CleanupMessage(h) =
              Msg(h, IF client[h].pc = "accel" THEN client[h].device ELSE CPU,
                  client[h].is_finished)
         /\ CleanupMessage(h) \in Message
         /\ UNCHANGED <<alive, schedVars, main, disp>>
<1> DEFINE c == client[h]
<1>1. c \in ClientState
  BY DEF TypeInv, DaemonTypeInv, TypeOK
<1>2. /\ client'[h] = [c EXCEPT !.pc = "loop", !.device = NoAccel]
      /\ \A x \in Handles \ {h} : client'[x] = client[x]
  BY DEF Free, TypeInv, DaemonTypeInv, TypeOK
<1>3. c.pc = "accel" => c.device \in Accels
  BY DEF TypeInv, DeviceIsKnown
<1>4. CleanupMessage(h) = Msg(h, IF c.pc = "accel" THEN c.device ELSE CPU, c.is_finished)
  BY DEF CleanupMessage, Msg
<1> HIDE DEF c
<1>5. /\ client'[h].pc = "loop" /\ client'[h].run_on = c.run_on
      /\ client'[h].is_finished = c.is_finished /\ c.is_finished \in BOOLEAN
  BY <1>1, <1>2 DEF ClientState
<1>6. CleanupMessage(h) \in Message
  BY <1>3, <1>4, <1>5 DEF Msg, Message
<1> QED BY <1>2, <1>4, <1>5, <1>6 DEF Free, c

\* What the client of h was doing tells what it does after free().
LEMMA FreeKind ==
  ASSUME TypeInv, NEW h \in Handles, Free(h)
  PROVE  LET c == client[h]
             e == client'[h]
             f == fifo[h]
         IN /\ ~Waits(c, f) /\ \A s \in BOOLEAN : ~IsDone(c, f, s)
            /\ \A a \in Accels, s \in BOOLEAN : Uses(c, f, a, s) =>
                 /\ CleanupMessage(h) = Msg(h, a, c.is_finished)
                 /\ c.is_finished = TRUE => IsDone(e, f, s)
                 /\ c.is_finished = FALSE => s /\ AfterAccel(e, f)
            /\ \A s \in BOOLEAN : OnCpu(c, f, s) =>
                 /\ CleanupMessage(h) = Msg(h, CPU, c.is_finished)
                 /\ c.is_finished = TRUE => IsDone(e, f, s)
                 /\ c.is_finished = FALSE => s /\ Waits(e, f)
<1> DEFINE c == client[h]
           e == client'[h]
           f == fifo[h]
<1>1. /\ c.pc \in {"accel", "cpu"} /\ ~KeepsRunning(c)
      /\ e.pc = "loop" /\ e.run_on = c.run_on /\ e.is_finished = c.is_finished
      /\ c.is_finished \in BOOLEAN
      /\ CleanupMessage(h) = Msg(h, IF c.pc = "accel" THEN c.device ELSE CPU, c.is_finished)
  BY FreeEffect
<1> HIDE DEF c, e, f
<1>2. ~Waits(c, f) /\ \A s \in BOOLEAN : ~IsDone(c, f, s)
  BY <1>1 DEF Waits, Listens, IsDone, NewClient
<1>3. ASSUME NEW a \in Accels, NEW s \in BOOLEAN, Uses(c, f, a, s)
      PROVE  /\ CleanupMessage(h) = Msg(h, a, c.is_finished)
             /\ c.is_finished = TRUE => IsDone(e, f, s)
             /\ c.is_finished = FALSE => s /\ AfterAccel(e, f)
  <2>1. IsInside(c, f, a, s) /\ c.pc = "accel" /\ c.device = a
    BY <1>1, <1>3 DEF Uses, IsGranted, Enters, Listens, IsInside
  <2>2. c.is_finished = TRUE => IsDone(e, f, s)
    BY <1>1, <2>1, ModesDiffer DEF IsInside, IsDone
  <2>3. ASSUME c.is_finished = FALSE PROVE s /\ AfterAccel(e, f)
    <3>1. s /\ c.run_on = IdleMode /\ f = <<>>
      BY <1>1, <2>1, <2>3 DEF KeepsRunning, IsInside
    <3>2. CASE BlueMode
      BY <1>1, <2>3, <3>1, <3>2 DEF AfterAccel, OnCpu, IdleMode
    <3>3. CASE ~BlueMode
      BY <1>1, <2>3, <3>1, <3>3 DEF AfterAccel, Waits, Listens, IdleMode
    <3> QED BY <3>1, <3>2, <3>3
  <2> QED BY <1>1, <2>1, <2>2, <2>3
<1>4. ASSUME NEW s \in BOOLEAN, OnCpu(c, f, s)
      PROVE  /\ CleanupMessage(h) = Msg(h, CPU, c.is_finished)
             /\ c.is_finished = TRUE => IsDone(e, f, s)
             /\ c.is_finished = FALSE => s /\ Waits(e, f)
  <2>1. c.pc = "cpu"
    BY <1>1, <1>4 DEF OnCpu
  <2>2. c.is_finished = TRUE => IsDone(e, f, s)
    BY <1>1, <1>4, <2>1 DEF OnCpu, IsDone
  <2>3. c.is_finished = FALSE => s /\ Waits(e, f)
    BY <1>1, <1>4, <2>1 DEF OnCpu, KeepsRunning, Waits, Listens
  <2> QED BY <1>1, <2>1, <2>2, <2>3
<1> QED BY <1>2, <1>3, <1>4 DEF c, e, f

LEMMA FreeJobs ==
  ASSUME TypeInv, JobsInv, NEW h \in Handles, Free(h)
  PROVE  JobsInv'
<1> DEFINE fin == client[h].is_finished
           m == CleanupMessage(h)
           c == client[h]
           e == client'[h]
           f == fifo[h]
<1>1. /\ daemon_fifo \in Seq(Message) /\ daemon_fifo' = Append(daemon_fifo, m)
      /\ m \in Message /\ m.from = h /\ fin \in {TRUE, FALSE}
      /\ UNCHANGED schedVars /\ fifo' = fifo
      /\ \A x \in Handles \ {h} : client'[x] = client[x]
  <2>1. daemon_fifo \in Seq(Message)
    BY DEF TypeInv, DaemonTypeInv, TypeOK
  <2>2. m.from = h
    BY DEF CleanupMessage
  <2> QED BY <2>1, <2>2, FreeEffect
<1>2. ASSUME NEW x \in Handles, x # h PROVE JobInv(x)'
  <2>1. MailFrame(x)
    BY <1>1, <1>2, MailAppendOther DEF MailFrame
  <2> QED BY <1>1, <1>2, <2>1, SameJob, SameClient, SameBelief DEF JobsInv
<1>3. /\ NoMail(daemon_fifo, h) => OnlyMail(daemon_fifo', h, m)
      /\ \A n \in Message : OnlyMail(daemon_fifo, h, n) => TwoMails(daemon_fifo', h, n, m)
  BY <1>1, MailAppendOwn
<1>4. UNCHANGED <<se_table, se, curr, tokill_list>>
  BY <1>1 DEF schedVars
<1>5. /\ ~Waits(c, f) /\ \A s \in BOOLEAN : ~IsDone(c, f, s)
      /\ \A a \in Accels, s \in BOOLEAN : Uses(c, f, a, s) =>
           /\ m = Msg(h, a, fin)
           /\ fin = TRUE => IsDone(e, f, s)
           /\ fin = FALSE => s /\ AfterAccel(e, f)
      /\ \A s \in BOOLEAN : OnCpu(c, f, s) =>
           /\ m = Msg(h, CPU, fin)
           /\ fin = TRUE => IsDone(e, f, s)
           /\ fin = FALSE => s /\ Waits(e, f)
  BY FreeKind
<1>6. /\ se[h].already_send_free_cpu \in BOOLEAN
      /\ \A a \in Accels : curr[a].already_send_message \in BOOLEAN
  BY DEF TypeInv, DaemonTypeInv, TypeOK, Entity, CurrState
<1>7. f = fifo'[h]
  BY <1>1
<1> HIDE DEF fin, m, e, f
<1>8. h \in se_table /\ se[h].execution_mode # IDLE
  BY <1>5 DEF JobsInv, JobInv, NoJobInv, IdleInv, f
<1>9. CASE se[h].execution_mode = CPU
  <2>1. CpuInv(h)
    BY <1>8, <1>9 DEF JobsInv, JobInv
  <2>2. /\ NoMail(daemon_fifo, h) /\ ~se[h].is_finished
        /\ OnCpu(c, f, se[h].already_send_free_cpu)
    BY <1>5, <1>6, <2>1 DEF CpuInv, f
  <2>3. CpuInv(h)'
    BY <1>1, <1>3, <1>4, <1>5, <1>6, <1>7, <2>1, <2>2 DEF CpuInv, e
  <2>4. \A a \in Accels : a # CPU
    BY ModesDiffer
  <2> QED BY <1>2, <1>4, <1>8, <1>9, <2>3, <2>4 DEF JobsInv, JobInv
<1>10. ASSUME NEW a \in Accels, se[h].execution_mode = a PROVE AccelInv(h, a)'
  <2> DEFINE sent == curr[a].already_send_message
  <2>1. AccelInv(h, a)
    BY <1>8, <1>10 DEF JobsInv, JobInv
  <2>2. \/ NoMail(daemon_fifo, h) /\ Uses(c, f, a, sent)
        \/ /\ sent /\ BlueMode /\ OnlyMail(daemon_fifo, h, Msg(h, a, FALSE))
           /\ OnCpu(c, f, FALSE)
    BY <1>5, <1>6, <2>1 DEF AccelInv, AfterAccel, f
  <2>3. /\ curr'[a].handle = h /\ curr'[a] = curr[a]
        /\ ~se'[h].is_finished /\ ~se'[h].already_send_free_cpu
        /\ sent => se'[h].next_execution_mode = IdleMode
    BY <1>4, <2>1 DEF AccelInv
  <2> HIDE DEF sent
  <2>4. CASE NoMail(daemon_fifo, h) /\ Uses(c, f, a, sent)
    <3>1. OnlyMail(daemon_fifo', h, m) /\ m = Msg(h, a, fin) /\ sent \in BOOLEAN
      BY <1>3, <1>5, <1>6, <2>4 DEF sent
    <3>2. CASE fin = TRUE
      BY <1>5, <1>7, <2>3, <2>4, <3>1, <3>2 DEF AccelInv, sent, e
    <3>3. CASE fin = FALSE
      BY <1>5, <1>7, <2>3, <2>4, <3>1, <3>3 DEF AccelInv, sent, e
    <3> QED BY <1>1, <3>2, <3>3
  <2>5. CASE /\ sent /\ BlueMode /\ OnlyMail(daemon_fifo, h, Msg(h, a, FALSE))
             /\ OnCpu(c, f, FALSE)
    <3>1. m = Msg(h, CPU, TRUE) /\ IsDone(e, f, FALSE)
      BY <1>1, <1>5, <2>5
    <3>2. TwoMails(daemon_fifo', h, Msg(h, a, FALSE), m)
      BY <1>3, <2>5, MsgType
    <3> QED BY <1>7, <2>3, <2>5, <3>1, <3>2 DEF AccelInv, sent, e
  <2> QED BY <2>2, <2>4, <2>5
<1>11. CASE se[h].execution_mode # CPU
  BY <1>2, <1>4, <1>8, <1>10, <1>11 DEF JobsInv, JobInv
<1> QED BY <1>9, <1>11

--------------------------------------------------------------------------------
(* The daemon's other steps.                                                 *)

LEMMA RegisterJobs ==
  ASSUME TypeInv, JobsInv, NEW h \in Handles, Register(h)
  PROVE  JobsInv'
<1>1. /\ client[h].pc = "closed" /\ h \notin se_table
      /\ client' = [client EXCEPT ![h].pc = "registering"]
      /\ UNCHANGED schedVars /\ UNCHANGED <<daemon_fifo, fifo>>
  BY DEF Register
<1>2. \A x \in Handles \ {h} : client'[x] = client[x]
  BY <1>1 DEF TypeInv, DaemonTypeInv, TypeOK
<1>3. ASSUME NEW x \in Handles, x # h PROVE JobInv(x)'
  BY <1>1, <1>2, <1>3, SameJob, SameClient, SameMail, SameBelief DEF JobsInv
<1>4. NoJobInv(h)
  BY <1>1 DEF JobsInv, JobInv
<1>5. client[h] = NewClient /\ fifo[h] = <<>>
  BY <1>1, <1>4 DEF NoJobInv, IsDone
<1>6. client'[h] = [NewClient EXCEPT !.pc = "registering"]
  BY <1>1, <1>5 DEF TypeInv, DaemonTypeInv, TypeOK
<1>7. client'[h].pc = "registering" /\ Waits(client'[h], fifo'[h])
  BY <1>1, <1>5, <1>6 DEF NewClient, Waits, Listens
<1>8. UNCHANGED <<se_table, se, tokill_list>>
  BY <1>1 DEF schedVars
<1>9. NoJobInv(h)'
  BY <1>1, <1>4, <1>7, <1>8 DEF NoJobInv
<1> QED BY <1>1, <1>3, <1>8, <1>9 DEF JobsInv, JobInv

LEMMA AddJobJobs ==
  ASSUME TypeInv, QueueInv, JobsInv, NEW h \in Handles, NEW a \in Accels, AddJob(h, a)
  PROVE  JobsInv'
<1>1. /\ client[h].pc = "registering" /\ main.pc = "select"
      /\ se_table' = se_table \cup {h} /\ se' = [se EXCEPT ![h] = NewEntity(a)]
      /\ UNCHANGED <<curr, tokill_list, daemon_fifo, fifo, client>>
  BY DEF AddJob
<1>2. h \notin se_table
  <2>1. h # NoHandle
    BY DispatchAssumption DEF NoHandle
  <2> QED BY <1>1, <2>1 DEF QueueInv
<1>3. \A x \in Handles \ {h} : se'[x] = se[x] /\ (x \in se_table') = (x \in se_table)
  BY <1>1 DEF TypeInv, DaemonTypeInv, TypeOK
<1>4. ASSUME NEW x \in Handles, x # h PROVE JobInv(x)'
  <2>1. BeliefFrame(x)
    BY <1>1, <1>3, <1>4 DEF BeliefFrame
  <2> QED BY <1>1, <1>4, <2>1, SameJob, SameClient, SameMail DEF JobsInv
<1>5. NoJobInv(h)
  BY <1>2 DEF JobsInv, JobInv
<1>6. Waits(client[h], fifo[h]) /\ NoMail(daemon_fifo, h) /\ h \notin tokill_list
  BY <1>1, <1>5 DEF NoJobInv, IsDone, NewClient
<1>7. se'[h] = NewEntity(a)
  BY <1>1 DEF TypeInv, DaemonTypeInv, TypeOK
<1>8. /\ se'[h].execution_mode = IDLE /\ se'[h].next_execution_mode = IDLE
      /\ se'[h].is_finished = FALSE /\ se'[h].already_send_free_cpu = FALSE
  BY <1>7 DEF NewEntity
<1>9. IdleInv(h)'
  BY <1>1, <1>6, <1>8 DEF IdleInv
<1> QED BY <1>1, <1>4, <1>6, <1>8, <1>9, ModesDiffer DEF JobsInv, JobInv

\* The sender of the message that handle_cleanup reads.
LEMMA HandleCleanupEffect ==
  ASSUME TypeInv, HandleCleanup
  PROVE  LET m == Head(daemon_fifo)
             h == m.from
         IN /\ m \in Message /\ h \in Handles /\ daemon_fifo # <<>>
            /\ daemon_fifo \in Seq(Message) /\ daemon_fifo' = Tail(daemon_fifo)
            /\ se'[h].execution_mode = se[h].next_execution_mode
            /\ se'[h].next_execution_mode = se[h].next_execution_mode
            /\ se'[h].already_send_free_cpu = FALSE
            /\ se'[h].is_finished = (se[h].is_finished \/ m.is_finished)
            /\ m.is_finished \in BOOLEAN
            /\ \A x \in Handles \ {h} : se'[x] = se[x]
            /\ tokill_list' = tokill_list \cup (IF m.is_finished THEN {h} ELSE {})
            /\ disp = {} /\ disp' = {m}
            /\ UNCHANGED <<se_table, curr, main, fifo, client>>
<1> DEFINE m == Head(daemon_fifo)
           h == m.from
<1>1. daemon_fifo \in Seq(Message) /\ daemon_fifo # <<>>
  BY DEF HandleCleanup, TypeInv, DaemonTypeInv, TypeOK
<1>2. m \in Message
  BY <1>1
<1>3. h \in Handles /\ m.is_finished \in BOOLEAN
  BY <1>2 DEF Message
<1>4. /\ se' = [se EXCEPT ![h] = CleanedUp(m)]
      /\ tokill_list' = tokill_list \cup (IF m.is_finished THEN {h} ELSE {})
      /\ daemon_fifo' = Tail(daemon_fifo)
      /\ disp = {} /\ disp' = {m}
      /\ UNCHANGED <<se_table, curr, main, fifo, client>>
  BY DEF HandleCleanup, Finished
<1> HIDE DEF m
<1>5. se \in [Handles -> Entity]
  BY DEF TypeInv, DaemonTypeInv, TypeOK
<1>6. se'[h] = CleanedUp(m) /\ \A x \in Handles \ {h} : se'[x] = se[x]
  BY <1>3, <1>4, <1>5
<1>7. se[h] \in Entity
  BY <1>3, <1>5
<1>8. /\ CleanedUp(m).execution_mode = se[h].next_execution_mode
      /\ CleanedUp(m).next_execution_mode = se[h].next_execution_mode
      /\ CleanedUp(m).already_send_free_cpu = FALSE
      /\ CleanedUp(m).is_finished = (se[h].is_finished \/ m.is_finished)
  BY <1>7 DEF CleanedUp, Entity
<1> QED BY <1>1, <1>2, <1>3, <1>4, <1>6, <1>8 DEF m

LEMMA HandleCleanupJobs ==
  ASSUME TypeInv, JobsInv, HandleCleanup
  PROVE  JobsInv'
<1>0. PICK m \in Message, h \in Handles : m = Head(daemon_fifo) /\ h = m.from
  BY HandleCleanupEffect
<1> DEFINE c == client[h]
           f == fifo[h]
           next == se[h].next_execution_mode
<1>1. /\ m \in Message /\ h \in Handles /\ daemon_fifo # <<>>
      /\ daemon_fifo \in Seq(Message) /\ daemon_fifo' = Tail(daemon_fifo)
      /\ se'[h].execution_mode = next
      /\ se'[h].next_execution_mode = next
      /\ se'[h].already_send_free_cpu = FALSE
      /\ se'[h].is_finished = (se[h].is_finished \/ m.is_finished)
      /\ m.is_finished \in BOOLEAN
      /\ \A x \in Handles \ {h} : se'[x] = se[x]
      /\ tokill_list' = tokill_list \cup (IF m.is_finished THEN {h} ELSE {})
      /\ UNCHANGED <<se_table, curr, main, fifo, client>>
  BY <1>0, HandleCleanupEffect
<1>2. ASSUME NEW x \in Handles, x # h PROVE JobInv(x)'
  <2>1. MailFrame(x)
    BY <1>0, <1>1, <1>2, MailTailOther DEF MailFrame
  <2>2. BeliefFrame(x)
    BY <1>1, <1>2 DEF BeliefFrame
  <2> QED BY <1>1, <1>2, <2>1, <2>2, SameJob, SameClient DEF JobsInv
<1>3. /\ ~NoMail(daemon_fifo, h)
      /\ \A n \in Message : OnlyMail(daemon_fifo, h, n) => n = m /\ NoMail(daemon_fifo', h)
      /\ \A n, k \in Message : n.from = h /\ k.from = h =>
           (TwoMails(daemon_fifo, h, n, k) => n = m /\ OnlyMail(daemon_fifo', h, k))
  BY <1>0, <1>1, MailTailOwn
<1>4. /\ \A a \in Accels : curr[a].already_send_message \in BOOLEAN
      /\ se[h].is_finished \in BOOLEAN /\ se[h].already_send_free_cpu \in BOOLEAN
  BY <1>1 DEF TypeInv, DaemonTypeInv, TypeOK, Entity, CurrState
<1>5. JobInv(h) /\ c = client'[h] /\ f = fifo'[h]
  BY <1>1 DEF JobsInv
<1> HIDE DEF c, f, next
<1>6. /\ h \in se_table /\ se[h].execution_mode # IDLE /\ next \in {IDLE, CPU}
      /\ h \in tokill_list => se[h].is_finished
  BY <1>3, <1>5 DEF JobInv, NoJobInv, IdleInv, next
<1>7. /\ h \in tokill_list' => se'[h].is_finished
      /\ h \in se_table'
  BY <1>1, <1>6
<1>8. \A s \in BOOLEAN : IsDone(c, f, s) => IsDone(c, f, TRUE)
  BY DEF IsDone
<1>9. ASSUME NoMail(daemon_fifo', h), se'[h].is_finished, \E s \in BOOLEAN : IsDone(c, f, s)
      PROVE  JobInv(h)'
  <2>1. IdleInv(h)'
    BY <1>1, <1>5, <1>8, <1>9 DEF IdleInv
  <2>2. CpuInv(h)'
    BY <1>1, <1>5, <1>8, <1>9 DEF CpuInv
  <2> QED BY <1>1, <1>6, <1>7, <2>1, <2>2, ModesDiffer DEF JobInv
<1>10. ASSUME NoMail(daemon_fifo', h), ~se'[h].is_finished, next = IDLE, Waits(c, f)
       PROVE  JobInv(h)'
  <2>1. IdleInv(h)'
    BY <1>1, <1>5, <1>10 DEF IdleInv
  <2> QED BY <1>1, <1>6, <1>7, <1>10, <2>1, ModesDiffer DEF JobInv
<1>11. ASSUME ~se'[h].is_finished, next = CPU,
              \/ NoMail(daemon_fifo', h) /\ OnCpu(c, f, FALSE)
              \/ OnlyMail(daemon_fifo', h, Msg(h, CPU, TRUE)) /\ IsDone(c, f, FALSE)
       PROVE  JobInv(h)'
  <2>1. CpuInv(h)'
    BY <1>1, <1>5, <1>11 DEF CpuInv
  <2> QED BY <1>1, <1>6, <1>7, <1>11, <2>1, ModesDiffer DEF JobInv
<1>12. ASSUME NEW a \in Accels \cup {CPU}, NEW fin \in BOOLEAN,
              OnlyMail(daemon_fifo, h, Msg(h, a, fin))
       PROVE  NoMail(daemon_fifo', h) /\ m.is_finished = fin
  <2>1. Msg(h, a, fin) \in Message /\ Msg(h, a, fin).is_finished = fin
    BY <1>1, <1>12, MsgType DEF Msg
  <2> QED BY <1>3, <1>12, <2>1
<1>13. ASSUME se[h].execution_mode = CPU PROVE JobInv(h)'
  <2>1. CpuInv(h)
    BY <1>5, <1>6, <1>13 DEF JobInv
  <2>2. CASE /\ OnlyMail(daemon_fifo, h, Msg(h, CPU, TRUE))
             /\ IsDone(c, f, se[h].already_send_free_cpu)
    <3>1. NoMail(daemon_fifo', h) /\ m.is_finished
      BY <1>12, <2>2
    <3> QED BY <1>1, <1>4, <1>9, <2>2, <3>1
  <2>3. CASE /\ OnlyMail(daemon_fifo, h, Msg(h, CPU, FALSE)) /\ ~se[h].is_finished
             /\ se[h].already_send_free_cpu /\ Waits(c, f)
    <3>1. NoMail(daemon_fifo', h) /\ m.is_finished = FALSE
      BY <1>12, <2>3
    <3>2. next = IDLE
      BY <2>1, <2>3 DEF CpuInv, next
    <3> QED BY <1>1, <1>10, <2>3, <3>1, <3>2
  <2> QED BY <1>3, <2>1, <2>2, <2>3 DEF CpuInv, c, f
<1>14. ASSUME NEW a \in Accels, se[h].execution_mode = a PROVE JobInv(h)'
  <2> DEFINE sent == curr[a].already_send_message
  <2>1. AccelInv(h, a)
    BY <1>5, <1>6, <1>14 DEF JobInv
  <2>2. CASE OnlyMail(daemon_fifo, h, Msg(h, a, TRUE)) /\ IsDone(c, f, sent)
    <3>1. NoMail(daemon_fifo', h) /\ m.is_finished
      BY <1>12, <2>2
    <3> QED BY <1>1, <1>4, <1>9, <2>2, <3>1
  <2>3. CASE sent /\ OnlyMail(daemon_fifo, h, Msg(h, a, FALSE)) /\ AfterAccel(c, f)
    <3>1. NoMail(daemon_fifo', h) /\ m.is_finished = FALSE
      BY <1>12, <2>3
    <3>2. next = IdleMode /\ ~se'[h].is_finished
      BY <1>1, <2>1, <2>3, <3>1 DEF AccelInv, next
    <3> QED BY <1>10, <1>11, <2>3, <3>1, <3>2 DEF AfterAccel, IdleMode
  <2>4. CASE /\ BlueMode /\ sent
             /\ TwoMails(daemon_fifo, h, Msg(h, a, FALSE), Msg(h, CPU, TRUE))
             /\ IsDone(c, f, FALSE)
    <3>1. /\ Msg(h, a, FALSE) \in Message /\ Msg(h, a, FALSE).from = h
          /\ Msg(h, CPU, TRUE) \in Message /\ Msg(h, CPU, TRUE).from = h
          /\ Msg(h, a, FALSE).is_finished = FALSE
      BY <1>1, MsgType DEF Msg
    <3>2. OnlyMail(daemon_fifo', h, Msg(h, CPU, TRUE)) /\ m.is_finished = FALSE
      BY <1>3, <2>4, <3>1
    <3>3. next = CPU /\ ~se'[h].is_finished
      BY <1>1, <2>1, <2>4, <3>2 DEF AccelInv, next, IdleMode
    <3> QED BY <1>11, <2>4, <3>2, <3>3
  <2> QED BY <1>3, <2>1, <2>2, <2>3, <2>4 DEF AccelInv, c, f
<1>15. se[h].execution_mode \in Accels \cup {IDLE, CPU}
  BY <1>1 DEF TypeInv, DaemonTypeInv, TypeOK, Entity, Modes
<1>16. JobInv(h)'
  BY <1>6, <1>13, <1>14, <1>15
<1> QED BY <1>2, <1>16 DEF JobsInv

--------------------------------------------------------------------------------
(* The tick.                                                                 *)

LEMMA AppendTuples ==
  ASSUME NEW a, NEW m PROVE Append(<<>>, m) = <<m>> /\ Append(<<a>>, m) = <<a, m>>
<1> DEFINE S == {a, m}
           s == Append(<<a>>, m)
           t == <<a, m>>
<1>1. <<a>> \in Seq(S) /\ m \in S /\ Len(<<a>>) = 1 /\ <<a>>[1] = a
  OBVIOUS
<1>2. s \in Seq(S) /\ Len(s) = 2 /\ s[1] = a /\ s[2] = m
  BY <1>1
<1>3. t \in Seq(S) /\ Len(t) = 2 /\ t[1] = a /\ t[2] = m
  OBVIOUS
<1> HIDE DEF s, t
<1>4. \A i \in 1..2 : s[i] = t[i]
  BY <1>2, <1>3
<1>5. s = t
  BY <1>2, <1>3, <1>4
<1>6. Append(<<>>, m) = <<m>>
  OBVIOUS
<1> QED BY <1>5, <1>6 DEF s, t

\* The message that update_curr sends does not change what a client does.
LEMMA SentKind ==
  ASSUME NEW c, NEW f
  PROVE  /\ \A a \in Accels :
              Uses(c, f, a, FALSE) => Uses(c, Append(f, IdleMode), a, TRUE)
         /\ \A m \in {IDLE, CPU} : (c.pc # "closed" /\ IsDone(c, f, FALSE))
                                     => IsDone(c, Append(f, m), TRUE)
         /\ OnCpu(c, f, FALSE) => OnCpu(c, Append(f, IDLE), TRUE)
<1>1. \A m : Append(<<>>, m) = <<m>>
  BY AppendTuples
<1>2. \A a, m : Append(<<a>>, m) = <<a, m>>
  BY AppendTuples
<1>3. ASSUME NEW a \in Accels, Uses(c, f, a, FALSE)
      PROVE  Uses(c, Append(f, IdleMode), a, TRUE)
  <2>1. CASE IsGranted(c, f, a, FALSE)
    BY <1>2, <2>1 DEF Uses, IsGranted
  <2>2. CASE Enters(c, f, a, FALSE)
    BY <1>1, <2>2 DEF Uses, Enters
  <2>3. CASE IsInside(c, f, a, FALSE)
    BY <1>1, <2>3 DEF Uses, IsInside
  <2> QED BY <1>3, <2>1, <2>2, <2>3 DEF Uses
<1>4. ASSUME NEW m \in {IDLE, CPU}, c.pc # "closed", IsDone(c, f, FALSE)
      PROVE  IsDone(c, Append(f, m), TRUE)
  <2>1. c.pc = "loop" /\ c.is_finished /\ f = <<>>
    BY <1>4 DEF IsDone, NewClient
  <2> QED BY <1>1, <2>1 DEF IsDone
<1>5. OnCpu(c, f, FALSE) => OnCpu(c, Append(f, IDLE), TRUE)
  BY <1>1 DEF OnCpu
<1> QED BY <1>3, <1>4, <1>5

\* update_curr of a with current job h and leftmost job l.
UpdateEffect(a, h, l) ==
  /\ main.accel = a /\ curr[a].handle = h
  /\ h \in se_table /\ se[h].enqueued_in = a
  /\ l \in se_table /\ se[l].enqueued_in = a
  /\ Preempts(a, l) \in BOOLEAN /\ FreesCpu(a, l) \in BOOLEAN
  /\ Preempts(a, l) => client[h].pc # "closed" /\ ~curr[a].already_send_message
  /\ FreesCpu(a, l) => /\ client[l].pc # "closed" /\ l # h /\ ~se[l].is_finished
                       /\ se[l].execution_mode = CPU /\ ~se[l].already_send_free_cpu
  /\ \A x \in Handles :
       /\ se'[x].execution_mode = se[x].execution_mode
       /\ se'[x].is_finished = se[x].is_finished
  /\ \A x \in Handles :
       IF x = h /\ Preempts(a, l)
       THEN /\ se'[x].next_execution_mode = IdleMode
            /\ se'[x].already_send_free_cpu = se[x].already_send_free_cpu
            /\ fifo'[x] = Append(fifo[x], IdleMode)
       ELSE IF x = l /\ FreesCpu(a, l)
       THEN /\ se'[x].next_execution_mode = IDLE
            /\ se'[x].already_send_free_cpu = TRUE
            /\ fifo'[x] = Append(fifo[x], IDLE)
       ELSE /\ se'[x].next_execution_mode = se[x].next_execution_mode
            /\ se'[x].already_send_free_cpu = se[x].already_send_free_cpu
            /\ fifo'[x] = fifo[x]
  /\ \A x \in Handles : x \notin se_table => se'[x] = se[x]
  /\ \A b \in Accels \ {a} : curr'[b] = curr[b]
  /\ curr'[a].handle = h
  /\ curr'[a].already_send_message = (curr[a].already_send_message \/ Preempts(a, l))
  /\ main'.pc = "tick" /\ main'.job = main.job
  /\ UNCHANGED <<se_table, tokill_list, disp, daemon_fifo, client>>

LEMMA UpdateCurrEffect ==
  ASSUME TypeInv, QueueInv, NEW l \in Handles, UpdateCurr(l)
  PROVE  \E a \in Accels, h \in Handles : UpdateEffect(a, h, l)
<1>1. PICK a \in Accels, h \in Handles : a = main.accel /\ h = curr[a].handle
  BY DEF UpdateCurr, TypeInv, DaemonTypeInv, TypeOK, CurrState
<1>2. /\ h # NoHandle /\ Leftmost(a, l)
      /\ \A x \in Notified(a, l) : Reachable(x)
      /\ tree' = [tree EXCEPT ![a] = UpdatedTree(a)]
      /\ se' = UpdatedEntities(a, l)
      /\ curr' = [curr EXCEPT ![a] = UpdatedCurr(a, l)]
      /\ fifo' = UpdatedFifos(a, l)
      /\ main' = [main EXCEPT !.pc = "tick", !.accel = NoAccel]
      /\ UNCHANGED <<se_table, tokill_list, disp, daemon_fifo, client>>
  BY <1>1 DEF UpdateCurr
<1>3. h \in se_table /\ se[h].enqueued_in = a
  BY <1>1, <1>2 DEF QueueInv
<1>4. l \in se_table /\ se[l].enqueued_in = a
  <2>1. PICK e \in UpdatedTree(a) : e.handle = l
    BY <1>2 DEF Leftmost, First
  <2>2. e \in tree[a] \/ l = h
    BY <1>1, <2>1 DEF UpdatedTree
  <2> QED BY <1>3, <2>1, <2>2 DEF QueueInv, TreesMatchEntities
<1>5. /\ Preempts(a, l) \in BOOLEAN /\ FreesCpu(a, l) \in BOOLEAN
      /\ Preempts(a, l) => client[h].pc # "closed" /\ ~curr[a].already_send_message
      /\ FreesCpu(a, l) => /\ client[l].pc # "closed" /\ l # h /\ ~se[l].is_finished
                           /\ se[l].execution_mode = CPU /\ ~se[l].already_send_free_cpu
  <2>1. /\ Preempts(a, l) \in BOOLEAN /\ FreesCpu(a, l) \in BOOLEAN
        /\ Preempts(a, l) => ~curr[a].already_send_message
        /\ FreesCpu(a, l) => /\ l # h /\ ~se[l].is_finished
                             /\ se[l].execution_mode = CPU /\ ~se[l].already_send_free_cpu
    BY <1>1 DEF Preempts, FreesCpu
  <2>2. /\ Preempts(a, l) => client[h].pc # "closed"
        /\ FreesCpu(a, l) => client[l].pc # "closed"
    BY <1>1, <1>2 DEF Notified, Reachable
  <2> QED BY <2>1, <2>2
<1>6. /\ \A b \in Accels \ {a} : curr'[b] = curr[b]
      /\ curr'[a] = UpdatedCurr(a, l)
  BY <1>2 DEF TypeInv, DaemonTypeInv, TypeOK
<1>7. /\ curr'[a].handle = h
      /\ curr'[a].already_send_message = (curr[a].already_send_message \/ Preempts(a, l))
  BY <1>1, <1>6 DEF UpdatedCurr
<1>8. main'.pc = "tick" /\ main'.job = main.job
  BY <1>2 DEF TypeInv, DaemonTypeInv, TypeOK, MainState
<1> DEFINE current == [se[h] EXCEPT !.vruntime = @ + Delta(a), !.rruntime = @ + Delta(a)]
           preempted == [current EXCEPT !.next_execution_mode = IdleMode]
           called == [se[l] EXCEPT !.next_execution_mode = IDLE,
                                   !.already_send_free_cpu = TRUE]
<1>9. \A x \in Handles : se'[x] = IF x = h /\ Preempts(a, l) THEN preempted
                                  ELSE IF x = h THEN current
                                  ELSE IF x = l /\ FreesCpu(a, l) THEN called
                                  ELSE se[x]
  BY <1>1, <1>2 DEF UpdatedEntities
<1>10. \A x \in Handles : fifo'[x] = IF x = h /\ Preempts(a, l) THEN Append(fifo[x], IdleMode)
                                     ELSE IF x = l /\ FreesCpu(a, l) THEN Append(fifo[x], IDLE)
                                     ELSE fifo[x]
  BY <1>1, <1>2 DEF UpdatedFifos
<1>11. se[h] \in Entity /\ se[l] \in Entity
  BY DEF TypeInv, DaemonTypeInv, TypeOK
<1>12. /\ current.execution_mode = se[h].execution_mode
       /\ current.is_finished = se[h].is_finished
       /\ current.next_execution_mode = se[h].next_execution_mode
       /\ current.already_send_free_cpu = se[h].already_send_free_cpu
  BY <1>11 DEF Entity
<1>13. /\ preempted.execution_mode = se[h].execution_mode
       /\ preempted.is_finished = se[h].is_finished
       /\ preempted.next_execution_mode = IdleMode
       /\ preempted.already_send_free_cpu = se[h].already_send_free_cpu
  BY <1>11 DEF Entity
<1>14. /\ called.execution_mode = se[l].execution_mode
       /\ called.is_finished = se[l].is_finished
       /\ called.next_execution_mode = IDLE
       /\ called.already_send_free_cpu = TRUE
  BY <1>11 DEF Entity
<1> HIDE DEF current, preempted, called
<1>15. \A x \in Handles : /\ se'[x].execution_mode = se[x].execution_mode
                          /\ se'[x].is_finished = se[x].is_finished
  BY <1>9, <1>12, <1>13, <1>14
<1>16. \A x \in Handles :
         IF x = h /\ Preempts(a, l)
         THEN /\ se'[x].next_execution_mode = IdleMode
              /\ se'[x].already_send_free_cpu = se[x].already_send_free_cpu
         ELSE IF x = l /\ FreesCpu(a, l)
         THEN /\ se'[x].next_execution_mode = IDLE
              /\ se'[x].already_send_free_cpu = TRUE
         ELSE /\ se'[x].next_execution_mode = se[x].next_execution_mode
              /\ se'[x].already_send_free_cpu = se[x].already_send_free_cpu
  BY <1>5, <1>9, <1>12, <1>13, <1>14
<1>17. \A x \in Handles : x \notin se_table => se'[x] = se[x]
  BY <1>3, <1>4, <1>9
<1> DEFINE P == Preempts(a, l)
           F == FreesCpu(a, l)
<1>18. \A x \in Handles :
         IF x = h /\ P
         THEN /\ se'[x].next_execution_mode = IdleMode
              /\ se'[x].already_send_free_cpu = se[x].already_send_free_cpu
              /\ fifo'[x] = Append(fifo[x], IdleMode)
         ELSE IF x = l /\ F
         THEN /\ se'[x].next_execution_mode = IDLE
              /\ se'[x].already_send_free_cpu = TRUE
              /\ fifo'[x] = Append(fifo[x], IDLE)
         ELSE /\ se'[x].next_execution_mode = se[x].next_execution_mode
              /\ se'[x].already_send_free_cpu = se[x].already_send_free_cpu
              /\ fifo'[x] = fifo[x]
  BY <1>5, <1>10, <1>16
<1>19. UNCHANGED <<se_table, tokill_list, disp, daemon_fifo, client>>
  BY <1>2
<1>20. UpdateEffect(a, h, l)
  BY <1>1, <1>3, <1>4, <1>5, <1>6, <1>7, <1>8, <1>15, <1>17, <1>18, <1>19 DEF UpdateEffect
<1> QED BY <1>20

\* A tick does not write to the FIFO of x.
LEMMA UnnotifiedJob ==
  ASSUME TypeInv, JobsInv, NEW a \in Accels, NEW h \in Handles, NEW l \in Handles,
         UpdateEffect(a, h, l), NEW x \in Handles,
         ~(x = h /\ Preempts(a, l)), ~(x = l /\ FreesCpu(a, l))
  PROVE  JobInv(x)'
<1>1. /\ se'[x].execution_mode = se[x].execution_mode
      /\ se'[x].is_finished = se[x].is_finished
      /\ se'[x].next_execution_mode = se[x].next_execution_mode
      /\ se'[x].already_send_free_cpu = se[x].already_send_free_cpu
      /\ fifo'[x] = fifo[x] /\ client' = client
      /\ x \notin se_table => se'[x] = se[x]
      /\ UNCHANGED <<se_table, tokill_list, daemon_fifo>>
  BY DEF UpdateEffect
<1>2. ASSUME NEW b \in Accels, se[x].execution_mode = b
      PROVE  /\ curr'[b].handle = curr[b].handle
             /\ curr'[b].already_send_message = curr[b].already_send_message
  <2>1. curr[b].handle = x
    BY <1>2, OnlyCurrentRuns DEF JobsInv
  <2>2. CASE b # a
    BY <2>2 DEF UpdateEffect
  <2>3. CASE b = a
    <3>1. x = h /\ Preempts(a, l) = FALSE
      BY <2>1, <2>3 DEF UpdateEffect
    <3>2. curr[a].already_send_message \in BOOLEAN
      BY DEF TypeInv, DaemonTypeInv, TypeOK, CurrState
    <3> QED BY <2>3, <3>1, <3>2 DEF UpdateEffect
  <2> QED BY <2>2, <2>3
<1>3. BeliefFrame(x)
  BY <1>1, <1>2 DEF BeliefFrame
<1> QED BY <1>1, <1>3, SameJob, SameClient, SameMail DEF JobsInv

\* The current job is told to leave.
LEMMA PreemptedJob ==
  ASSUME TypeInv, QueueInv, DispatchInv, JobsInv, NEW a \in Accels, NEW h \in Handles,
         NEW l \in Handles, UpdateEffect(a, h, l), Preempts(a, l)
  PROVE  JobInv(h)'
<1> DEFINE c == client[h]
           f == fifo[h]
           g == Append(fifo[h], IdleMode)
<1>1. /\ se'[h].execution_mode = se[h].execution_mode
      /\ se'[h].is_finished = se[h].is_finished
      /\ se'[h].next_execution_mode = IdleMode
      /\ se'[h].already_send_free_cpu = se[h].already_send_free_cpu
      /\ fifo'[h] = g /\ client'[h] = c /\ c.pc # "closed"
      /\ h \in se_table /\ se[h].enqueued_in = a
      /\ UNCHANGED <<se_table, tokill_list, daemon_fifo>>
      /\ curr[a].handle = h /\ ~curr[a].already_send_message
      /\ curr'[a].handle = h /\ curr'[a].already_send_message = TRUE
  BY DEF UpdateEffect
<1>2. JobInv(h) /\ h # NoHandle
  BY DispatchAssumption DEF JobsInv, NoHandle
<1>3. /\ \A b \in Accels : Uses(c, f, b, FALSE) => Uses(c, g, b, TRUE)
      /\ IsDone(c, f, FALSE) => IsDone(c, g, TRUE)
  BY <1>1, SentKind, ModesDiffer
<1>4. /\ curr[a].already_send_message = FALSE
      /\ \A b \in Accels : se[h].execution_mode = b => b = a
  <2>1. curr[a].already_send_message \in BOOLEAN
    BY DEF TypeInv, DaemonTypeInv, TypeOK, CurrState
  <2>2. ASSUME NEW b \in Accels, se[h].execution_mode = b PROVE b = a
    <3>1. curr[b].handle = h
      BY <1>2, <2>2, OnlyCurrentRuns
    <3> QED BY <1>1, <1>2, <3>1 DEF QueueInv
  <2> QED BY <1>1, <2>1, <2>2
<1> HIDE DEF c, f, g
<1>5. CASE se[h].execution_mode = a
  <2>1. AccelInv(h, a)
    BY <1>1, <1>2, <1>5 DEF JobInv
  <2>2. \/ NoMail(daemon_fifo, h) /\ Uses(c, f, a, FALSE)
        \/ OnlyMail(daemon_fifo, h, Msg(h, a, TRUE)) /\ IsDone(c, f, FALSE)
    BY <1>4, <2>1 DEF AccelInv, c, f
  <2>3. \/ NoMail(daemon_fifo, h) /\ Uses(c, g, a, TRUE)
        \/ OnlyMail(daemon_fifo, h, Msg(h, a, TRUE)) /\ IsDone(c, g, TRUE)
    BY <1>3, <2>2
  <2>4. ~se'[h].is_finished /\ ~se'[h].already_send_free_cpu
    BY <1>1, <2>1 DEF AccelInv
  <2>5. AccelInv(h, a)'
    BY <1>1, <2>3, <2>4 DEF AccelInv
  <2> QED BY <1>1, <1>2, <1>4, <1>5, <2>5, ModesDiffer DEF JobInv
<1>6. CASE se[h].execution_mode # a
  <2>1. PICK m \in disp : m.accel = a
    BY <1>1, <1>2, <1>6 DEF DispatchInv
  <2>2. m.from = h /\ se[h].is_finished /\ IsDone(c, f, FALSE)
    <3>1. LeftInv(m)
      BY <2>1 DEF DispatchInv
    <3>2. m.from = h /\ m.is_finished
      BY <1>1, <1>4, <2>1, <3>1 DEF LeftInv
    <3> QED BY <1>4, <2>1, <3>1, <3>2 DEF LeftInv, c, f
  <2>3. IsDone(c, g, TRUE)
    BY <1>3, <2>2
  <2>4. se[h].execution_mode = IDLE => IdleInv(h)'
    BY <1>1, <1>2, <2>2, <2>3 DEF JobInv, IdleInv
  <2>5. ASSUME se[h].execution_mode = CPU PROVE CpuInv(h)'
    <3>1. CpuInv(h)
      BY <1>1, <1>2, <2>5 DEF JobInv
    <3>2. NoMail(daemon_fifo, h) /\ ~se[h].already_send_free_cpu
      BY <2>2, <3>1 DEF CpuInv
    <3> QED BY <1>1, <2>2, <2>3, <3>2 DEF CpuInv
  <2> QED BY <1>1, <1>2, <1>4, <1>6, <2>4, <2>5, ModesDiffer DEF JobInv
<1> QED BY <1>5, <1>6

\* A job on the CPU is called back.
LEMMA CalledJob ==
  ASSUME TypeInv, JobsInv, NEW a \in Accels, NEW h \in Handles,
         NEW l \in Handles, UpdateEffect(a, h, l), FreesCpu(a, l)
  PROVE  JobInv(l)'
<1> DEFINE c == client[l]
           f == fifo[l]
           g == Append(fifo[l], IDLE)
<1>1. /\ se'[l].execution_mode = CPU /\ se[l].execution_mode = CPU
      /\ se'[l].is_finished = se[l].is_finished /\ ~se[l].is_finished
      /\ se'[l].next_execution_mode = IDLE
      /\ se'[l].already_send_free_cpu = TRUE /\ ~se[l].already_send_free_cpu
      /\ fifo'[l] = g /\ client'[l] = c /\ c.pc # "closed"
      /\ l \in se_table
      /\ UNCHANGED <<se_table, tokill_list, daemon_fifo>>
  BY DEF UpdateEffect
<1>2. JobInv(l)
  BY DEF JobsInv
<1>3. /\ OnCpu(c, f, FALSE) => OnCpu(c, g, TRUE)
      /\ IsDone(c, f, FALSE) => IsDone(c, g, TRUE)
  BY <1>1, SentKind
<1>4. se[l].already_send_free_cpu = FALSE
  BY <1>1 DEF TypeInv, DaemonTypeInv, TypeOK, Entity
<1> HIDE DEF c, f, g
<1>5. CpuInv(l)
  BY <1>1, <1>2 DEF JobInv
<1>6. \/ NoMail(daemon_fifo, l) /\ OnCpu(c, f, FALSE)
      \/ OnlyMail(daemon_fifo, l, Msg(l, CPU, TRUE)) /\ IsDone(c, f, FALSE)
  BY <1>1, <1>4, <1>5 DEF CpuInv, c, f
<1>7. CpuInv(l)'
  BY <1>1, <1>3, <1>6 DEF CpuInv
<1> QED BY <1>1, <1>2, <1>7, ModesDiffer DEF JobInv

LEMMA UpdateCurrJobs ==
  ASSUME TypeInv, QueueInv, DispatchInv, JobsInv, NEW l \in Handles, UpdateCurr(l)
  PROVE  JobsInv'
<1>1. PICK a \in Accels, h \in Handles : UpdateEffect(a, h, l)
  BY UpdateCurrEffect
<1> SUFFICES ASSUME NEW x \in Handles PROVE JobInv(x)'
  BY DEF JobsInv
<1> QED BY <1>1, UnnotifiedJob, PreemptedJob, CalledJob

\* finish_registration: the client that was waiting for it is the same otherwise.
LEMMA EndTickKind ==
  ASSUME TypeInv, DispatchInv, EndTick, NEW x \in Handles
  PROVE  ClientFrame(x)
<1>1. /\ UNCHANGED fifo
      /\ client' = [h \in Handles |-> IF h = main.job
                                      THEN [client[h] EXCEPT !.pc = "accepted"]
                                      ELSE client[h]]
  BY DEF EndTick
<1>2. CASE x # main.job
  BY <1>1, <1>2, SameClient
<1>3. CASE x = main.job
  <2> DEFINE c == client[x]
             e == client'[x]
             f == fifo[x]
  <2>1. x # NoHandle
    BY DispatchAssumption DEF NoHandle
  <2>2. x \in se_table /\ c.pc = "registering" /\ c \in ClientState
    BY <1>3, <2>1 DEF DispatchInv, TypeInv, DaemonTypeInv, TypeOK
  <2>3. e = [c EXCEPT !.pc = "accepted"] /\ fifo'[x] = f
    BY <1>1, <1>3
  <2> HIDE DEF c, e, f
  <2>4. e.pc = "accepted" /\ e.run_on = c.run_on /\ e.is_finished = c.is_finished
    BY <2>2, <2>3 DEF ClientState
  <2>5. Waits(c, f) => Waits(e, f)
    BY <2>4 DEF Waits, Listens
  <2>6. ASSUME NEW a \in Accels, NEW s \in BOOLEAN, Uses(c, f, a, s) PROVE Uses(e, f, a, s)
    <3>1. IsGranted(c, f, a, s)
      BY <2>2, <2>6 DEF Uses, Enters, IsInside
    <3>2. IsGranted(e, f, a, s)
      BY <2>2, <2>4, <3>1 DEF IsGranted, Listens
    <3> QED BY <3>2 DEF Uses
  <2>7. \A s \in BOOLEAN : ~OnCpu(c, f, s) /\ ~IsDone(c, f, s)
    BY <2>2 DEF OnCpu, IsDone, NewClient
  <2> QED BY <2>2, <2>3, <2>5, <2>6, <2>7 DEF ClientFrame, c, e, f
<1> QED BY <1>2, <1>3

LEMMA EndTickJobs ==
  ASSUME TypeInv, DispatchInv, JobsInv, EndTick
  PROVE  JobsInv'
<1>1. UNCHANGED schedVars /\ UNCHANGED daemon_fifo
  BY DEF EndTick
<1> SUFFICES ASSUME NEW x \in Handles PROVE JobInv(x)'
  BY DEF JobsInv
<1> QED BY <1>1, EndTickKind, SameJob, SameMail, SameBelief DEF JobsInv

LEMMA RemoveJobJobs ==
  ASSUME TypeInv, JobsInv, NEW h \in Handles, RemoveJob(h)
  PROVE  JobsInv'
<1>1. /\ h \in tokill_list /\ curr[se[h].enqueued_in].handle # h
      /\ se' = [se EXCEPT ![h] = NewEntity(NoAccel)]
      /\ se_table' = se_table \ {h} /\ tokill_list' = tokill_list \ {h}
      /\ UNCHANGED <<curr, daemon_fifo, fifo, client>>
  BY DEF RemoveJob, FirstToKill
<1>2. /\ se'[h] = NewEntity(NoAccel)
      /\ \A x \in Handles \ {h} : /\ se'[x] = se[x]
                                  /\ (x \in se_table') = (x \in se_table)
                                  /\ (x \in tokill_list') = (x \in tokill_list)
  BY <1>1 DEF TypeInv, DaemonTypeInv, TypeOK
<1>3. ASSUME NEW x \in Handles, x # h PROVE JobInv(x)'
  <2>1. BeliefFrame(x)
    BY <1>1, <1>2, <1>3 DEF BeliefFrame
  <2> QED BY <1>1, <1>3, <2>1, SameJob, SameClient, SameMail DEF JobsInv
<1>4. JobInv(h) /\ h \in se_table /\ se[h].is_finished
  BY <1>1 DEF JobsInv, JobInv, NoJobInv
<1>5. NoMail(daemon_fifo, h) /\ IsDone(client[h], fifo[h], TRUE)
  <2>1. se[h].execution_mode \in Accels \cup {IDLE, CPU}
    BY DEF TypeInv, DaemonTypeInv, TypeOK, Entity, Modes
  <2>2. CASE se[h].execution_mode = IDLE
    BY <1>4, <2>2 DEF JobInv, IdleInv
  <2>3. CASE se[h].execution_mode = CPU
    BY <1>4, <2>3 DEF JobInv, CpuInv
  <2>4. CASE se[h].execution_mode \in Accels
    BY <1>4, <2>4 DEF JobInv, AccelInv
  <2> QED BY <2>1, <2>2, <2>3, <2>4
<1>6. JobInv(h)'
  BY <1>1, <1>2, <1>5 DEF JobInv, NoJobInv
<1> QED BY <1>3, <1>6 DEF JobsInv

\* The main thread picks for a queue that is empty, so no job is believed to be
\* on its accelerator.
LEMMA IdleAccelIsFree ==
  ASSUME TypeInv, DispatchInv, JobsInv, main.pc = "pick"
  PROVE  main.accel \in Accels /\ \A x \in Handles : se[x].execution_mode # main.accel
<1>1. main.accel \in Accels
  BY DEF TypeInv, DaemonTypeInv
<1>2. ASSUME NEW x \in Handles, se[x].execution_mode = main.accel PROVE FALSE
  <2>1. curr[main.accel].handle = x
    BY <1>1, <1>2, OnlyCurrentRuns DEF JobsInv
  <2>2. curr[main.accel].handle = NoHandle
    BY DEF DispatchInv
  <2> QED BY <2>1, <2>2, DispatchAssumption DEF NoHandle
<1> QED BY <1>1, <1>2

\* The dispatcher picks for a queue whose current job has left.
LEMMA LeftAccelIsFree ==
  ASSUME TypeInv, DispatchInv, JobsInv, NEW m \in disp, m.accel # CPU
  PROVE  m.accel \in Accels /\ \A x \in Handles : se[x].execution_mode # m.accel
<1>1. m.accel \in Accels
  BY DEF TypeInv, DaemonTypeInv, TypeOK, Message
<1>2. ASSUME NEW x \in Handles, se[x].execution_mode = m.accel PROVE FALSE
  <2>1. curr[m.accel].handle = x
    BY <1>1, <1>2, OnlyCurrentRuns DEF JobsInv
  <2>2. curr[m.accel].handle = m.from /\ se[m.from].execution_mode \notin Accels
    BY <1>1 DEF DispatchInv, LeftInv
  <2> QED BY <1>1, <1>2, <2>1, <2>2
<1> QED BY <1>1, <1>2

LEMMA FrameJobs ==
  ASSUME TypeInv, JobsInv,
         UNCHANGED <<se_table, se, curr, tokill_list, daemon_fifo, fifo, client>>
  PROVE  JobsInv'
<1> SUFFICES ASSUME NEW x \in Handles PROVE JobInv(x)'
  BY DEF JobsInv
<1>1. BeliefFrame(x)
  BY DEF BeliefFrame
<1> QED BY <1>1, SameJob, SameClient, SameMail DEF JobsInv

LEMMA JobStep ==
  ASSUME TypeInv, QueueInv, DispatchInv, JobsInv, [Next]_vars
  PROVE  JobsInv'
<1>1. CASE UNCHANGED vars
  BY <1>1, FrameJobs DEF vars, schedVars
<1>2. ASSUME NEW h \in Handles, NEW a \in Accels, AddJob(h, a) PROVE JobsInv'
  BY <1>2, AddJobJobs
<1>3. ASSUME NEW l \in Handles, UpdateCurr(l) PROVE JobsInv'
  BY <1>3, UpdateCurrJobs
<1>4. ASSUME NEW h \in Handles, RemoveJob(h) PROVE JobsInv'
  BY <1>4, RemoveJobJobs
<1>5. ASSUME NEW h \in Handles, SendFails(h) \/ RemoveFails(h) PROVE JobsInv'
  BY <1>5, FrameJobs DEF SendFails, RemoveFails, Dexit, schedVars
<1>6. ASSUME NEW a \in Accels, CheckCurr(a) PROVE JobsInv'
  BY <1>6, FrameJobs DEF CheckCurr, schedVars
<1>7. CASE PeriodicTick \/ UpdateNothing \/ EndRemove
  BY <1>7, FrameJobs DEF PeriodicTick, StartTick, UpdateNothing, EndRemove, schedVars
<1>8. CASE PickIdle
  BY <1>8, IdleAccelIsFree, PickNextJobs DEF PickIdle
<1>9. CASE EndTick
  BY <1>9, EndTickJobs
<1>10. CASE HandleCleanup
  BY <1>10, HandleCleanupJobs
<1>11. CASE DispatchNext
  <2>1. PICK m \in disp : m.accel # CPU /\ PickNext(m.accel) /\ UNCHANGED daemon_fifo
    BY <1>11 DEF DispatchNext
  <2> QED BY <2>1, LeftAccelIsFree, PickNextJobs
<1>12. CASE DispatchNothing
  BY <1>12, FrameJobs DEF DispatchNothing, schedVars
<1>13. ASSUME NEW h \in Handles, Register(h) PROVE JobsInv'
  BY <1>13, RegisterJobs
<1>14. ASSUME NEW h \in Handles, Client(h) PROVE JobsInv'
  BY <1>14, QuietJobs, FreeJobs DEF Client, Quiet
<1> QED
  BY <1>1, <1>2, <1>3, <1>4, <1>5, <1>6, <1>7, <1>8, <1>9, <1>10, <1>11, <1>12, <1>13, <1>14
  DEF Next, Main, Dispatcher

--------------------------------------------------------------------------------
(* The dispatcher and the main thread do not both give an accelerator away.  *)

\* What DispatchInv says of a message and of a run queue, and of the main thread.
LeftsInv == /\ \A m, n \in disp : m = n
            /\ \A m \in disp : m.accel \in Accels => LeftInv(m)
HasRunner(a) == curr[a].handle # NoHandle =>
                  \/ se[curr[a].handle].execution_mode = a
                  \/ \E m \in disp : m.accel = a
RunnersInv == \A a \in Accels : HasRunner(a)
MainInv == /\ main.pc = "pick" => curr[main.accel].handle = NoHandle
           /\ main.job # NoHandle =>
                main.job \in se_table /\ client[main.job].pc = "registering"

LEMMA DispatchParts == DispatchInv <=> LeftsInv /\ RunnersInv /\ MainInv
BY DEF DispatchInv, LeftsInv, RunnersInv, HasRunner, MainInv

\* A step that changes nothing the message that is being handled speaks of.
LEMMA LeftsFrame ==
  ASSUME TypeInv, LeftsInv, UNCHANGED disp,
         \A m \in disp : m.accel \in Accels =>
            /\ curr'[m.accel].handle = curr[m.accel].handle
            /\ curr'[m.accel].already_send_message = curr[m.accel].already_send_message
            /\ se'[m.from].execution_mode = se[m.from].execution_mode
            /\ se'[m.from].is_finished = se[m.from].is_finished
            /\ \A s \in BOOLEAN : IsDone(client[m.from], fifo[m.from], s)
                                   => IsDone(client'[m.from], fifo'[m.from], s)
  PROVE  LeftsInv'
<1> SUFFICES ASSUME NEW m \in disp, m.accel \in Accels PROVE LeftInv(m)'
  BY DEF LeftsInv
<1>1. LeftInv(m)
  BY DEF LeftsInv
<1>2. curr[m.accel].already_send_message \in BOOLEAN
  BY DEF TypeInv, DaemonTypeInv, TypeOK, CurrState
<1>3. LeftInv(m)'
  BY <1>1, <1>2 DEF LeftInv
<1> QED BY <1>3

\* Whose message it is.
LEMMA LeftFacts ==
  ASSUME TypeInv, QueueInv, LeftsInv, NEW m \in disp, m.accel \in Accels
  PROVE  /\ m.from \in Handles /\ m.from \in se_table /\ m.from # NoHandle
         /\ curr[m.accel].handle = m.from /\ se[m.from].enqueued_in = m.accel
<1>1. m.from \in Handles /\ m.from # NoHandle
  BY DispatchAssumption DEF NoHandle, TypeInv, DaemonTypeInv, TypeOK, Message
<1>2. curr[m.accel].handle = m.from
  BY DEF LeftsInv, LeftInv
<1> QED BY <1>1, <1>2 DEF QueueInv

LEMMA CleanupLeft ==
  ASSUME TypeInv, JobsInv, HandleCleanup
  PROVE  LeftsInv'
<1>1. PICK m \in Message, h \in Handles : m = Head(daemon_fifo) /\ h = m.from
  BY HandleCleanupEffect
<1>2. /\ daemon_fifo \in Seq(Message) /\ daemon_fifo # <<>>
      /\ se'[h].execution_mode = se[h].next_execution_mode
      /\ se'[h].is_finished = (se[h].is_finished \/ m.is_finished)
      /\ disp' = {m}
      /\ UNCHANGED <<curr, fifo, client>>
  BY <1>1, HandleCleanupEffect
<1> SUFFICES ASSUME m.accel \in Accels PROVE LeftInv(m)'
  BY <1>2 DEF LeftsInv
<1>3. /\ ~NoMail(daemon_fifo, h)
      /\ \A n \in Message : OnlyMail(daemon_fifo, h, n) => n = m
      /\ \A n, k \in Message : n.from = h /\ k.from = h =>
           (TwoMails(daemon_fifo, h, n, k) => n = m)
  BY <1>1, <1>2, MailTailOwn
<1>4. ASSUME NEW a \in Accels \cup {CPU}, NEW fin \in BOOLEAN, Msg(h, a, fin) = m
      PROVE  m.accel = a /\ m.is_finished = fin
  BY <1>4 DEF Msg
<1>5. \A a \in Accels \cup {CPU}, fin \in BOOLEAN : Msg(h, a, fin) \in Message /\ Msg(h, a, fin).from = h
  BY MsgType
<1>6. JobInv(h)
  BY DEF JobsInv
<1>7. h \in se_table /\ se[h].execution_mode # IDLE /\ se[h].next_execution_mode \in {IDLE, CPU}
  BY <1>3, <1>6 DEF JobInv, NoJobInv, IdleInv
<1>8. se[h].execution_mode # CPU
  <2> SUFFICES ASSUME se[h].execution_mode = CPU PROVE m.accel = CPU
    BY ModesDiffer
  <2>1. CpuInv(h)
    BY <1>6, <1>7 DEF JobInv
  <2>2. PICK fin \in BOOLEAN : OnlyMail(daemon_fifo, h, Msg(h, CPU, fin))
    BY <1>3, <2>1 DEF CpuInv
  <2> QED BY <1>3, <1>4, <1>5, <2>2
<1>9. PICK a \in Accels : se[h].execution_mode = a
  BY <1>7, <1>8 DEF TypeInv, DaemonTypeInv, TypeOK, Entity, Modes
<1> DEFINE sent == curr[a].already_send_message
<1>10. AccelInv(h, a)
  BY <1>6, <1>7, <1>9 DEF JobInv
<1>11. \/ m = Msg(h, a, TRUE) /\ IsDone(client[h], fifo[h], sent)
       \/ m = Msg(h, a, FALSE) /\ sent
  BY <1>3, <1>5, <1>10 DEF AccelInv
<1>12. /\ m.accel = a
       /\ \/ m.is_finished /\ IsDone(client[h], fifo[h], sent)
          \/ m.is_finished = FALSE /\ sent
  BY <1>4, <1>11
<1>13. curr[a].handle = h
  BY <1>10 DEF AccelInv
<1> QED BY <1>1, <1>2, <1>7, <1>12, <1>13, ModesDiffer DEF LeftInv

\* The tick writes to a job that is leaving only if it has finished.
LEMMA UpdateCurrLeft ==
  ASSUME TypeInv, QueueInv, LeftsInv, NEW l \in Handles, UpdateCurr(l)
  PROVE  LeftsInv'
<1>1. PICK a \in Accels, h \in Handles : UpdateEffect(a, h, l)
  BY UpdateCurrEffect
<1>2. UNCHANGED <<disp, client>>
  BY <1>1 DEF UpdateEffect
<1> SUFFICES ASSUME NEW m \in disp, m.accel \in Accels PROVE LeftInv(m)'
  BY <1>2 DEF LeftsInv
<1> DEFINE b == m.accel
           x == m.from
<1>3. LeftInv(m)
  BY DEF LeftsInv
<1>4. x \in Handles /\ curr[b].handle = x /\ se[x].enqueued_in = b
  BY LeftFacts
<1>5. /\ curr'[b].handle = x
      /\ se'[x].execution_mode = se[x].execution_mode
      /\ se'[x].is_finished = se[x].is_finished
      /\ curr[b].already_send_message => curr'[b].already_send_message
  BY <1>1, <1>4 DEF UpdateEffect
<1>6. ASSUME m.is_finished
      PROVE  IsDone(client'[x], fifo'[x], curr'[b].already_send_message)
  <2>1. se[x].is_finished /\ IsDone(client[x], fifo[x], curr[b].already_send_message)
    BY <1>3, <1>6 DEF LeftInv
  <2>2. curr[b].already_send_message \in BOOLEAN
    BY DEF TypeInv, DaemonTypeInv, TypeOK, CurrState
  <2>3. CASE x = h /\ Preempts(a, l)
    <3>0. a = b
      BY <1>1, <1>4, <2>3 DEF UpdateEffect
    <3>1. /\ client[h].pc # "closed" /\ ~curr[a].already_send_message
          /\ fifo'[h] = Append(fifo[h], IdleMode) /\ curr'[a].already_send_message = TRUE
      BY <1>1, <2>3 DEF UpdateEffect
    <3>2. IsDone(client[x], fifo[x], FALSE)
      BY <2>1, <2>2, <3>0, <3>1
    <3> QED BY <1>2, <2>3, <3>0, <3>1, <3>2, SentKind, ModesDiffer
  <2>4. CASE ~(x = h /\ Preempts(a, l))
    <3>1. ~(x = l /\ FreesCpu(a, l))
      BY <1>1, <2>1 DEF UpdateEffect
    <3>2. fifo'[x] = fifo[x] /\ (b = a => x = h /\ Preempts(a, l) = FALSE)
      BY <1>1, <1>4, <2>4, <3>1 DEF UpdateEffect
    <3>3. curr'[b].already_send_message = curr[b].already_send_message
      BY <1>1, <2>2, <3>2 DEF UpdateEffect
    <3> QED BY <1>2, <2>1, <3>2, <3>3
  <2> QED BY <2>3, <2>4
<1> HIDE DEF b, x
<1> QED BY <1>3, <1>5, <1>6 DEF LeftInv, b, x

LEMMA LeftsStep ==
  ASSUME TypeInv, QueueInv, DispatchInv, JobsInv, [Next]_vars
  PROVE  LeftsInv'
<1>0. LeftsInv
  BY DispatchParts
<1>1. ASSUME UNCHANGED <<se, curr, disp, fifo, client>> PROVE LeftsInv'
  BY <1>0, <1>1, LeftsFrame
<1>2. ASSUME UNCHANGED <<curr, disp, fifo, client>>,
             NEW h \in Handles, \A x \in Handles \ {h} : se'[x] = se[x],
             \A a \in Accels : curr[a].handle = h => se[h].enqueued_in # a
      PROVE  LeftsInv'
  <2>1. \A m \in disp : m.accel \in Accels => m.from \in Handles \ {h}
    BY <1>0, <1>2, LeftFacts
  <2> QED BY <1>0, <1>2, <2>1, LeftsFrame
<1>3. ASSUME UNCHANGED <<se, curr, disp>>,
             \A m \in disp : m.accel \in Accels =>
                \A s \in BOOLEAN : IsDone(client[m.from], fifo[m.from], s)
                                     => IsDone(client'[m.from], fifo'[m.from], s)
      PROVE  LeftsInv'
  BY <1>0, <1>3, LeftsFrame
<1>4. ASSUME NEW h \in Handles, NEW a \in Accels, AddJob(h, a) PROVE LeftsInv'
  <2>1. h \notin se_table /\ h # NoHandle
    BY <1>4, DispatchAssumption DEF AddJob, QueueInv, NoHandle
  <2>2. \A b \in Accels : curr[b].handle # h
    BY <2>1 DEF QueueInv
  <2>3. \A x \in Handles \ {h} : se'[x] = se[x]
    BY <1>4 DEF AddJob, TypeInv, DaemonTypeInv, TypeOK
  <2> QED BY <1>2, <1>4, <2>2, <2>3 DEF AddJob
<1>5. ASSUME NEW l \in Handles, UpdateCurr(l) PROVE LeftsInv'
  BY <1>0, <1>5, UpdateCurrLeft
<1>6. ASSUME NEW h \in Handles, RemoveJob(h) PROVE LeftsInv'
  <2>1. \A a \in Accels : curr[a].handle = h => se[h].enqueued_in # a
    BY <1>6 DEF RemoveJob
  <2>2. \A x \in Handles \ {h} : se'[x] = se[x]
    BY <1>6 DEF RemoveJob, TypeInv, DaemonTypeInv, TypeOK
  <2> QED BY <1>2, <1>6, <2>1, <2>2 DEF RemoveJob
<1>7. CASE PickIdle
  <2> DEFINE a == main.accel
  <2>1. a \in Accels /\ curr[a].handle = NoHandle /\ PickNext(a) /\ UNCHANGED disp
    BY <1>7, IdleAccelIsFree DEF PickIdle, DispatchInv
  <2> HIDE DEF a
  <2>2. PICK h : PickFrame(a, h) /\ (h \in Handles => se[h].enqueued_in = a)
    BY <2>1, PickNextFrame
  <2>3. ASSUME NEW m \in disp, m.accel \in Accels
        PROVE  /\ curr'[m.accel] = curr[m.accel]
               /\ se'[m.from] = se[m.from] /\ fifo'[m.from] = fifo[m.from]
    <3>1. /\ m.from \in Handles /\ m.accel # a /\ m.from # h
      BY <1>0, <2>1, <2>2, <2>3, LeftFacts
    <3> QED BY <2>2, <2>3, <3>1 DEF PickFrame
  <2>4. UNCHANGED client
    BY <2>2 DEF PickFrame
  <2> QED BY <1>0, <2>1, <2>3, <2>4, LeftsFrame
<1>8. CASE EndTick
  <2>1. \A x \in Handles, s \in BOOLEAN : IsDone(client[x], fifo[x], s)
                                            => IsDone(client'[x], fifo'[x], s)
    BY <1>8, EndTickKind DEF ClientFrame
  <2> QED BY <1>0, <1>3, <1>8, <2>1, LeftFacts DEF EndTick, schedVars
<1>9. CASE HandleCleanup
  BY <1>9, CleanupLeft
<1>10. CASE DispatchNext \/ DispatchNothing
  BY <1>10 DEF DispatchNext, DispatchNothing, LeftsInv
<1>11. ASSUME NEW h \in Handles, Register(h) PROVE LeftsInv'
  <2>1. h \notin se_table /\ \A x \in Handles \ {h} : client'[x] = client[x] /\ fifo'[x] = fifo[x]
    BY <1>11 DEF Register, TypeInv, DaemonTypeInv, TypeOK
  <2>2. \A m \in disp : m.accel \in Accels => m.from \in Handles \ {h}
    BY <1>0, <2>1, LeftFacts
  <2> QED BY <1>3, <1>11, <2>1, <2>2 DEF Register, schedVars
<1>12. ASSUME NEW h \in Handles, Quiet(h) PROVE LeftsInv'
  <2>1. \A x \in Handles, s \in BOOLEAN : IsDone(client[x], fifo[x], s)
                                            => IsDone(client'[x], fifo'[x], s)
    BY <1>12, QuietKind DEF ClientFrame
  <2>2. UNCHANGED <<se, curr, disp>>
    BY <1>12, QuietKind DEF schedVars
  <2> QED BY <1>0, <1>3, <2>1, <2>2, LeftFacts
<1>13. ASSUME NEW h \in Handles, Free(h) PROVE LeftsInv'
  <2>1. /\ \A s \in BOOLEAN : ~IsDone(client[h], fifo[h], s)
        /\ \A x \in Handles \ {h} : client'[x] = client[x]
        /\ fifo' = fifo /\ UNCHANGED <<se, curr, disp>>
    BY <1>13, FreeKind, FreeEffect DEF schedVars
  <2> QED BY <1>0, <1>3, <2>1, LeftFacts
<1>14. ASSUME NEW h \in Handles, Client(h) PROVE LeftsInv'
  BY <1>12, <1>13, <1>14 DEF Client, Quiet
<1> QED
  BY <1>1, <1>4, <1>5, <1>6, <1>7, <1>8, <1>9, <1>10, <1>11, <1>14
     DEF Next, Main, Dispatcher, vars, schedVars, PeriodicTick, CheckCurr, UpdateNothing,
         SendFails, RemoveFails, Dexit, EndRemove

\* After pick_next every current job is on its accelerator, or has left it
\* with another message.
LEMMA PickNextRunners ==
  ASSUME TypeInv, QueueInv, RunnersInv, NEW a \in Accels, PickNext(a),
         \A m \in disp : m.accel # a => m \in disp'
  PROVE  RunnersInv'
<1> SUFFICES ASSUME NEW b \in Accels, curr'[b].handle # NoHandle
             PROVE  se'[curr'[b].handle].execution_mode = b \/ \E m \in disp' : m.accel = b
  BY DEF RunnersInv, HasRunner
<1>1. CASE b = a
  BY <1>1, PickNextEffect DEF Picks
<1>2. CASE b # a
  <2>1. PICK h : PickFrame(a, h) /\ (h \in Handles => se[h].enqueued_in = a)
    BY PickNextFrame
  <2>2. curr'[b] = curr[b]
    BY <1>2, <2>1 DEF PickFrame
  <2>3. curr[b].handle \in Handles /\ se[curr[b].handle].enqueued_in = b
    BY <2>2 DEF QueueInv, TypeInv, DaemonTypeInv, TypeOK
  <2>4. se'[curr[b].handle] = se[curr[b].handle]
    BY <1>2, <2>1, <2>3 DEF PickFrame
  <2>5. se[curr[b].handle].execution_mode = b \/ \E m \in disp : m.accel = b
    BY <2>2 DEF RunnersInv, HasRunner
  <2> QED BY <1>2, <2>2, <2>4, <2>5
<1> QED BY <1>1, <1>2

\* handle_cleanup changes the mode of a current job only if the job has left
\* the accelerator of the message.
LEMMA CleanupRunners ==
  ASSUME TypeInv, JobsInv, QueueInv, RunnersInv, HandleCleanup
  PROVE  RunnersInv'
<1>1. PICK m \in Message, h \in Handles : m = Head(daemon_fifo) /\ h = m.from
  BY HandleCleanupEffect
<1>2. /\ daemon_fifo \in Seq(Message) /\ daemon_fifo # <<>>
      /\ \A x \in Handles \ {h} : se'[x] = se[x]
      /\ disp = {} /\ disp' = {m} /\ UNCHANGED curr
  BY <1>1, HandleCleanupEffect
<1> SUFFICES ASSUME NEW b \in Accels, curr[b].handle # NoHandle
             PROVE  se'[curr[b].handle].execution_mode = b \/ \E n \in disp' : n.accel = b
  BY <1>2 DEF RunnersInv, HasRunner
<1>3. curr[b].handle \in se_table /\ curr[b].handle \in Handles
  BY DEF QueueInv, TypeInv, DaemonTypeInv, TypeOK
<1>4. se[curr[b].handle].execution_mode = b
  BY <1>2 DEF RunnersInv, HasRunner
<1>5. CASE curr[b].handle # h
  BY <1>2, <1>3, <1>4, <1>5
<1>6. CASE curr[b].handle = h
  <2>1. AccelInv(h, b)
    BY <1>3, <1>4, <1>6 DEF JobsInv, JobInv
  <2>2. /\ ~NoMail(daemon_fifo, h)
        /\ \A n \in Message : OnlyMail(daemon_fifo, h, n) => n = m
        /\ \A n, k \in Message : n.from = h /\ k.from = h =>
             (TwoMails(daemon_fifo, h, n, k) => n = m)
    BY <1>1, <1>2, MailTailOwn
  <2>3. \A a \in Accels \cup {CPU}, fin \in BOOLEAN :
          Msg(h, a, fin) \in Message /\ Msg(h, a, fin).from = h
    BY MsgType
  <2>4. m = Msg(h, b, TRUE) \/ m = Msg(h, b, FALSE)
    BY <2>1, <2>2, <2>3 DEF AccelInv
  <2>5. m.accel = b
    BY <2>4 DEF Msg
  <2> QED BY <1>2, <2>5
<1> QED BY <1>5, <1>6

LEMMA RunnersStep ==
  ASSUME TypeInv, QueueInv, DispatchInv, JobsInv, [Next]_vars
  PROVE  RunnersInv'
<1>0. RunnersInv /\ LeftsInv
  BY DispatchParts
<1>1. CASE UNCHANGED <<se, curr, disp>>
  BY <1>0, <1>1 DEF RunnersInv, HasRunner
<1>2. ASSUME UNCHANGED <<curr, disp>>, NEW h \in Handles, \A a \in Accels : curr[a].handle # h,
             \A x \in Handles \ {h} : se'[x] = se[x]
      PROVE  RunnersInv'
  <2>1. \A a \in Accels : curr[a].handle # NoHandle => curr[a].handle \in Handles \ {h}
    BY <1>2 DEF TypeInv, DaemonTypeInv, TypeOK, CurrState
  <2> QED BY <1>0, <1>2, <2>1 DEF RunnersInv, HasRunner
<1>3. ASSUME NEW h \in Handles, NEW a \in Accels, AddJob(h, a) PROVE RunnersInv'
  <2>1. h \notin se_table /\ h # NoHandle
    BY <1>3, DispatchAssumption DEF AddJob, QueueInv, NoHandle
  <2>2. \A b \in Accels : curr[b].handle # h
    BY <2>1 DEF QueueInv
  <2>3. \A x \in Handles \ {h} : se'[x] = se[x]
    BY <1>3 DEF AddJob, TypeInv, DaemonTypeInv, TypeOK
  <2> QED BY <1>2, <1>3, <2>2, <2>3 DEF AddJob
<1>4. ASSUME NEW h \in Handles, RemoveJob(h) PROVE RunnersInv'
  <2>1. h # NoHandle
    BY DispatchAssumption DEF NoHandle
  <2>2. \A b \in Accels : curr[b].handle # h
    BY <1>4, <2>1 DEF RemoveJob, QueueInv
  <2>3. \A x \in Handles \ {h} : se'[x] = se[x]
    BY <1>4 DEF RemoveJob, TypeInv, DaemonTypeInv, TypeOK
  <2> QED BY <1>2, <1>4, <2>2, <2>3 DEF RemoveJob
<1>5. ASSUME NEW l \in Handles, UpdateCurr(l) PROVE RunnersInv'
  <2>1. PICK a \in Accels, h \in Handles : UpdateEffect(a, h, l)
    BY <1>5, UpdateCurrEffect
  <2>2. /\ \A b \in Accels : curr'[b].handle = curr[b].handle
        /\ \A x \in Handles : se'[x].execution_mode = se[x].execution_mode
        /\ UNCHANGED disp
    BY <2>1 DEF UpdateEffect
  <2>3. \A b \in Accels : curr[b].handle # NoHandle => curr[b].handle \in Handles
    BY DEF TypeInv, DaemonTypeInv, TypeOK, CurrState
  <2> QED BY <1>0, <2>2, <2>3 DEF RunnersInv, HasRunner
<1>6. CASE PickIdle
  BY <1>0, <1>6, PickNextRunners DEF PickIdle, TypeInv, DaemonTypeInv
<1>7. CASE DispatchNext
  <2>1. PICK m \in disp : m.accel # CPU /\ PickNext(m.accel)
    BY <1>7 DEF DispatchNext
  <2>2. m.accel \in Accels
    BY <2>1, LeftAccelIsFree
  <2>3. \A n \in disp : n.accel = m.accel
    BY <1>0, <2>1 DEF LeftsInv
  <2> QED BY <1>0, <2>1, <2>2, <2>3, PickNextRunners
<1>8. CASE DispatchNothing
  <2>1. /\ UNCHANGED <<se, curr>> /\ \A n \in disp : n.accel = CPU
    BY <1>0, <1>8 DEF DispatchNothing, LeftsInv, schedVars
  <2> QED BY <1>0, <2>1, ModesDiffer DEF RunnersInv, HasRunner
<1>9. CASE HandleCleanup
  BY <1>0, <1>9, CleanupRunners
<1> QED
  BY <1>1, <1>3, <1>4, <1>5, <1>6, <1>7, <1>8, <1>9
     DEF Next, Main, Dispatcher, Client, vars, schedVars, PeriodicTick, CheckCurr,
         UpdateNothing, SendFails, Dexit, EndTick, RemoveFails, EndRemove, Register, Start,
         WaitForRunOn, InitAccel, InitCpu, Work, Free, Close

\* The main thread's decision to pick, made without the lock, is still right
\* when it takes the lock; and the client that add_job serves waits for it.
LEMMA MainStep ==
  ASSUME TypeInv, QueueInv, DispatchInv, JobsInv, [Next]_vars
  PROVE  MainInv'
<1>0. MainInv /\ LeftsInv
  BY DispatchParts
<1>1. main \in MainState /\ client \in [Handles -> ClientState]
  BY DEF TypeInv, DaemonTypeInv, TypeOK
<1>2. CASE UNCHANGED <<main, curr, se_table, client>>
  BY <1>0, <1>2 DEF MainInv
<1>3. ASSUME NEW h \in Handles, NEW a \in Accels, AddJob(h, a) PROVE MainInv'
  BY <1>3 DEF AddJob, StartTick, MainInv
<1>4. CASE PeriodicTick
  BY <1>4 DEF PeriodicTick, StartTick, MainInv
<1>5. ASSUME NEW a \in Accels, CheckCurr(a) PROVE MainInv'
  <2>1. main' = [main EXCEPT !.pc = IF curr[a].handle = NoHandle THEN "pick" ELSE "update",
                             !.accel = a, !.todo = @ \ {a}]
    BY <1>5 DEF CheckCurr
  <2>2. /\ main'.job = main.job /\ main'.accel = a
        /\ main'.pc = IF curr[a].handle = NoHandle THEN "pick" ELSE "update"
    BY <1>1, <2>1 DEF MainState
  <2>3. UNCHANGED <<curr, se_table, client>>
    BY <1>5 DEF CheckCurr, schedVars
  <2> QED BY <1>0, <2>2, <2>3 DEF MainInv
<1>6. ASSUME UNCHANGED <<se_table, client>>, main' = [main EXCEPT !.pc = "tick", !.accel = NoAccel]
      PROVE  MainInv'
  <2>1. main'.job = main.job /\ main'.pc = "tick"
    BY <1>1, <1>6 DEF MainState
  <2> QED BY <1>0, <1>6, <2>1 DEF MainInv
<1>7. CASE PickIdle \/ UpdateNothing
  BY <1>6, <1>7 DEF PickIdle, PickNext, UpdateNothing, schedVars
<1>8. ASSUME NEW l \in Handles, UpdateCurr(l) PROVE MainInv'
  BY <1>6, <1>8 DEF UpdateCurr
<1>9. CASE EndTick
  <2>1. main'.job = NoHandle /\ main'.pc # "pick"
    BY <1>1, <1>9 DEF EndTick, MainState
  <2> QED BY <2>1 DEF MainInv
<1>10. ASSUME NEW h \in Handles, RemoveJob(h) PROVE MainInv'
  BY <1>10 DEF RemoveJob, QueueInv, MainInv
<1>11. CASE EndRemove
  <2>1. main'.job = NoHandle /\ main'.pc # "pick"
    BY <1>1, <1>11 DEF EndRemove, MainState, QueueInv
  <2> QED BY <2>1 DEF MainInv
<1>12. CASE DispatchNext
  <2>1. PICK m \in disp : m.accel # CPU /\ PickNext(m.accel)
    BY <1>12 DEF DispatchNext
  <2>2. m.accel \in Accels /\ curr[m.accel].handle # NoHandle
    BY <1>0, <2>1, LeftAccelIsFree, LeftFacts
  <2>3. main.pc = "pick" => main.accel \in Accels /\ main.accel # m.accel
    BY <1>0, <2>2 DEF MainInv, TypeInv, DaemonTypeInv
  <2>4. \A b \in Accels : b # m.accel => curr'[b] = curr[b]
    BY <2>1, <2>2, PickNextEffect DEF PickFrame
  <2>5. UNCHANGED <<main, se_table, client>>
    BY <1>12, <2>1 DEF DispatchNext, PickNext
  <2> QED BY <1>0, <2>3, <2>4, <2>5 DEF MainInv
<1>13. ASSUME NEW h \in Handles, UNCHANGED <<main, curr, se_table>>,
              \A x \in Handles \ {h} : client'[x] = client[x], client[h].pc # "registering"
       PROVE  MainInv'
  <2>1. main.job # NoHandle => main.job \in Handles
    BY <1>1 DEF MainState
  <2> QED BY <1>0, <1>13, <2>1 DEF MainInv
<1>14. ASSUME NEW h \in Handles, Register(h) PROVE MainInv'
  <2>1. client[h].pc # "registering" /\ \A x \in Handles \ {h} : client'[x] = client[x]
    BY <1>1, <1>14 DEF Register
  <2> QED BY <1>13, <1>14, <2>1 DEF Register, schedVars
<1>15. ASSUME NEW h \in Handles, Client(h) PROVE MainInv'
  <2>1. client[h].pc # "registering"
    BY <1>15 DEF Client, Start, WaitForRunOn, InitAccel, InitCpu, Work, KeepsRunning, Free, Close
  <2>2. CASE Free(h)
    BY <1>13, <2>1, <2>2, FreeEffect DEF schedVars
  <2>3. CASE Quiet(h)
    <3>1. \A x \in Handles \ {h} : client'[x] = client[x]
      BY <2>3, StartKind, WaitForRunOnKind, InitAccelKind, InitCpuKind, WorkKind, CloseKind
         DEF Quiet
    <3> QED BY <1>13, <2>1, <2>3, <3>1, QuietKind DEF schedVars
  <2> QED BY <1>15, <2>2, <2>3 DEF Client, Quiet
<1> QED
  BY <1>2, <1>3, <1>4, <1>5, <1>7, <1>8, <1>9, <1>10, <1>11, <1>12, <1>14, <1>15
     DEF Next, Main, Dispatcher, vars, schedVars, SendFails, RemoveFails, Dexit,
         HandleCleanup, DispatchNothing

LEMMA DispatchStep ==
  ASSUME TypeInv, QueueInv, DispatchInv, JobsInv, [Next]_vars
  PROVE  DispatchInv'
<1>1. LeftsInv' /\ RunnersInv' /\ MainInv'
  BY LeftsStep, RunnersStep, MainStep
<1> QED BY <1>1 DEF DispatchInv, LeftsInv, RunnersInv, HasRunner, MainInv

LEMMA InvInit ==
  ASSUME Init
  PROVE  Inv
<1>1. TypeInv /\ QueueInv
  BY TypeInit, QueueInit
<1>2. DispatchInv
  BY DEF Init, DispatchInv, EmptyCurr
<1>3. ASSUME NEW h \in Handles PROVE JobInv(h)
  <2>1. /\ h \notin se_table /\ h \notin tokill_list /\ daemon_fifo = <<>>
        /\ se[h] = NewEntity(NoAccel) /\ client[h] = NewClient /\ fifo[h] = <<>>
    BY DEF Init
  <2>2. NoMail(daemon_fifo, h)
    BY <2>1 DEF NoMail
  <2> QED BY <2>1, <2>2 DEF JobInv, NoJobInv, IsDone
<1> QED BY <1>1, <1>2, <1>3 DEF Inv, JobsInv

LEMMA InvStep ==
  ASSUME Inv, [Next]_vars
  PROVE  Inv'
BY TypeStep, QueueStep, DispatchStep, JobStep DEF Inv

\* Every reachable state satisfies the inductive invariant: what the daemon believes
\* of a job determines what its client does, up to the messages on their way.
THEOREM InductiveInvariant == Spec => []Inv
BY InvInit, InvStep, PTL DEF Spec

--------------------------------------------------------------------------------
(* What the invariant implies.                                               *)

\* A client inside of an accelerator: the daemon believes it to be there.
LEMMA InsideJob ==
  ASSUME TypeInv, NEW h \in Handles, JobInv(h), client[h].pc = "accel"
  PROVE  LET a == client[h].device
         IN /\ a \in Accels /\ se[h].execution_mode = a /\ curr[a].handle = h
            /\ NoMail(daemon_fifo, h)
<1>1. se[h].execution_mode \in Accels \cup {IDLE, CPU}
  BY DEF TypeInv, DaemonTypeInv, TypeOK, Entity, Modes
<1>2. /\ ~Waits(client[h], fifo[h]) /\ \A s : ~OnCpu(client[h], fifo[h], s)
      /\ \A s : ~IsDone(client[h], fifo[h], s)
      /\ \A a, s : Uses(client[h], fifo[h], a, s) => client[h].device = a
  BY DEF Waits, Listens, OnCpu, IsDone, NewClient, Uses, IsGranted, Enters, IsInside
<1>3. h \in se_table /\ se[h].execution_mode # IDLE
  BY <1>2 DEF JobInv, NoJobInv, IdleInv
<1>4. se[h].execution_mode # CPU
  BY <1>2, <1>3 DEF JobInv, CpuInv
<1>5. PICK a \in Accels : se[h].execution_mode = a
  BY <1>1, <1>3, <1>4
<1>6. AccelInv(h, a)
  BY <1>3, <1>5 DEF JobInv
<1>7. NoMail(daemon_fifo, h) /\ client[h].device = a
  BY <1>2, <1>6 DEF AccelInv, AfterAccel
<1> QED BY <1>5, <1>6, <1>7 DEF AccelInv

\* A client that is inside of an accelerator is the current job of its run
\* queue, however update_curr, pick_next and handle_cleanup interleave; as a
\* queue has one current job, no two clients ever use an accelerator at once.
THEOREM UsersCurrent == Spec => []UsersAreCurrent
<1>1. Inv => UsersAreCurrent
  BY InsideJob DEF Inv, JobsInv, UsersAreCurrent
<1> QED BY <1>1, InductiveInvariant, PTL

\* handle_cleanup finds the entity of every message it reads: a job is only
\* removed when nothing of it is on its way to the dispatcher.
THEOREM SendersKnown == Spec => []SendersAreKnown
<1>1. ASSUME Inv, NEW i \in DOMAIN daemon_fifo PROVE daemon_fifo[i].from \in se_table
  <2>0. daemon_fifo[i] \in Message
    BY <1>1 DEF Inv, TypeInv, DaemonTypeInv, TypeOK
  <2>1. daemon_fifo[i].from \in Handles
    BY <2>0 DEF Message
  <2>2. ~NoMail(daemon_fifo, daemon_fifo[i].from)
    BY <1>1 DEF NoMail
  <2>3. JobInv(daemon_fifo[i].from)
    BY <1>1, <2>1 DEF Inv, JobsInv
  <2> QED BY <2>2, <2>3 DEF JobInv, NoJobInv
<1>2. Inv => SendersAreKnown
  BY <1>1 DEF SendersAreKnown
<1> QED BY <1>2, InductiveInvariant, PTL

\* What a client may find in its FIFO.
LEMMA FifoForms ==
  ASSUME TypeInv, NEW h \in Handles, JobInv(h)
  PROVE  \/ fifo[h] = <<>>
         \/ \E m \in Modes : fifo[h] = <<m>>
         \/ \E a \in Accels : fifo[h] = <<a, IdleMode>>
<1> DEFINE Form == \/ fifo[h] = <<>>
                   \/ \E m \in Modes : fifo[h] = <<m>>
                   \/ \E a \in Accels : fifo[h] = <<a, IdleMode>>
<1>1. /\ Waits(client[h], fifo[h]) => Form
      /\ \A s : OnCpu(client[h], fifo[h], s) => Form
      /\ \A s : IsDone(client[h], fifo[h], s) => Form
  BY DEF Waits, OnCpu, IsDone, Modes
<1>2. \A a \in Accels, s \in BOOLEAN : Uses(client[h], fifo[h], a, s) => Form
  BY ModesDiffer DEF Uses, IsGranted, Enters, IsInside, Modes
<1>3. se[h].execution_mode \in Accels \cup {IDLE, CPU}
  BY DEF TypeInv, DaemonTypeInv, TypeOK, Entity, Modes
<1>4. CASE h \notin se_table
  BY <1>1, <1>4 DEF JobInv, NoJobInv
<1>5. CASE h \in se_table /\ se[h].execution_mode = IDLE
  BY <1>1, <1>5 DEF JobInv, IdleInv
<1>6. CASE h \in se_table /\ se[h].execution_mode = CPU
  BY <1>1, <1>6 DEF JobInv, CpuInv
<1>7. ASSUME h \in se_table, NEW a \in Accels, se[h].execution_mode = a PROVE Form
  <2>1. AccelInv(h, a) /\ curr[a].already_send_message \in BOOLEAN
    BY <1>7 DEF JobInv, TypeInv, DaemonTypeInv, TypeOK, CurrState
  <2> HIDE DEF Form
  <2> QED BY <1>1, <1>2, <2>1 DEF AccelInv, AfterAccel
<1> QED BY <1>3, <1>4, <1>5, <1>6, <1>7

\* The daemon writes a preemption only after a grant, and a grant only after
\* the answer to a preemption: a client's FIFO never holds two of a kind.
THEOREM MessagesDoAlternate == Spec => []MessagesAlternate
<1>1. ASSUME Inv, NEW h \in Handles
      PROVE  /\ Len(fifo[h]) <= 2
             /\ Len(fifo[h]) = 2 => (fifo[h][1] \in Accels <=> fifo[h][2] \notin Accels)
  <2> DEFINE f == fifo[h]
  <2>1. ASSUME f = <<>> PROVE Len(f) <= 2 /\ Len(f) # 2
    BY <2>1
  <2>2. ASSUME NEW m \in Modes, f = <<m>> PROVE Len(f) <= 2 /\ Len(f) # 2
    BY <2>2
  <2>3. ASSUME NEW a \in Accels, f = <<a, IdleMode>>
        PROVE  Len(f) <= 2 /\ f[1] \in Accels /\ f[2] \notin Accels
    BY <2>3, ModesDiffer
  <2>4. \/ f = <<>>
        \/ \E m \in Modes : f = <<m>>
        \/ \E a \in Accels : f = <<a, IdleMode>>
    BY <1>1, FifoForms DEF Inv, JobsInv
  <2> HIDE DEF f
  <2>5. Len(f) <= 2 /\ (Len(f) = 2 => f[1] \in Accels /\ f[2] \notin Accels)
    BY <2>1, <2>2, <2>3, <2>4
  <2> QED BY <2>5 DEF f
<1>2. Inv => MessagesAlternate
  BY <1>1 DEF MessagesAlternate
<1> QED BY <1>2, InductiveInvariant, PTL

\* Only pick_next grants, and to a job that waits.
LEMMA PickNextGrants ==
  ASSUME Inv, NEW a \in Accels, PickNext(a), NEW x \in Handles, Granted(x)
  PROVE  Waits(client[x], fifo[x])
<1>1. TypeInv /\ QueueInv /\ JobInv(x)
  BY DEF Inv, JobsInv
<1>2. ASSUME NEW h, PickFrame(a, h), x # h PROVE FALSE
  <2>1. fifo'[x] = fifo[x]
    BY <1>2 DEF PickFrame
  <2>2. Len(fifo[x]) \in Nat
    BY <1>1 DEF TypeInv, DaemonTypeInv, TypeOK
  <2> QED BY <2>1, <2>2 DEF Granted
<1>3. CASE PickFrame(a, NoHandle)
  BY <1>2, <1>3, DispatchAssumption DEF NoHandle
<1>4. ASSUME NEW h \in Handles, Picks(a, h), PickFrame(a, h) PROVE Waits(client[x], fifo[x])
  <2>1. x = h
    BY <1>2, <1>4
  <2> QED BY <1>1, <1>4, <2>1 DEF Picks, JobInv, IdleInv
<1> QED BY <1>1, <1>3, <1>4, PickNextEffect

\* The tick writes IDLE or CPU only.
LEMMA UpdateCurrGrants ==
  ASSUME TypeInv, QueueInv, NEW l \in Handles, UpdateCurr(l), NEW x \in Handles
  PROVE  ~Granted(x)
<1>1. PICK a \in Accels, h \in Handles : UpdateEffect(a, h, l)
  BY UpdateCurrEffect
<1>2. fifo[x] \in Seq(Modes) /\ IdleMode \in Modes /\ IDLE \in Modes
  BY DEF TypeInv, DaemonTypeInv, TypeOK, Modes, IdleMode
<1>3. \/ fifo'[x] = fifo[x]
      \/ \E m \in Modes \ Accels : fifo'[x] = Append(fifo[x], m)
  BY <1>1, <1>2, ModesDiffer DEF UpdateEffect
<1>4. ASSUME NEW m \in Modes \ Accels, fifo'[x] = Append(fifo[x], m) PROVE ~Granted(x)
  <2>1. fifo'[x][Len(fifo'[x])] = m
    BY <1>2, <1>4
  <2> QED BY <2>1 DEF Granted
<1>5. CASE fifo'[x] = fifo[x]
  BY <1>2, <1>5 DEF Granted
<1> QED BY <1>3, <1>4, <1>5

\* A client's step makes its FIFO shorter or leaves it as it is.
LEMMA ClientGrants ==
  ASSUME TypeInv, NEW h \in Handles, Client(h), NEW x \in Handles
  PROVE  ~Granted(x)
<1> DEFINE Shrinks == Len(fifo'[x]) <= Len(fifo[x])
<1>1. fifo \in [Handles -> Seq(Modes)] /\ client[h] \in ClientState
  BY DEF TypeInv, DaemonTypeInv, TypeOK
<1>2. Len(fifo[x]) \in Nat /\ Len(<<>>) = 0 /\ (fifo[x] # <<>> => Len(Tail(fifo[x])) = Len(fifo[x]) - 1)
  BY <1>1
<1>3. ASSUME NEW c, UpdateRunOn(h, c) PROVE Shrinks
  <2>1. \/ fifo' = fifo
        \/ fifo' = [fifo EXCEPT ![h] = Tail(@)] /\ fifo[h] # <<>>
    BY <1>3 DEF UpdateRunOn
  <2>2. \/ fifo'[x] = fifo[x]
        \/ fifo[x] # <<>> /\ fifo'[x] = Tail(fifo[x])
    BY <1>1, <2>1
  <2>3. Len(fifo'[x]) = Len(fifo[x]) \/ Len(fifo'[x]) = Len(fifo[x]) - 1
    BY <1>2, <2>2
  <2> QED BY <1>2, <2>3
<1>4. CASE Close(h)
  <2>1. fifo'[x] = fifo[x] \/ fifo'[x] = <<>>
    BY <1>1, <1>4 DEF Close
  <2> QED BY <1>2, <2>1 DEF Granted
<1>5. CASE UNCHANGED fifo
  BY <1>2, <1>5 DEF Granted
<1>6. Len(fifo'[x]) \in Nat => (Shrinks => ~Granted(x))
  BY <1>2 DEF Granted
<1>7. CASE Shrinks
  BY <1>2, <1>7 DEF Granted
<1> HIDE DEF Shrinks
<1>8. CASE Start(h) \/ WaitForRunOn(h) \/ Work(h)
  BY <1>3, <1>7, <1>8 DEF Start, WaitForRunOn, Work
<1>9. CASE InitAccel(h) \/ InitCpu(h) \/ Free(h)
  BY <1>5, <1>9 DEF InitAccel, InitCpu, Free
<1> QED BY <1>4, <1>8, <1>9 DEF Client

\* "a finished handle will never be picked to run again": a RUNON message for
\* an accelerator is only written to a client that waits for it, with an empty
\* FIFO and unfinished work.
THEOREM GrantsAreClean == Spec => GrantIsClean
<1> DEFINE Clean(h) == /\ fifo[h] = <<>>
                       /\ ~client[h].is_finished
                       /\ client[h].pc \in {"registering", "accepted", "loop"}
           Step == \A h \in Handles : Granted(h) => Clean(h)
<1>1. ASSUME Inv, [Next]_vars PROVE [Step]_vars
  <2> SUFFICES ASSUME Next, NEW x \in Handles, Granted(x) PROVE Clean(x)
    BY <1>1
  <2>1. ASSUME Waits(client[x], fifo[x]) PROVE Clean(x)
    BY <2>1 DEF Waits, Listens
  <2>2. CASE UNCHANGED fifo
    <3>1. Len(fifo[x]) \in Nat
      BY <1>1 DEF Inv, TypeInv, DaemonTypeInv, TypeOK
    <3> QED BY <2>2, <3>1 DEF Granted
  <2>3. CASE PickIdle
    BY <1>1, <2>1, <2>3, PickNextGrants DEF PickIdle, Inv, TypeInv, DaemonTypeInv
  <2>4. CASE DispatchNext
    <3>1. PICK m \in disp : m.accel # CPU /\ PickNext(m.accel)
      BY <2>4 DEF DispatchNext
    <3>2. m.accel \in Accels
      BY <1>1, <3>1, LeftAccelIsFree DEF Inv
    <3> QED BY <1>1, <2>1, <3>1, <3>2, PickNextGrants
  <2>5. ASSUME NEW l \in Handles, UpdateCurr(l) PROVE FALSE
    BY <1>1, <2>5, UpdateCurrGrants DEF Inv
  <2>6. ASSUME NEW h \in Handles, Client(h) PROVE FALSE
    BY <1>1, <2>6, ClientGrants DEF Inv
  <2> HIDE DEF Clean
  <2> QED
    BY <2>2, <2>3, <2>4, <2>5, <2>6
       DEF Next, Main, Dispatcher, AddJob, PeriodicTick, CheckCurr, UpdateNothing, SendFails,
           RemoveFails, Dexit, EndTick, RemoveJob, EndRemove, HandleCleanup, DispatchNothing,
           Register
<1>2. Spec => [][Step]_vars
  BY <1>1, InductiveInvariant, PTL DEF Spec
<1> QED BY <1>2, SMTT(30) DEF GrantIsClean
=============================================================================
