---------------------------- MODULE UssRegistration ----------------------------
(***************************************************************************)
(* Registration of clients at the user-space daemon                        *)
(* (daemon/uss_registration_controller.cpp and the part of the main loop   *)
(* that uses it).  The threads:                                            *)
(*                                                                         *)
(*   acceptor  start_handle_incoming_registrations: accepts a connection,  *)
(*             waits while too many registrations are under way, starts a  *)
(*             thread for it and waits until that has taken its parameter; *)
(*   thread    handle_incoming_registration, one for each connection: gets *)
(*             a handle, fills the tables, counts itself in new_regs,      *)
(*             waits for the scheduler's decision, answers the client;     *)
(*   main      takes pending registrations, adds their jobs, removes the   *)
(*             jobs that are finished and recycles their handles.          *)
(*                                                                         *)
(* A step is what a thread does under reg_mutex or handle_mutex, or one    *)
(* read or write of a socket.  A client's address is the client itself: it *)
(* is the time of its mkfifo(), which fails for a name that exists, so the *)
(* branch for an address that is known already is never taken; neither is  *)
(* the one for a declined registration, since add_job calls dexit() then.  *)
(* The wait of a registration thread on the status of its entry is modelled *)
(* as a look at the entry that is repeated at will.                        *)
(*                                                                         *)
(* overtaken is a history variable: no guard reads it and the program does *)
(* not have it.  It remembers the handles for which remove_job was faster  *)
(* than the registration thread with its remove_reg_pending_entry, so that *)
(* the properties can say what that race breaks and what it does not.      *)
(***************************************************************************)
EXTENDS Integers, Sequences, FiniteSets

CONSTANTS
  Clients,      \* the threads that register, each once
  Unsuited,     \* those that implement no accelerator the daemon has
  NoClient,     \* no client
  MaxThreads    \* USS_NOF_MAX_DISPATCHER_THREADS

ASSUME RegistrationAssumption ==
  /\ IsFiniteSet(Clients) /\ Unsuited \subseteq Clients /\ NoClient \notin Clients
  /\ MaxThreads \in Nat \ {0}

VARIABLES
  alive,          \* the daemon has not called dexit() or exit()
  client,         \* client[c]: how far c is
  backlog,        \* connections that wait for accept()
  acceptor,       \* the acceptor thread
  thread,         \* thread[c]: the registration thread of c
  pending,        \* reg_pending_table
  reg_table,      \* handle to address
  addr_table,     \* address to handle
  new_regs,       \* number of registrations that wait for the main thread
  max_handle,     \* the last new handle
  reuse_handles,  \* handles to be used again
  overtaken,      \* history: handles recycled while they had a pending entry
  se_table,       \* the handles that have a scheduling entity
  tokill_list,    \* handles of finished jobs
  main            \* the main thread

tables == <<pending, reg_table, addr_table, new_regs>>
sched == <<se_table, tokill_list, main>>
handles == <<max_handle, reuse_handles, overtaken>>
threads == <<client, backlog, acceptor, thread>>
vars == <<alive, threads, tables, handles, sched>>

--------------------------------------------------------------------------------
NoHandle == 0

\* Where a registration thread is, in the order it gets there.
Stages == {"none", "created", "started", "handle", "pending", "addressed",
           "counted", "decided", "answered", "removed", "ended"}

Status == {"NOT_PROCESSED", "SCHED_ACCEPTED"}

PendingEntry == [handle : Nat, client : Clients \cup {NoClient}, status : Status]

\* What operator[] of the pending table returns for a key it does not have.
BlankEntry == [handle |-> 0, client |-> NoClient, status |-> "NOT_PROCESSED"]

\* The map f with key x: map::insert keeps an old value, an assignment does not.
Insert(f, x, v) == [y \in DOMAIN f \cup {x} |-> IF y \in DOMAIN f THEN f[y] ELSE v]
Assign(f, x, v) == [y \in DOMAIN f \cup {x} |-> IF y = x THEN v ELSE f[y]]
Erase(f, x) == [y \in DOMAIN f \ {x} |-> f[y]]

Init ==
  /\ alive = TRUE
  /\ client = [c \in Clients |-> "new"]
  /\ backlog = <<>>
  /\ acceptor = [pc |-> "accept", conn |-> NoClient]
  /\ thread = [c \in Clients |-> [pc |-> "none", handle |-> NoHandle]]
  /\ pending = <<>> /\ reg_table = <<>> /\ addr_table = <<>>
  /\ new_regs = 0
  /\ max_handle = 0 /\ reuse_handles = {} /\ overtaken = {}
  /\ se_table = {} /\ tokill_list = {}
  /\ main = [pc |-> "poll", handle |-> NoHandle]

Dexit == alive' = FALSE /\ UNCHANGED <<threads, tables, handles, sched>>

--------------------------------------------------------------------------------
(* The client and the acceptor.                                              *)

Connect(c) ==
  /\ client[c] = "new"
  /\ client' = [client EXCEPT ![c] = "connected"]
  /\ backlog' = Append(backlog, c)
  /\ UNCHANGED <<alive, acceptor, thread, tables, handles, sched>>

Accept ==
  /\ acceptor.pc = "accept" /\ backlog # <<>>
  /\ acceptor' = [pc |-> "throttle", conn |-> Head(backlog)]
  /\ backlog' = Tail(backlog)
  /\ UNCHANGED <<alive, client, thread, tables, handles, sched>>

\* new_regs is looked at under reg_mutex: sleep on reg_cond ...
Throttle ==
  /\ acceptor.pc = "throttle" /\ new_regs >= MaxThreads
  /\ acceptor' = [acceptor EXCEPT !.pc = "sleep"]
  /\ UNCHANGED <<alive, client, backlog, thread, tables, handles, sched>>

\* ... or start a thread and wait for it to take its parameter.
CreateThread ==
  /\ acceptor.pc = "throttle" /\ new_regs < MaxThreads
  /\ acceptor' = [acceptor EXCEPT !.pc = "handover"]
  /\ thread' = [thread EXCEPT ![acceptor.conn].pc = "created"]
  /\ UNCHANGED <<alive, client, backlog, tables, handles, sched>>

--------------------------------------------------------------------------------
(* The registration thread of client c.                                      *)

At(c, s) == thread[c].pc = s
Advance(c, s) == thread' = [thread EXCEPT ![c].pc = s]

\* parameter_transported: the acceptor goes on to the next connection.
TakeParameter(c) ==
  /\ At(c, "created")
  /\ Advance(c, "started")
  /\ acceptor' = [pc |-> "accept", conn |-> NoClient]
  /\ UNCHANGED <<alive, client, backlog, tables, handles, sched>>

\* The client's message is shorter than an address info: "received too small msai".
ReadFails(c) ==
  /\ At(c, "started")
  /\ Dexit

\* Variants of NewHandle and Popped: an increment in the wrong place, and a
\* handle that stays in the recycling list.
NewHandleLate == max_handle
NotPopped(h) == reuse_handles

NewHandle == max_handle + 1
Popped(h) == reuse_handles \ {h}

\* get_unique_handle: the smallest handle to be used again, or a new one.
GetHandle(c) ==
  /\ At(c, "started")
  /\ \/ /\ reuse_handles = {}
        /\ max_handle' = max_handle + 1
        /\ thread' = [thread EXCEPT ![c] = [pc |-> "handle", handle |-> NewHandle]]
        /\ UNCHANGED reuse_handles
     \/ \E h \in reuse_handles :
          /\ \A k \in reuse_handles : h <= k
          /\ reuse_handles' = Popped(h)
          /\ thread' = [thread EXCEPT ![c] = [pc |-> "handle", handle |-> h]]
          /\ UNCHANGED max_handle
  /\ UNCHANGED <<alive, client, backlog, acceptor, tables, sched, overtaken>>

\* The rest of add_reg_pending_entry.
AddPending(c) ==
  /\ At(c, "handle")
  /\ pending' = Insert(pending, thread[c].handle,
                       [handle |-> thread[c].handle, client |-> c,
                        status |-> "NOT_PROCESSED"])
  /\ Advance(c, "pending")
  /\ UNCHANGED <<alive, client, backlog, acceptor, reg_table, addr_table, new_regs,
                 handles, sched>>

AddAddress(c) ==
  /\ At(c, "pending")
  /\ reg_table' = Insert(reg_table, thread[c].handle, c)
  /\ addr_table' = Insert(addr_table, c, thread[c].handle)
  /\ Advance(c, "addressed")
  /\ UNCHANGED <<alive, client, backlog, acceptor, pending, new_regs, handles, sched>>

Increase(c) ==
  /\ At(c, "addressed")
  /\ new_regs' = new_regs + 1
  /\ Advance(c, "counted")
  /\ UNCHANGED <<alive, client, backlog, acceptor, pending, reg_table, addr_table,
                 handles, sched>>

\* A variant of Decide that does not wait.
DecideAtOnce(c) ==
  /\ At(c, "counted")
  /\ thread[c].handle \in DOMAIN pending
  /\ Advance(c, "decided")
  /\ UNCHANGED <<alive, client, backlog, acceptor, tables, handles, sched>>

\* The status of the entry shows that the scheduler has decided.
Decide(c) ==
  /\ At(c, "counted")
  /\ thread[c].handle \in DOMAIN pending
  /\ pending[thread[c].handle].status # "NOT_PROCESSED"
  /\ Advance(c, "decided")
  /\ UNCHANGED <<alive, client, backlog, acceptor, tables, handles, sched>>

\* The entry is gone: operator[] makes a blank one, and the thread waits on it.
WaitOnBlank(c) ==
  /\ At(c, "counted")
  /\ thread[c].handle \notin DOMAIN pending
  /\ pending' = Insert(pending, thread[c].handle, BlankEntry)
  /\ UNCHANGED <<alive, threads, reg_table, addr_table, new_regs, handles, sched>>

Respond(c) ==
  /\ At(c, "decided")
  /\ client' = [client EXCEPT ![c] = "accepted"]
  /\ Advance(c, "answered")
  /\ UNCHANGED <<alive, backlog, acceptor, tables, handles, sched>>

\* A variant of RemovePending: what is done for a declined registration.
RemoveDeclined(c) ==
  /\ At(c, "answered")
  /\ pending' = Erase(pending, thread[c].handle)
  /\ reuse_handles' = reuse_handles \cup {thread[c].handle}
  /\ Advance(c, "removed")
  /\ UNCHANGED <<alive, client, backlog, acceptor, reg_table, addr_table, new_regs,
                 max_handle, overtaken, sched>>

\* remove_reg_pending_entry, after the answer and so after the client may run.
RemovePending(c) ==
  /\ At(c, "answered")
  /\ pending' = Erase(pending, thread[c].handle)
  /\ Advance(c, "removed")
  /\ UNCHANGED <<alive, client, backlog, acceptor, reg_table, addr_table, new_regs,
                 handles, sched>>

\* A variant of Signalled without the signal.
NotSignalled == acceptor

Signalled == IF acceptor.pc = "sleep" THEN [acceptor EXCEPT !.pc = "throttle"]
             ELSE acceptor

\* "signal that more new reg threads can be spawned", without reg_mutex.
SignalAcceptor(c) ==
  /\ At(c, "removed")
  /\ acceptor' = Signalled
  /\ Advance(c, "ended")
  /\ UNCHANGED <<alive, client, backlog, tables, handles, sched>>

--------------------------------------------------------------------------------
(* The main thread.                                                          *)

Unprocessed == {h \in DOMAIN pending : pending[h].status = "NOT_PROCESSED"}

\* get_new_reg returns the last unprocessed entry of the table.
GetNewReg ==
  /\ main.pc = "poll" /\ new_regs > 0
  /\ \E h \in Unprocessed :
       /\ \A k \in Unprocessed : k <= h
       /\ main' = [pc |-> "add", handle |-> pending[h].handle]
  /\ UNCHANGED <<alive, threads, tables, handles, se_table, tokill_list>>

\* There is none: get_new_reg returns -1, and get_msai exits.
GetNewRegFails ==
  /\ main.pc = "poll" /\ new_regs > 0
  /\ Unprocessed = {}
  /\ Dexit

\* The entry that get_new_reg chose is that of a client the daemon can serve.
Suitable(h) == h \in DOMAIN pending /\ pending[h].client \notin Unsuited

\* get_msai, then add_job.
AddJob ==
  /\ main.pc = "add"
  /\ Suitable(main.handle)
  /\ main.handle \notin se_table
  /\ se_table' = se_table \cup {main.handle}
  /\ main' = [main EXCEPT !.pc = "finish"]
  /\ UNCHANGED <<alive, threads, tables, handles, tokill_list>>

\* "get_msi failed", or add_job: "found ne accelerator for incoming reg".
AddJobFails ==
  /\ main.pc = "add"
  /\ ~Suitable(main.handle)
  /\ Dexit

\* A variant of Decided: the entry keeps its status.
NotDecided(h) == pending[h]

\* The entry with the scheduler's decision; operator[] makes one if need be.
Decided(h) ==
  [(IF h \in DOMAIN pending THEN pending[h] ELSE BlankEntry)
     EXCEPT !.status = "SCHED_ACCEPTED"]

\* finish_registration: the status, then new_regs in a critical section of its own.
FinishRegistration ==
  /\ main.pc = "finish"
  /\ pending' = Assign(pending, main.handle, Decided(main.handle))
  /\ main' = [main EXCEPT !.pc = "decrease"]
  /\ UNCHANGED <<alive, threads, reg_table, addr_table, new_regs, handles,
                 se_table, tokill_list>>

\* A variant of Decrease that forgets to count.
DecreaseForgotten ==
  /\ main.pc = "decrease"
  /\ main' = [pc |-> "poll", handle |-> NoHandle]
  /\ UNCHANGED <<alive, threads, tables, handles, se_table, tokill_list>>

Decrease ==
  /\ main.pc = "decrease"
  /\ new_regs' = new_regs - 1
  /\ main' = [pc |-> "poll", handle |-> NoHandle]
  /\ UNCHANGED <<alive, threads, pending, reg_table, addr_table, handles,
                 se_table, tokill_list>>

\* No more registrations: the tick, then remove_finished_jobs.
StartRemove ==
  /\ main.pc = "poll" /\ new_regs = 0
  /\ main' = [main EXCEPT !.pc = "remove"]
  /\ UNCHANGED <<alive, threads, tables, handles, se_table, tokill_list>>

\* A variant of WithoutAddress that leaves the address behind.
AddressLeft(h) == addr_table

WithoutAddress(h) == Erase(addr_table, reg_table[h])

\* remove_job: the entity, then both addresses, then the handle is free, even if
\* the registration thread that answered for it has not removed its entry yet.
RemoveJob(h) ==
  /\ main.pc = "remove"
  /\ h \in tokill_list /\ \A k \in tokill_list : h <= k
  /\ se_table' = se_table \ {h}
  /\ tokill_list' = tokill_list \ {h}
  /\ addr_table' = WithoutAddress(h)
  /\ reg_table' = Erase(reg_table, h)
  /\ reuse_handles' = reuse_handles \cup {h}
  /\ overtaken' = overtaken \cup ({h} \cap DOMAIN pending)
  /\ UNCHANGED <<alive, threads, pending, new_regs, max_handle, main>>

EndRemove ==
  /\ main.pc = "remove" /\ tokill_list = {}
  /\ main' = [main EXCEPT !.pc = "poll"]
  /\ UNCHANGED <<alive, threads, tables, handles, se_table, tokill_list>>

--------------------------------------------------------------------------------
(* The scheduler's other uses of the tables.                                 *)

\* The dispatcher handles the ISFINISHED message of a client that was told to
\* run: get_handle_of_address, then handle_cleanup.
HandleFinished(c) ==
  /\ client[c] = "accepted"
  /\ \E h \in se_table : h \in DOMAIN reg_table /\ reg_table[h] = c
  /\ client' = [client EXCEPT ![c] = "finished"]
  /\ tokill_list' = tokill_list \cup {addr_table[c]}
  /\ UNCHANGED <<alive, backlog, acceptor, thread, tables, handles, se_table, main>>

\* pick_next may choose any job: "get_address_of_handle HANDLE not found".
AddressFails ==
  /\ \E h \in se_table : h \notin DOMAIN reg_table
  /\ Dexit

--------------------------------------------------------------------------------
Acceptor == Accept \/ Throttle \/ CreateThread

Thread(c) == \/ TakeParameter(c) \/ ReadFails(c) \/ GetHandle(c) \/ AddPending(c)
             \/ AddAddress(c) \/ Increase(c) \/ Decide(c) \/ WaitOnBlank(c) \/ Respond(c)
             \/ RemovePending(c) \/ SignalAcceptor(c)

Main == \/ GetNewReg \/ GetNewRegFails \/ AddJob \/ AddJobFails
        \/ FinishRegistration \/ Decrease \/ StartRemove \/ EndRemove
        \/ \E h \in tokill_list : RemoveJob(h)

Next == alive /\ (\/ Acceptor \/ Main \/ AddressFails
                  \/ \E c \in Clients : Connect(c) \/ Thread(c) \/ HandleFinished(c))

Spec == Init /\ [][Next]_vars

\* The threads of the daemon are scheduled again and again; nothing makes a
\* program connect or finish.
FairSpec == Spec /\ WF_vars(alive /\ Acceptor) /\ WF_vars(alive /\ Main)
                 /\ \A c \in Clients : WF_vars(alive /\ Thread(c))
--------------------------------------------------------------------------------
(* Properties.                                                               *)

TypeOK ==
  /\ alive \in BOOLEAN
  /\ client \in [Clients -> {"new", "connected", "accepted", "finished"}]
  /\ backlog \in Seq(Clients)
  /\ acceptor \in [pc : {"accept", "throttle", "sleep", "handover"},
                   conn : Clients \cup {NoClient}]
  /\ thread \in [Clients -> [pc : Stages, handle : Nat]]
  /\ \A c \in Clients : thread[c].handle = NoHandle
                          => thread[c].pc \in {"none", "created", "started"}
  /\ DOMAIN pending \subseteq Nat /\ \A h \in DOMAIN pending : pending[h] \in PendingEntry
  /\ DOMAIN reg_table \subseteq Nat /\ \A h \in DOMAIN reg_table : reg_table[h] \in Clients
  /\ DOMAIN addr_table \subseteq Clients /\ \A c \in DOMAIN addr_table : addr_table[c] \in Nat
  /\ new_regs \in Nat /\ max_handle \in Nat
  /\ reuse_handles \subseteq 1..max_handle /\ overtaken \subseteq 1..max_handle
  /\ se_table \subseteq Nat /\ tokill_list \subseteq se_table
  /\ main \in [pc : {"poll", "add", "finish", "decrease", "remove"}, handle : Nat]

\* get_handle_of_address and get_address_of_handle are inverse to each other,
\* whatever was added and removed by the registration threads and the main
\* thread: the daemon never takes a message for that of another job.
TablesAgree ==
  /\ \A h \in DOMAIN reg_table : /\ reg_table[h] \in DOMAIN addr_table
                                  /\ addr_table[reg_table[h]] = h
  /\ \A c \in DOMAIN addr_table : /\ addr_table[c] \in DOMAIN reg_table
                                  /\ reg_table[addr_table[c]] = c

\* A handle is free only when no table has it: not that of the scheduler, not
\* that of the addresses.
FreeHandlesAreForgotten ==
  reuse_handles \cap (se_table \cup tokill_list \cup DOMAIN reg_table) = {}

\* As long as no handle was recycled under its entry, new_regs counts the entries
\* that wait for the main thread, except that an entry is there before its thread
\* is counted and is decided before main counts down.  The two ends are in
\* different critical sections, and main may take an entry that is not counted
\* yet instead of one that is.
NewRegsBalance ==
  overtaken = {} =>
    new_regs + Cardinality({c \in Clients : thread[c].pc \in {"pending", "addressed"}})
      = Cardinality(Unprocessed) + (IF main.pc = "decrease" THEN 1 ELSE 0)

\* "search must not fail".  Whatever was recycled when, add_job is never called
\* for a job that exists.  Its entry is there as get_new_reg found it, unless its
\* handle was recycled under an entry or is that of an entry operator[] made; and
\* get_new_reg finds one whenever new_regs says so, unless a handle was recycled
\* under its entry.
TakenEntryIsPending ==
  /\ main.pc = "add" => main.handle \notin se_table
  /\ main.pc = "add" /\ main.handle \notin overtaken \cup {NoHandle}
       => main.handle \in Unprocessed
  /\ overtaken = {} => /\ main.pc = "add" => main.handle # NoHandle
                       /\ main.pc = "poll" /\ new_regs > 0 => Unprocessed # {}

\* The answer ACCEPTED is true: the client has an address under its handle, and
\* under that an entity, or else it would wait for its first RUNON for ever.  Only
\* who was given an overtaken handle may be told so on the strength of the entry
\* of the one who had it before.
AcceptedHasJob ==
  \A c \in Clients : client[c] = "accepted" =>
    /\ c \in DOMAIN addr_table
    /\ addr_table[c] = thread[c].handle
    /\ thread[c].handle \in se_table \cup overtaken

\* The handle of c is in use: by its registration thread or by its job.
HoldsHandle(c) ==
  \/ thread[c].pc \in {"handle", "pending", "addressed", "counted", "decided", "answered"}
  \/ thread[c].handle \in se_table /\ client[c] # "new" /\ c \in DOMAIN addr_table

\* get_unique_handle: "a handle will be unique in all of USS daemon", although
\* handles are recycled by another thread than the one that hands them out.
HandlesAreUnique ==
  \A c, d \in Clients : (c # d /\ HoldsHandle(c) /\ HoldsHandle(d))
                          => thread[c].handle # thread[d].handle

\* What is true of that: two clients hold the same handle only if one of them has
\* finished, was removed and has left behind a registration thread that is about
\* to remove its entry.  So no two jobs share a handle, no two registrations that
\* wait for their answer do, and a handle that was never overtaken has one owner.
LeftoversShareHandles ==
  \A c, d \in Clients :
    (c # d /\ HoldsHandle(c) /\ HoldsHandle(d) /\ thread[c].handle = thread[d].handle) =>
      /\ thread[c].handle \in overtaken
      /\ \E b \in {c, d} : /\ thread[b].pc = "answered" /\ client[b] = "finished"
                           /\ b \notin DOMAIN addr_table

\* get_address_of_handle finds every job it is asked for: the address of a job
\* is there before the scheduler has the job.
ScheduledJobsHaveAddress == se_table \subseteq DOMAIN reg_table

\* A client that connects gets its answer, however many registrations are under
\* way and wherever the acceptor waits.
EveryConnectionIsAnswered ==
  \A c \in Clients : client[c] = "connected" ~> (client[c] # "connected" \/ ~alive)
===============================================================================
