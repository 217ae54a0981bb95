------------------------- MODULE UssRegistrationProofs -------------------------
(***************************************************************************)
(* The tables, handles, entries and answers of UssRegistration, for every  *)
(* set of clients, every limit on threads and every order of the threads'  *)
(* steps; what the late removal of an entry breaks is confined to the      *)
(* handles in overtaken.                                                   *)
(***************************************************************************)
EXTENDS UssRegistration, FiniteSetTheorems, TLAPS

--------------------------------------------------------------------------------
(* The invariant.                                                            *)

\* Every client has at most one registration thread: its connection is in the
\* backlog or in the acceptor's hands only while it has none.
ConnectionInv ==
  /\ \A i \in DOMAIN backlog : /\ thread[backlog[i]].pc = "none"
                               /\ client[backlog[i]] = "connected"
  /\ \A i, j \in DOMAIN backlog : i # j => backlog[i] # backlog[j]
  /\ acceptor.pc \in {"throttle", "sleep"} =>
       /\ acceptor.conn \in Clients
       /\ thread[acceptor.conn].pc = "none"
       /\ client[acceptor.conn] = "connected"
       /\ \A i \in DOMAIN backlog : backlog[i] # acceptor.conn
  /\ \A c \in Clients : client[c] = "new" => thread[c].pc = "none"

\* What the main thread has taken from new_regs is still counted there.
RegTypeInv ==
  /\ TypeOK
  /\ main.pc \in {"add", "finish", "decrease"} => new_regs > 0

\* Handles that were issued lately, and those that somebody may find: in the
\* table of addresses, or in an entry whose thread has not added its address.
Fresh == {c \in Clients : thread[c].pc = "handle"}
Unlisted == {c \in Clients : thread[c].pc = "pending"}
Owned == DOMAIN reg_table \cup {thread[c].handle : c \in Unlisted}

\* A handle is in one place: with a thread that has not used it, with a thread
\* that has not listed it, in the tables, or free.
HandleInv ==
  /\ \A c \in Clients : thread[c].handle \in 0..max_handle
  /\ Owned \subseteq 1..max_handle
  /\ reuse_handles \cap Owned = {}
  /\ \A c \in Fresh : thread[c].handle \notin Owned \cup reuse_handles
  /\ \A c \in Unlisted : thread[c].handle \notin DOMAIN reg_table
  /\ \A c, d \in Fresh \cup Unlisted : c # d => thread[c].handle # thread[d].handle

\* Only a thread that has listed its handle has an address.
AddressInv ==
  \A c \in DOMAIN addr_table :
    thread[c].pc \notin {"none", "created", "started", "handle", "pending"}

\* The scheduler has jobs of owned handles only: the main thread finds handles
\* in unprocessed entries (one that operator[] made has no handle).
JobInv ==
  /\ se_table \subseteq Owned
  /\ tokill_list \subseteq DOMAIN reg_table
  /\ \A h \in Unprocessed : pending[h].handle # NoHandle =>
       /\ pending[h].handle = h
       /\ h \in Owned
       /\ h \in se_table => main.pc = "finish" /\ main.handle = h
  /\ NoHandle \notin DOMAIN pending
  /\ main.pc = "add" /\ main.handle # NoHandle => main.handle \in Owned
  /\ main.pc = "finish" => main.handle # NoHandle

TableInv == RegTypeInv /\ ConnectionInv /\ HandleInv /\ AddressInv /\ TablesAgree /\ JobInv

--------------------------------------------------------------------------------
(* How the steps of a thread change `thread', and the rest of a step's frame. *)

\* Advance moves one thread and keeps every handle.
LEMMA Advanced ==
  ASSUME TypeOK, NEW c \in Clients, NEW s \in Stages, Advance(c, s)
  PROVE  /\ thread' \in [Clients -> [pc : Stages, handle : Nat]]
         /\ thread'[c].pc = s
         /\ \A d \in Clients : thread'[d].handle = thread[d].handle
         /\ \A d \in Clients \ {c} : thread'[d] = thread[d]
BY DEF TypeOK, Advance

\* CreateThread does the same to the thread of the acceptor's connection.
LEMMA Created ==
  ASSUME TypeOK, ConnectionInv, CreateThread
  PROVE  /\ thread' \in [Clients -> [pc : Stages, handle : Nat]]
         /\ acceptor.conn \in Clients
         /\ thread'[acceptor.conn].pc = "created"
         /\ \A d \in Clients : thread'[d].handle = thread[d].handle
         /\ \A d \in Clients \ {acceptor.conn} : thread'[d] = thread[d]
BY DEF TypeOK, ConnectionInv, CreateThread, Stages

\* GetHandle issues a handle that is neither owned nor fresh.
LEMMA Issued ==
  ASSUME TypeOK, HandleInv, NEW c \in Clients, GetHandle(c)
  PROVE  /\ thread' \in [Clients -> [pc : Stages, handle : Nat]]
         /\ thread'[c].pc = "handle"
         /\ thread'[c].handle \in 1..max_handle'
         /\ thread'[c].handle \notin Owned \cup reuse_handles'
         /\ \A d \in Fresh \cup Unlisted : thread'[c].handle # thread[d].handle
         /\ \A d \in Clients \ {c} : thread'[d] = thread[d]
         /\ max_handle' \in Nat /\ max_handle <= max_handle'
         /\ reuse_handles' \subseteq reuse_handles
<1>1. /\ thread \in [Clients -> [pc : Stages, handle : Nat]]
      /\ max_handle \in Nat /\ reuse_handles \subseteq 1..max_handle
      /\ Owned \subseteq 1..max_handle /\ reuse_handles \cap Owned = {}
      /\ \A d \in Clients : thread[d].handle \in 0..max_handle
  BY DEF TypeOK, HandleInv
<1>2. CASE reuse_handles = {} /\ max_handle' = max_handle + 1 /\ UNCHANGED reuse_handles
           /\ thread' = [thread EXCEPT ![c] = [pc |-> "handle", handle |-> NewHandle]]
  <2>1. thread'[c] = [pc |-> "handle", handle |-> max_handle + 1]
    BY <1>1, <1>2 DEF NewHandle
  <2> QED BY <1>1, <1>2, <2>1 DEF NewHandle, Stages, Fresh, Unlisted
<1>3. ASSUME NEW h \in reuse_handles, reuse_handles' = Popped(h), max_handle' = max_handle,
             thread' = [thread EXCEPT ![c] = [pc |-> "handle", handle |-> h]]
      PROVE /\ thread' \in [Clients -> [pc : Stages, handle : Nat]]
            /\ thread'[c].pc = "handle" /\ thread'[c].handle = h
            /\ h \in 1..max_handle' /\ h \notin Owned \cup reuse_handles'
            /\ \A d \in Clients \ {c} : thread'[d] = thread[d]
  BY <1>1, <1>3 DEF Popped, Stages
<1>4. \A h \in reuse_handles : \A d \in Fresh \cup Unlisted : thread[d].handle # h
  BY <1>1 DEF HandleInv, Owned
<1> QED BY <1>1, <1>2, <1>3, <1>4 DEF GetHandle, Popped

\* What the entries hold after a step: those that were there, or the one of a
\* thread, or a blank one.
LEMMA EntryTypes ==
  ASSUME TypeOK, NEW h \in Nat, NEW v \in PendingEntry
  PROVE  /\ DOMAIN Insert(pending, h, v) \subseteq Nat
         /\ \A k \in DOMAIN Insert(pending, h, v) : Insert(pending, h, v)[k] \in PendingEntry
         /\ DOMAIN Assign(pending, h, v) \subseteq Nat
         /\ \A k \in DOMAIN Assign(pending, h, v) : Assign(pending, h, v)[k] \in PendingEntry
         /\ DOMAIN Erase(pending, h) \subseteq Nat
         /\ \A k \in DOMAIN Erase(pending, h) : Erase(pending, h)[k] \in PendingEntry
BY DEF TypeOK, Insert, Assign, Erase

LEMMA BlankType == BlankEntry \in PendingEntry
BY DEF BlankEntry, PendingEntry, Status

LEMMA DecidedType ==
  ASSUME TypeOK, NEW h \in Nat
  PROVE  /\ Decided(h) \in PendingEntry
         /\ Decided(h).status = "SCHED_ACCEPTED"
         /\ h \in DOMAIN pending => /\ Decided(h).handle = pending[h].handle
                                    /\ Decided(h).client = pending[h].client
BY BlankType DEF TypeOK, Decided, PendingEntry, Status

--------------------------------------------------------------------------------
(* Types.                                                                    *)

LEMMA RegTypeStep ==
  ASSUME TableInv, [Next]_vars
  PROVE  RegTypeInv'
<1> USE DEF TableInv, RegTypeInv
<1>1. CASE UNCHANGED vars
  BY <1>1 DEF TypeOK, vars, threads, tables, handles, sched, Unprocessed
<1>2. CASE Acceptor
  <2>1. CASE Accept
    <3>1. Head(backlog) \in Clients /\ Tail(backlog) \in Seq(Clients)
      BY <2>1 DEF Accept, TypeOK
    <3> QED BY <2>1, <3>1 DEF Accept, TypeOK, tables, handles, sched
  <2>2. CASE Throttle
    BY <2>2 DEF Throttle, TypeOK, tables, handles, sched
  <2>3. CASE CreateThread
    <3>1. \A d \in Clients : thread'[d].handle = NoHandle
            => thread'[d].pc \in {"none", "created", "started"}
      BY <2>3, Created DEF TypeOK
    <3>2. acceptor' \in [pc : {"accept", "throttle", "sleep", "handover"},
                         conn : Clients \cup {NoClient}]
      BY <2>3 DEF CreateThread, TypeOK
    <3> QED BY <2>3, <3>1, <3>2, Created DEF CreateThread, TypeOK, tables, handles, sched
  <2> QED BY <1>2, <2>1, <2>2, <2>3 DEF Acceptor
<1>3. ASSUME NEW c \in Clients, Connect(c) PROVE RegTypeInv'
  BY <1>3 DEF Connect, TypeOK, tables, handles, sched
<1>4. ASSUME NEW c \in Clients, Thread(c) PROVE RegTypeInv'
  <2>1. ASSUME NEW s \in Stages, Advance(c, s),
               s = "started" \/ thread[c].handle # NoHandle
        PROVE  /\ thread' \in [Clients -> [pc : Stages, handle : Nat]]
               /\ \A d \in Clients : thread'[d].handle = NoHandle
                     => thread'[d].pc \in {"none", "created", "started"}
    <3>1. /\ thread' \in [Clients -> [pc : Stages, handle : Nat]] /\ thread'[c].pc = s
          /\ \A d \in Clients : thread'[d].handle = thread[d].handle
          /\ \A d \in Clients \ {c} : thread'[d] = thread[d]
      BY <2>1, Advanced
    <3>2. \A d \in Clients : thread[d].handle = NoHandle
            => thread[d].pc \in {"none", "created", "started"}
      BY DEF TypeOK
    <3> HIDE DEF TableInv, RegTypeInv
    <3> QED BY <2>1, <3>1, <3>2
  <2>2. CASE TakeParameter(c)
    <3>1. "started" \in Stages /\ Advance(c, "started")
      BY <2>2 DEF TakeParameter, Stages
    <3>2. acceptor' \in [pc : {"accept", "throttle", "sleep", "handover"},
                         conn : Clients \cup {NoClient}]
      BY <2>2 DEF TakeParameter
    <3> QED BY <2>1, <2>2, <3>1, <3>2 DEF TakeParameter, TypeOK, tables, handles, sched
  <2>3. CASE GetHandle(c)
    <3>0. /\ thread'[c].handle \in 1..max_handle' /\ max_handle' \in Nat
          /\ \A d \in Clients \ {c} : thread'[d] = thread[d]
          /\ max_handle <= max_handle' /\ reuse_handles' \subseteq reuse_handles
      BY <2>3, Issued
    <3>1. \A d \in Clients : thread'[d].handle = NoHandle
            => thread'[d].pc \in {"none", "created", "started"}
      <4>1. thread'[c].handle # NoHandle
        BY <3>0 DEF NoHandle
      <4> QED BY <3>0, <4>1 DEF TypeOK
    <3>2. reuse_handles' \subseteq 1..max_handle'
      <4>1. max_handle \in Nat /\ reuse_handles \subseteq 1..max_handle
        BY DEF TypeOK
      <4> QED BY <3>0, <4>1
    <3>3. overtaken' \subseteq 1..max_handle' /\ overtaken' = overtaken
      <4>1. max_handle \in Nat /\ overtaken \subseteq 1..max_handle
        BY DEF TypeOK
      <4> QED BY <2>3, <3>0, <4>1 DEF GetHandle
    <3> QED BY <2>3, <3>1, <3>2, <3>3, Issued DEF GetHandle, TypeOK, tables, sched
  <2>4. CASE AddPending(c)
    <3>1. [handle |-> thread[c].handle, client |-> c, status |-> "NOT_PROCESSED"] \in PendingEntry
      BY DEF TypeOK, PendingEntry, Status
    <3>2. thread[c].handle \in Nat
      BY DEF TypeOK
    <3> QED BY <2>1, <2>4, <3>1, <3>2, EntryTypes
            DEF AddPending, TypeOK, At, Stages, handles, sched
  <2>5. CASE AddAddress(c)
    <3>1. thread[c].handle \in Nat
      BY DEF TypeOK
    <3> QED BY <2>1, <2>5, <3>1 DEF AddAddress, TypeOK, At, Stages, Insert, handles, sched
  <2>6. CASE Increase(c)
    <3>1. "counted" \in Stages /\ Advance(c, "counted") /\ thread[c].handle # NoHandle
      BY <2>6 DEF Increase, TypeOK, At, Stages
    <3>2. new_regs' \in Nat /\ new_regs' > 0
      BY <2>6 DEF Increase, TypeOK
    <3> QED BY <2>1, <2>6, <3>1, <3>2 DEF Increase, TypeOK, handles, sched
  <2>7. CASE Decide(c)
    BY <2>1, <2>7 DEF Decide, TypeOK, At, Stages, tables, handles, sched
  <2>8. CASE WaitOnBlank(c)
    <3>1. thread[c].handle \in Nat
      BY DEF TypeOK
    <3> QED BY <2>8, <3>1, BlankType, EntryTypes
            DEF WaitOnBlank, TypeOK, threads, handles, sched
  <2>9. CASE Respond(c)
    BY <2>1, <2>9 DEF Respond, TypeOK, At, Stages, tables, handles, sched
  <2>10. CASE RemovePending(c)
    <3>1. thread[c].handle \in Nat
      BY DEF TypeOK
    <3> QED BY <2>1, <2>10, <3>1, EntryTypes, BlankType
            DEF RemovePending, TypeOK, At, Stages, handles, sched
  <2>11. CASE SignalAcceptor(c)
    BY <2>1, <2>11 DEF SignalAcceptor, Signalled, TypeOK, At, Stages, tables, handles, sched
  <2>12. CASE ReadFails(c)
    BY <2>12 DEF ReadFails, Dexit, TypeOK, threads, tables, handles, sched
  <2> QED BY <1>4, <2>2, <2>3, <2>4, <2>5, <2>6, <2>7, <2>8, <2>9, <2>10, <2>11, <2>12 DEF Thread
<1>5. ASSUME NEW c \in Clients, HandleFinished(c) PROVE RegTypeInv'
  <2>1. addr_table[c] \in se_table
    BY <1>5 DEF HandleFinished, TablesAgree
  <2> QED BY <1>5, <2>1 DEF HandleFinished, TypeOK, tables, handles
<1>6. CASE Main
  <2>1. CASE GetNewReg
    BY <2>1 DEF GetNewReg, Unprocessed, TypeOK, PendingEntry, threads, tables, handles
  <2>2. CASE AddJob
    BY <2>2 DEF AddJob, TypeOK, threads, tables, handles
  <2>3. CASE FinishRegistration
    <3>1. main.handle \in Nat
      BY DEF TypeOK
    <3> QED BY <2>3, <3>1, EntryTypes, DecidedType
            DEF FinishRegistration, TypeOK, threads, handles
  <2>4. CASE Decrease
    BY <2>4 DEF Decrease, TypeOK, NoHandle, threads, handles
  <2>5. CASE StartRemove \/ EndRemove
    BY <2>5 DEF StartRemove, EndRemove, TypeOK, threads, tables, handles
  <2>6. ASSUME NEW h \in tokill_list, RemoveJob(h) PROVE RegTypeInv'
    <3>1. h \in 1..max_handle
      BY DEF JobInv, HandleInv, TypeOK
    <3> QED BY <2>6, <3>1 DEF RemoveJob, WithoutAddress, Erase, TypeOK, threads
  <2>7. CASE GetNewRegFails \/ AddJobFails
    BY <2>7 DEF GetNewRegFails, AddJobFails, Dexit, TypeOK, threads, tables, handles, sched
  <2> QED BY <1>6, <2>1, <2>2, <2>3, <2>4, <2>5, <2>6, <2>7 DEF Main
<1>7. CASE AddressFails
  BY <1>7 DEF AddressFails, Dexit, TypeOK, threads, tables, handles, sched
<1> QED BY <1>1, <1>2, <1>3, <1>4, <1>5, <1>6, <1>7 DEF Next

--------------------------------------------------------------------------------
(* One thread for each client.                                               *)

LEMMA ConnectionStep ==
  ASSUME TableInv, [Next]_vars
  PROVE  ConnectionInv'
<1> USE DEF TableInv, RegTypeInv
<1>0. backlog \in Seq(Clients) /\ thread \in [Clients -> [pc : Stages, handle : Nat]]
      /\ client \in [Clients -> {"new", "connected", "accepted", "finished"}]
  BY DEF TypeOK
<1>1. CASE UNCHANGED <<client, backlog, acceptor, thread>>
  BY <1>1 DEF ConnectionInv
<1>2. CASE Accept
  <2>1. /\ \A i \in DOMAIN backlog' : i + 1 \in DOMAIN backlog /\ backlog'[i] = backlog[i + 1]
        /\ Head(backlog) = backlog[1] /\ 1 \in DOMAIN backlog /\ Head(backlog) \in Clients
        /\ \A i \in DOMAIN backlog' : i \in Nat /\ i + 1 # 1
    BY <1>0, <1>2 DEF Accept
  <2>2. \A i, j \in DOMAIN backlog' : i # j => i + 1 # j + 1
    BY <1>0, <1>2 DEF Accept
  <2>3. acceptor' = [pc |-> "throttle", conn |-> Head(backlog)]
        /\ UNCHANGED <<client, thread>>
    BY <1>2 DEF Accept
  <2>4. acceptor'.conn = backlog[1] /\ acceptor'.conn \in Clients
    BY <2>1, <2>3
  <2>5. \A i \in DOMAIN backlog' : backlog'[i] # backlog[1]
    BY <2>1 DEF ConnectionInv
  <2> QED BY <2>1, <2>2, <2>3, <2>4, <2>5 DEF ConnectionInv
<1>3. CASE Throttle
  BY <1>3 DEF Throttle, TypeOK, ConnectionInv
<1>4. CASE CreateThread
  <2>1. acceptor'.pc = "handover" /\ UNCHANGED <<client, backlog>>
    BY <1>4 DEF CreateThread, TypeOK
  <2>2. \A i \in DOMAIN backlog : backlog[i] \in Clients \ {acceptor.conn}
    BY <1>0, <1>4 DEF CreateThread, ConnectionInv
  <2>3. client[acceptor.conn] = "connected"
    BY <1>4 DEF CreateThread, ConnectionInv
  <2> QED BY <1>4, <2>1, <2>2, <2>3, Created DEF ConnectionInv
<1>5. ASSUME NEW c \in Clients, Connect(c) PROVE ConnectionInv'
  <2>1. /\ DOMAIN backlog' = 1..(Len(backlog) + 1) /\ DOMAIN backlog = 1..Len(backlog)
        /\ \A i \in DOMAIN backlog : backlog'[i] = backlog[i] /\ backlog[i] \in Clients
        /\ backlog'[Len(backlog) + 1] = c /\ Len(backlog) \in Nat
    BY <1>0, <1>5 DEF Connect
  <2>2. /\ client'[c] = "connected" /\ client[c] = "new"
        /\ \A d \in Clients \ {c} : client'[d] = client[d]
        /\ UNCHANGED <<thread, acceptor>>
    BY <1>0, <1>5 DEF Connect
  <2>3. thread[c].pc = "none"
    BY <2>2 DEF ConnectionInv
  <2>4. \A i \in DOMAIN backlog : backlog[i] # c
    BY <2>2 DEF ConnectionInv
  <2>5. \A i \in DOMAIN backlog' : i \in DOMAIN backlog \/ i = Len(backlog) + 1
    BY <2>1
  <2>6. acceptor.pc \in {"throttle", "sleep"} => acceptor.conn # c
    BY <2>2 DEF ConnectionInv
  <2>7. \A i \in DOMAIN backlog' : /\ thread'[backlog'[i]].pc = "none"
                                   /\ client'[backlog'[i]] = "connected"
    BY <2>1, <2>2, <2>3, <2>4, <2>5 DEF ConnectionInv
  <2>8. \A i, j \in DOMAIN backlog' : i # j => backlog'[i] # backlog'[j]
    BY <2>1, <2>4, <2>5 DEF ConnectionInv
  <2>9. acceptor'.pc \in {"throttle", "sleep"} =>
          /\ acceptor'.conn \in Clients
          /\ thread'[acceptor'.conn].pc = "none"
          /\ client'[acceptor'.conn] = "connected"
          /\ \A i \in DOMAIN backlog' : backlog'[i] # acceptor'.conn
    BY <2>1, <2>2, <2>5, <2>6 DEF ConnectionInv
  <2>10. \A d \in Clients : client'[d] = "new" => thread'[d].pc = "none"
    BY <2>2 DEF ConnectionInv
  <2> QED BY <2>7, <2>8, <2>9, <2>10 DEF ConnectionInv
<1>6. ASSUME NEW c \in Clients, thread[c].pc # "none", UNCHANGED backlog,
             \A d \in Clients \ {c} : thread'[d] = thread[d] /\ client'[d] = client[d],
             client'[c] \in {client[c], "accepted"},
             \/ acceptor'.pc \notin {"throttle", "sleep"}
             \/ /\ acceptor'.conn = acceptor.conn
                /\ acceptor'.pc = acceptor.pc \/ acceptor.pc = "sleep"
      PROVE ConnectionInv'
  <2>1. \A i \in DOMAIN backlog : backlog[i] \in Clients /\ backlog[i] # c
    BY <1>0, <1>6 DEF ConnectionInv
  <2>2. acceptor.pc \in {"throttle", "sleep"} => acceptor.conn # c
    BY <1>6 DEF ConnectionInv
  <2>3. client[c] # "new"
    BY <1>6 DEF ConnectionInv
  <2> QED BY <1>6, <2>1, <2>2, <2>3 DEF ConnectionInv
<1>7. ASSUME NEW c \in Clients, Thread(c) PROVE ConnectionInv'
  <2>1. ASSUME NEW s \in Stages, Advance(c, s)
        PROVE  \A d \in Clients \ {c} : thread'[d] = thread[d]
    BY <2>1, Advanced
  <2>2. CASE TakeParameter(c)
    BY <1>6, <2>1, <2>2 DEF TakeParameter, At, Stages
  <2>3. CASE GetHandle(c)
    BY <1>6, <2>3, Issued DEF GetHandle, At
  <2>4. CASE AddPending(c)
    BY <1>6, <2>1, <2>4 DEF AddPending, At, Stages
  <2>5. CASE AddAddress(c)
    BY <1>6, <2>1, <2>5 DEF AddAddress, At, Stages
  <2>6. CASE Increase(c)
    BY <1>6, <2>1, <2>6 DEF Increase, At, Stages
  <2>7. CASE Decide(c)
    BY <1>6, <2>1, <2>7 DEF Decide, At, Stages
  <2>8. CASE WaitOnBlank(c)
    BY <1>1, <2>8 DEF WaitOnBlank, threads
  <2>9. CASE Respond(c)
    <3>1. client'[c] = "accepted" /\ \A d \in Clients \ {c} : client'[d] = client[d]
      BY <1>0, <2>9 DEF Respond
    <3> QED BY <1>6, <2>1, <2>9, <3>1 DEF Respond, At, Stages
  <2>10. CASE RemovePending(c)
    BY <1>6, <2>1, <2>10 DEF RemovePending, At, Stages
  <2>11. CASE SignalAcceptor(c)
    <3>1. \/ acceptor' = acceptor
          \/ acceptor.pc = "sleep" /\ acceptor'.conn = acceptor.conn
      BY <2>11 DEF SignalAcceptor, Signalled, TypeOK
    <3> QED BY <1>6, <2>1, <2>11, <3>1 DEF SignalAcceptor, At, Stages
  <2>12. CASE ReadFails(c)
    BY <1>1, <2>12 DEF ReadFails, Dexit, threads
  <2> QED BY <1>7, <2>2, <2>3, <2>4, <2>5, <2>6, <2>7, <2>8, <2>9, <2>10, <2>11, <2>12 DEF Thread
<1>8. ASSUME NEW c \in Clients, HandleFinished(c) PROVE ConnectionInv'
  <2>1. client[c] = "accepted" /\ client' = [client EXCEPT ![c] = "finished"]
        /\ UNCHANGED <<thread, backlog, acceptor>>
    BY <1>8 DEF HandleFinished
  <2>2. \A d \in Clients : /\ client[d] = "connected" => client'[d] = "connected"
                           /\ client'[d] = "new" => client[d] = "new"
    BY <1>0, <2>1
  <2>3. \A i \in DOMAIN backlog : backlog[i] \in Clients
    BY <1>0
  <2> QED BY <2>1, <2>2, <2>3 DEF ConnectionInv
<1>9. CASE Main \/ AddressFails
  BY <1>1, <1>9 DEF Main, AddressFails, GetNewReg, GetNewRegFails, AddJob, AddJobFails,
     FinishRegistration, Decrease, StartRemove, EndRemove, RemoveJob, Dexit, threads
<1> QED BY <1>1, <1>2, <1>3, <1>4, <1>5, <1>7, <1>8, <1>9 DEF Next, Acceptor, vars, threads

--------------------------------------------------------------------------------
(* Handles and addresses.                                                    *)

\* A step that leaves the tables of handles and the stage of every thread that
\* holds a handle without address as they are.
LEMMA HandleFrame ==
  ASSUME TableInv, UNCHANGED <<reg_table, addr_table, handles>>,
         thread' \in [Clients -> [pc : Stages, handle : Nat]],
         NEW B \in SUBSET Clients,
         \A d \in Clients \ B : thread'[d] = thread[d],
         \A d \in B : /\ thread'[d].handle = thread[d].handle
                      /\ d \notin Fresh \cup Unlisted
                      /\ thread'[d].pc \notin {"handle", "pending"}
                      /\ d \in DOMAIN addr_table =>
                           thread'[d].pc \notin {"none", "created", "started"}
  PROVE  /\ HandleInv' /\ AddressInv' /\ TablesAgree'
         /\ Owned' = Owned /\ Fresh' = Fresh /\ Unlisted' = Unlisted
<1>1. Fresh' = Fresh /\ Unlisted' = Unlisted
  BY DEF Fresh, Unlisted
<1>2. \A d \in Clients : thread'[d].handle = thread[d].handle
  OBVIOUS
<1>3. Owned' = Owned
  BY <1>1, <1>2 DEF Owned, Unlisted
<1>4. HandleInv'
  BY <1>1, <1>2, <1>3 DEF TableInv, HandleInv, handles, Fresh, Unlisted
<1>5. AddressInv'
  <2>1. DOMAIN addr_table \subseteq Clients
    BY DEF TableInv, RegTypeInv, TypeOK
  <2> QED BY <2>1 DEF TableInv, AddressInv
<1> QED BY <1>1, <1>3, <1>4, <1>5 DEF TableInv, TablesAgree

LEMMA HandleStep ==
  ASSUME TableInv, [Next]_vars
  PROVE  HandleInv' /\ AddressInv' /\ TablesAgree'
<1> USE DEF TableInv, RegTypeInv
<1>0. thread \in [Clients -> [pc : Stages, handle : Nat]] /\ DOMAIN addr_table \subseteq Clients
  BY DEF TypeOK
<1>1. CASE UNCHANGED <<thread, reg_table, addr_table, handles>>
  <2>1. {} \in SUBSET Clients /\ UNCHANGED <<reg_table, addr_table, handles>>
        /\ thread' = thread
    BY <1>1
  <2> QED BY <1>0, <2>1, HandleFrame
<1>2. CASE CreateThread
  <2>1. thread[acceptor.conn].pc = "none"
    BY <1>2 DEF CreateThread, ConnectionInv
  <2>2. acceptor.conn \notin Fresh \cup Unlisted /\ acceptor.conn \notin DOMAIN addr_table
    BY <2>1 DEF Fresh, Unlisted, AddressInv
  <2>3. UNCHANGED <<reg_table, addr_table, handles>>
    BY <1>2 DEF CreateThread, tables
  <2>4. {acceptor.conn} \in SUBSET Clients
    BY <1>2, Created
  <2> QED BY <1>2, <2>2, <2>3, <2>4, Created, HandleFrame
<1>3. ASSUME NEW c \in Clients, NEW s \in Stages, Advance(c, s),
             UNCHANGED <<reg_table, addr_table, handles>>,
             c \notin Fresh \cup Unlisted, s \notin {"handle", "pending"},
             c \in DOMAIN addr_table => s \notin {"none", "created", "started"}
      PROVE HandleInv' /\ AddressInv' /\ TablesAgree'
  <2>1. {c} \in SUBSET Clients
    OBVIOUS
  <2>2. /\ thread' \in [Clients -> [pc : Stages, handle : Nat]] /\ thread'[c].pc = s
        /\ \A d \in Clients : thread'[d].handle = thread[d].handle
        /\ \A d \in Clients \ {c} : thread'[d] = thread[d]
    BY <1>3, Advanced
  <2> QED BY <1>3, <2>1, <2>2, HandleFrame
<1>4. ASSUME NEW c \in Clients, GetHandle(c)
      PROVE HandleInv' /\ AddressInv' /\ TablesAgree'
  <2> DEFINE h == thread'[c].handle
  <2>1. /\ thread'[c].pc = "handle" /\ h \in 1..max_handle' /\ max_handle' \in Nat
        /\ h \notin Owned \cup reuse_handles'
        /\ \A d \in Fresh \cup Unlisted : h # thread[d].handle
        /\ \A d \in Clients \ {c} : thread'[d] = thread[d]
        /\ max_handle <= max_handle' /\ reuse_handles' \subseteq reuse_handles
    BY <1>4, Issued
  <2>2. UNCHANGED <<reg_table, addr_table>> /\ thread[c].pc = "started"
    BY <1>4 DEF GetHandle, At, tables
  <2>3. Fresh' = Fresh \cup {c} /\ Unlisted' = Unlisted
    BY <2>1, <2>2 DEF Fresh, Unlisted
  <2>4. c \notin Fresh \cup Unlisted
    BY <2>2 DEF Fresh, Unlisted
  <2>5. Owned' = Owned
    BY <2>1, <2>2, <2>3, <2>4 DEF Owned, Unlisted
  <2>6. max_handle \in Nat
    BY DEF TypeOK
  <2> HIDE DEF h
  <2>7. \A d \in Clients : thread'[d].handle \in 0..max_handle'
    BY <2>1, <2>6 DEF HandleInv, h
  <2>8. Owned' \subseteq 1..max_handle' /\ reuse_handles' \cap Owned' = {}
    BY <2>1, <2>5, <2>6 DEF HandleInv
  <2>9. \A d \in Fresh' : thread'[d].handle \notin Owned' \cup reuse_handles'
    BY <2>1, <2>3, <2>5 DEF HandleInv, h, Fresh
  <2>10. \A d \in Unlisted' : thread'[d].handle \notin DOMAIN reg_table'
    BY <2>1, <2>2, <2>3, <2>4 DEF HandleInv, Unlisted
  <2>11. \A d, e \in Fresh' \cup Unlisted' : d # e => thread'[d].handle # thread'[e].handle
    BY <2>1, <2>3, <2>4 DEF HandleInv, h, Fresh, Unlisted
  <2>12. AddressInv'
    BY <1>0, <2>1, <2>2 DEF AddressInv
  <2> QED BY <2>2, <2>7, <2>8, <2>9, <2>10, <2>11, <2>12 DEF HandleInv, TablesAgree
<1>5. ASSUME NEW c \in Clients, AddPending(c)
      PROVE HandleInv' /\ AddressInv' /\ TablesAgree'
  <2>1. /\ thread[c].pc = "handle" /\ thread'[c].pc = "pending"
        /\ \A d \in Clients : thread'[d].handle = thread[d].handle
        /\ \A d \in Clients \ {c} : thread'[d] = thread[d]
        /\ UNCHANGED <<reg_table, addr_table, handles>>
    BY <1>5, Advanced DEF AddPending, At, Stages
  <2>2. c \in Fresh /\ Fresh' = Fresh \ {c} /\ Unlisted' = Unlisted \cup {c}
    BY <2>1 DEF Fresh, Unlisted
  <2>3. Owned' = Owned \cup {thread[c].handle}
    BY <2>1, <2>2 DEF Owned, Unlisted
  <2>4. thread[c].handle \in 1..max_handle
    <3>1. thread[c].handle # NoHandle /\ thread[c].handle \in 0..max_handle /\ max_handle \in Nat
      BY <2>1 DEF TypeOK, HandleInv
    <3> QED BY <3>1 DEF NoHandle
  <2>5. HandleInv'
    <3>1. \A d \in Fresh' : thread[d].handle # thread[c].handle
      BY <2>2 DEF HandleInv
    <3>2. reuse_handles' \cap Owned' = {}
      BY <2>1, <2>2, <2>3 DEF HandleInv, handles
    <3>3. thread[c].handle \notin DOMAIN reg_table
      BY <2>2 DEF HandleInv, Owned
    <3>4. \A d \in Fresh' : thread'[d].handle \notin Owned' \cup reuse_handles'
      BY <2>1, <2>2, <2>3, <3>1 DEF HandleInv, handles, Fresh
    <3>5. \A d \in Unlisted' : thread'[d].handle \notin DOMAIN reg_table'
      BY <2>1, <2>2, <3>3 DEF HandleInv, Unlisted
    <3>6. \A d, e \in Fresh' \cup Unlisted' : d # e => thread'[d].handle # thread'[e].handle
      <4>1. Fresh' \cup Unlisted' = Fresh \cup Unlisted /\ Fresh \cup Unlisted \subseteq Clients
        BY <2>2 DEF Fresh, Unlisted
      <4> QED BY <2>1, <4>1 DEF HandleInv
    <3>7. Owned' \subseteq 1..max_handle' /\ \A d \in Clients : thread'[d].handle \in 0..max_handle'
      BY <2>1, <2>3, <2>4 DEF HandleInv, handles
    <3> QED BY <3>2, <3>4, <3>5, <3>6, <3>7 DEF HandleInv
  <2> QED BY <1>0, <2>1, <2>5 DEF AddressInv, TablesAgree
<1>6. ASSUME NEW c \in Clients, AddAddress(c)
      PROVE HandleInv' /\ AddressInv' /\ TablesAgree'
  <2> DEFINE h == thread[c].handle
  <2>1. /\ thread[c].pc = "pending" /\ thread'[c].pc = "addressed"
        /\ \A d \in Clients : thread'[d].handle = thread[d].handle
        /\ \A d \in Clients \ {c} : thread'[d] = thread[d]
        /\ UNCHANGED handles
    BY <1>6, Advanced DEF AddAddress, At, Stages
  <2>2. c \in Unlisted /\ Fresh' = Fresh /\ Unlisted' = Unlisted \ {c}
    BY <2>1 DEF Fresh, Unlisted
  <2>3. h \notin DOMAIN reg_table /\ c \notin DOMAIN addr_table
    BY <2>1, <2>2 DEF HandleInv, AddressInv
  <2>4. reg_table' = Insert(reg_table, h, c) /\ addr_table' = Insert(addr_table, c, h)
    BY <1>6 DEF AddAddress
  <2>5. /\ DOMAIN reg_table' = DOMAIN reg_table \cup {h} /\ reg_table'[h] = c
        /\ \A k \in DOMAIN reg_table : reg_table'[k] = reg_table[k]
        /\ DOMAIN addr_table' = DOMAIN addr_table \cup {c} /\ addr_table'[c] = h
        /\ \A d \in DOMAIN addr_table : addr_table'[d] = addr_table[d]
    BY <2>3, <2>4 DEF Insert
  <2>6. Owned' = Owned
    BY <2>1, <2>2, <2>5 DEF Owned, Unlisted
  <2> HIDE DEF h
  <2>7. HandleInv'
    <3>1. \A d \in Unlisted' : thread'[d].handle \notin DOMAIN reg_table'
      BY <2>1, <2>2, <2>5 DEF HandleInv, h, Unlisted
    <3> QED BY <2>1, <2>2, <2>6, <3>1 DEF HandleInv, handles, Fresh, Unlisted
  <2>8. AddressInv'
    BY <1>0, <2>1, <2>5 DEF AddressInv
  <2>9. TablesAgree'
    BY <2>3, <2>5 DEF TablesAgree
  <2> QED BY <2>7, <2>8, <2>9
<1>7. ASSUME NEW c \in Clients, Thread(c)
      PROVE HandleInv' /\ AddressInv' /\ TablesAgree'
  <2>1. ASSUME thread[c].pc \notin {"handle", "pending"} PROVE c \notin Fresh \cup Unlisted
    BY <2>1 DEF Fresh, Unlisted
  <2>2. CASE TakeParameter(c)
    BY <1>3, <2>1, <2>2 DEF TakeParameter, At, Stages, AddressInv, tables
  <2>3. CASE Increase(c)
    BY <1>3, <2>1, <2>3 DEF Increase, At, Stages
  <2>4. CASE Decide(c)
    BY <1>3, <2>1, <2>4 DEF Decide, At, Stages, tables
  <2>5. CASE WaitOnBlank(c)
    BY <1>1, <2>5 DEF WaitOnBlank, threads
  <2>6. CASE Respond(c)
    BY <1>3, <2>1, <2>6 DEF Respond, At, Stages, tables
  <2>7. CASE RemovePending(c)
    BY <1>3, <2>1, <2>7 DEF RemovePending, At, Stages
  <2>8. CASE SignalAcceptor(c)
    BY <1>3, <2>1, <2>8 DEF SignalAcceptor, At, Stages, tables
  <2>9. CASE ReadFails(c)
    BY <1>1, <2>9 DEF ReadFails, Dexit, threads, tables
  <2> QED BY <1>4, <1>5, <1>6, <1>7, <2>2, <2>3, <2>4, <2>5, <2>6, <2>7, <2>8, <2>9 DEF Thread
<1>8. ASSUME NEW h \in tokill_list, RemoveJob(h)
      PROVE HandleInv' /\ AddressInv' /\ TablesAgree'
  <2>1. h \in DOMAIN reg_table /\ h \in Owned
    BY DEF JobInv, Owned
  <2>2. /\ UNCHANGED <<thread, max_handle>> /\ reuse_handles' = reuse_handles \cup {h}
        /\ reg_table' = Erase(reg_table, h) /\ addr_table' = Erase(addr_table, reg_table[h])
    BY <1>8 DEF RemoveJob, WithoutAddress, threads
  <2>3. /\ DOMAIN reg_table' = DOMAIN reg_table \ {h}
        /\ \A k \in DOMAIN reg_table' : reg_table'[k] = reg_table[k]
        /\ DOMAIN addr_table' = DOMAIN addr_table \ {reg_table[h]}
        /\ \A d \in DOMAIN addr_table' : addr_table'[d] = addr_table[d]
    BY <2>2 DEF Erase
  <2>4. Fresh' = Fresh /\ Unlisted' = Unlisted
    BY <2>2 DEF Fresh, Unlisted
  <2>5. \A d \in Unlisted : thread[d].handle # h
    BY <2>1 DEF HandleInv
  <2>6. Owned' = Owned \ {h}
    BY <2>2, <2>3, <2>4, <2>5 DEF Owned, Unlisted
  <2>7. HandleInv'
    <3>1. \A d \in Fresh : thread[d].handle # h
      BY <2>1 DEF HandleInv
    <3>2. reuse_handles' \cap Owned' = {} /\ Owned' \subseteq 1..max_handle'
      BY <2>2, <2>6 DEF HandleInv
    <3>3. Fresh \cup Unlisted \subseteq Clients
      BY DEF Fresh, Unlisted
    <3>4. \A d \in Fresh' : thread'[d].handle \notin Owned' \cup reuse_handles'
      BY <2>2, <2>4, <2>6, <3>1 DEF HandleInv
    <3>5. \A d \in Unlisted' : thread'[d].handle \notin DOMAIN reg_table'
      BY <2>2, <2>3, <2>4 DEF HandleInv
    <3> QED BY <2>2, <2>4, <3>2, <3>4, <3>5 DEF HandleInv
  <2>8. AddressInv'
    BY <2>2, <2>3 DEF AddressInv
  <2>9. TablesAgree'
    BY <2>1, <2>3 DEF TablesAgree
  <2> QED BY <2>7, <2>8, <2>9
<1>9. CASE Accept \/ Throttle \/ AddressFails
  BY <1>1, <1>9 DEF Accept, Throttle, AddressFails, Dexit, tables, threads
<1>10. ASSUME NEW c \in Clients, Connect(c) \/ HandleFinished(c)
       PROVE HandleInv' /\ AddressInv' /\ TablesAgree'
  BY <1>1, <1>10 DEF Connect, HandleFinished, tables
<1>11. CASE Main
  BY <1>1, <1>8, <1>11 DEF Main, GetNewReg, GetNewRegFails, AddJob, AddJobFails,
     FinishRegistration, Decrease, StartRemove, EndRemove, Dexit, threads, tables
<1> QED BY <1>1, <1>2, <1>7, <1>9, <1>10, <1>11 DEF Next, Acceptor, vars, threads, tables

--------------------------------------------------------------------------------
(* Jobs and entries.                                                         *)

\* Only the removal of its job makes a handle ownerless.
LEMMA OwnedGrows ==
  ASSUME TableInv, [Next]_vars, reg_table' = reg_table \/ \E c \in Clients : AddAddress(c)
  PROVE  Owned \subseteq Owned' /\ DOMAIN reg_table \subseteq DOMAIN reg_table'
<1> USE DEF TableInv, RegTypeInv
<1>1. SUFFICES ASSUME NEW d \in Unlisted
               PROVE  thread[d].handle \in Owned'
  <2>1. DOMAIN reg_table \subseteq DOMAIN reg_table'
    BY DEF AddAddress, Insert
  <2> QED BY <2>1 DEF Owned
<1>2. d \in Clients /\ thread[d].pc = "pending"
  BY DEF Unlisted
<1>3. CASE thread'[d] = thread[d]
  BY <1>2, <1>3 DEF Owned, Unlisted
<1>4. CASE thread'[d] # thread[d]
  <2>1. thread' # thread
    BY <1>4
  <2>2. ~CreateThread
    BY <1>2, <1>4, Created DEF CreateThread, ConnectionInv
  <2>3. PICK c \in Clients : Thread(c)
    BY <2>1, <2>2 DEF Next, Acceptor, Accept, Throttle, Main, AddressFails, Connect,
       HandleFinished, GetNewReg, GetNewRegFails, AddJob, AddJobFails, FinishRegistration,
       Decrease, StartRemove, EndRemove, RemoveJob, Dexit, vars, threads
  <2>4. c = d
    <3>1. ASSUME NEW s \in Stages, Advance(c, s) PROVE c = d
      BY <1>2, <1>4, <3>1, Advanced
    <3>2. CASE GetHandle(c)
      BY <1>2, <1>4, <3>2, Issued
    <3>3. ~WaitOnBlank(c) /\ ~ReadFails(c)
      BY <2>1 DEF WaitOnBlank, ReadFails, Dexit, threads
    <3> QED BY <2>3, <3>1, <3>2, <3>3 DEF Thread, TakeParameter, AddPending, AddAddress, Increase,
               Decide, Respond, RemovePending, SignalAcceptor, Stages
  <2>5. AddAddress(d)
    BY <1>2, <2>1, <2>3, <2>4 DEF Thread, At, TakeParameter, ReadFails, Dexit, GetHandle,
       AddPending, AddAddress, Increase, Decide, WaitOnBlank, Respond, RemovePending,
       SignalAcceptor, threads
  <2>6. thread[d].handle \in DOMAIN reg_table'
    BY <2>5 DEF AddAddress, Insert
  <2> QED BY <2>6 DEF Owned
<1> QED BY <1>3, <1>4

\* Steps of others: entries may go or be blank, the scheduler is left alone.
LEMMA EntryFrame ==
  ASSUME TableInv, Owned \subseteq Owned', DOMAIN reg_table \subseteq DOMAIN reg_table',
         UNCHANGED <<se_table, main>>, tokill_list' \subseteq DOMAIN reg_table,
         DOMAIN pending' \subseteq Nat \ {NoHandle},
         \A h \in DOMAIN pending' : \/ h \in DOMAIN pending /\ pending'[h] = pending[h]
                                    \/ pending'[h].handle = NoHandle
  PROVE  JobInv'
<1>1. \A h \in Unprocessed' : pending'[h].handle # NoHandle =>
        h \in Unprocessed /\ pending[h].handle = pending'[h].handle
  BY DEF Unprocessed
<1> QED BY <1>1 DEF TableInv, JobInv

LEMMA JobStep ==
  ASSUME TableInv, [Next]_vars
  PROVE  JobInv'
<1> USE DEF TableInv, RegTypeInv
<1>1. CASE reg_table' = reg_table /\ UNCHANGED <<pending, sched>>
  <2>1. DOMAIN pending' \subseteq Nat \ {NoHandle}
    BY <1>1 DEF TypeOK, JobInv
  <2> QED BY <1>1, <2>1, OwnedGrows, EntryFrame DEF sched, JobInv
<1>2. ASSUME NEW c \in Clients, AddPending(c) PROVE JobInv'
  <2> DEFINE h == thread[c].handle
             e == [handle |-> h, client |-> c, status |-> "NOT_PROCESSED"]
  <2>1. h # NoHandle /\ h \in Nat /\ thread[c].pc = "handle" /\ c \in Fresh
    BY <1>2 DEF AddPending, At, TypeOK, Fresh
  <2>2. h \notin Owned /\ h \notin se_table
    BY <2>1 DEF HandleInv, JobInv
  <2>3. /\ UNCHANGED <<reg_table, se_table, tokill_list, main>>
        /\ pending' = Insert(pending, h, e)
    BY <1>2 DEF AddPending, sched
  <2>4. Owned \subseteq Owned'
    BY <2>3, OwnedGrows
  <2>5. h \in Owned'
    <3>1. c \in Unlisted' /\ thread'[c].handle = h
      BY <1>2, Advanced DEF AddPending, Unlisted, Stages
    <3> QED BY <3>1 DEF Owned
  <2>6. /\ DOMAIN pending' = DOMAIN pending \cup {h}
        /\ \A k \in DOMAIN pending : pending'[k] = pending[k]
        /\ h \notin DOMAIN pending => pending'[h] = e
    BY <2>3 DEF Insert
  <2>7. \A k \in Unprocessed' : \/ k \in Unprocessed /\ pending'[k] = pending[k]
                                \/ k = h /\ pending'[k].handle = h
    <3>1. e.handle = h
      OBVIOUS
    <3> HIDE DEF h, e
    <3> QED BY <2>6, <3>1 DEF Unprocessed
  <2> HIDE DEF h, e
  <2>8. \A k \in Unprocessed' : pending'[k].handle # NoHandle =>
          /\ pending'[k].handle = k
          /\ k \in Owned'
          /\ k \in se_table' => main'.pc = "finish" /\ main'.handle = k
    BY <2>2, <2>3, <2>4, <2>5, <2>7 DEF JobInv
  <2> QED BY <2>1, <2>3, <2>4, <2>6, <2>8 DEF JobInv
<1>3. ASSUME NEW c \in Clients, WaitOnBlank(c) PROVE JobInv'
  <2>1. thread[c].handle \in Nat \ {NoHandle}
    BY <1>3 DEF WaitOnBlank, At, TypeOK
  <2>2. reg_table' = reg_table /\ pending' = Insert(pending, thread[c].handle, BlankEntry)
        /\ UNCHANGED sched
    BY <1>3 DEF WaitOnBlank
  <2>3. /\ DOMAIN pending' = DOMAIN pending \cup {thread[c].handle}
        /\ \A h \in DOMAIN pending' : \/ h \in DOMAIN pending /\ pending'[h] = pending[h]
                                      \/ pending'[h].handle = NoHandle
    BY <2>2 DEF Insert, BlankEntry, NoHandle
  <2>4. DOMAIN pending' \subseteq Nat \ {NoHandle}
    BY <2>1, <2>3 DEF TypeOK, JobInv
  <2> QED BY <2>2, <2>3, <2>4, OwnedGrows, EntryFrame DEF sched, JobInv
<1>4. ASSUME NEW c \in Clients, RemovePending(c) PROVE JobInv'
  <2>1. reg_table' = reg_table /\ pending' = Erase(pending, thread[c].handle) /\ UNCHANGED sched
    BY <1>4 DEF RemovePending
  <2>2. \A h \in DOMAIN pending' : h \in DOMAIN pending /\ pending'[h] = pending[h]
    BY <2>1 DEF Erase
  <2>3. DOMAIN pending' \subseteq Nat \ {NoHandle}
    BY <2>2 DEF TypeOK, JobInv
  <2> QED BY <2>1, <2>2, <2>3, OwnedGrows, EntryFrame DEF sched, JobInv
<1>5. ASSUME NEW c \in Clients, AddAddress(c) PROVE JobInv'
  <2>1. UNCHANGED <<pending, sched>>
    BY <1>5 DEF AddAddress
  <2>2. DOMAIN pending' \subseteq Nat \ {NoHandle}
    BY <2>1 DEF TypeOK, JobInv
  <2> QED BY <1>5, <2>1, <2>2, OwnedGrows, EntryFrame DEF sched, JobInv
<1>6. ASSUME NEW c \in Clients, Thread(c) PROVE JobInv'
  BY <1>1, <1>2, <1>3, <1>4, <1>5, <1>6 DEF Thread, TakeParameter, ReadFails, Dexit, GetHandle,
     Increase, Decide, Respond, SignalAcceptor, tables
<1>7. ASSUME NEW c \in Clients, HandleFinished(c) PROVE JobInv'
  <2>1. UNCHANGED <<reg_table, pending, se_table, main>>
        /\ tokill_list' = tokill_list \cup {addr_table[c]}
    BY <1>7 DEF HandleFinished, tables
  <2>2. addr_table[c] \in DOMAIN reg_table
    BY <1>7 DEF HandleFinished, TablesAgree
  <2>3. DOMAIN pending' \subseteq Nat \ {NoHandle}
    BY <2>1 DEF TypeOK, JobInv
  <2> QED BY <2>1, <2>2, <2>3, OwnedGrows, EntryFrame DEF JobInv
<1>8. CASE GetNewReg
  <2>1. UNCHANGED <<reg_table, pending, se_table, tokill_list>> /\ main'.pc = "add"
        /\ main.pc = "poll" /\ \E h \in Unprocessed : main'.handle = pending[h].handle
    BY <1>8 DEF GetNewReg, tables
  <2>2. Owned' = Owned /\ Unprocessed' = Unprocessed
    BY <1>8 DEF GetNewReg, tables, threads, Owned, Unlisted, Unprocessed
  <2> QED BY <2>1, <2>2 DEF JobInv
<1>9. CASE AddJob
  <2>1. UNCHANGED <<reg_table, pending, tokill_list>> /\ main'.pc = "finish"
        /\ main'.handle = main.handle /\ se_table' = se_table \cup {main.handle}
        /\ main.pc = "add" /\ main.handle \in DOMAIN pending
    BY <1>9 DEF AddJob, tables, Suitable, TypeOK
  <2>2. Owned' = Owned /\ Unprocessed' = Unprocessed
    BY <1>9 DEF AddJob, tables, threads, Owned, Unlisted, Unprocessed
  <2>3. main.handle # NoHandle /\ main.handle \in Owned
    BY <2>1 DEF JobInv
  <2> QED BY <2>1, <2>2, <2>3 DEF JobInv
<1>10. CASE FinishRegistration
  <2>1. UNCHANGED <<reg_table, se_table, tokill_list>> /\ main'.pc = "decrease"
        /\ main.pc = "finish" /\ main'.handle = main.handle
        /\ pending' = Assign(pending, main.handle, Decided(main.handle))
    BY <1>10 DEF FinishRegistration, TypeOK
  <2>2. Owned' = Owned
    BY <1>10 DEF FinishRegistration, threads, Owned, Unlisted
  <2>3. main.handle \in Nat
    BY DEF TypeOK
  <2>4. /\ DOMAIN pending' = DOMAIN pending \cup {main.handle}
        /\ pending'[main.handle].status = "SCHED_ACCEPTED"
        /\ \A h \in DOMAIN pending \ {main.handle} : pending'[h] = pending[h]
    BY <2>1, <2>3, DecidedType DEF Assign
  <2>5. \A h \in Unprocessed' : h \in Unprocessed \ {main.handle} /\ pending'[h] = pending[h]
    BY <2>4 DEF Unprocessed
  <2> QED BY <2>1, <2>2, <2>4, <2>5 DEF JobInv
<1>11. CASE Decrease
  <2>1. UNCHANGED <<reg_table, pending, se_table, tokill_list>> /\ main'.pc = "poll"
        /\ main.pc = "decrease"
    BY <1>11 DEF Decrease
  <2>2. Owned' = Owned /\ Unprocessed' = Unprocessed
    BY <1>11 DEF Decrease, threads, Owned, Unlisted, Unprocessed
  <2> QED BY <2>1, <2>2 DEF JobInv
<1>12. CASE StartRemove \/ EndRemove
  <2>1. UNCHANGED <<reg_table, pending, se_table, tokill_list>> /\ main'.pc \in {"poll", "remove"}
        /\ main.pc \in {"poll", "remove"}
    BY <1>12 DEF StartRemove, EndRemove, tables, TypeOK
  <2>2. Owned' = Owned /\ Unprocessed' = Unprocessed
    BY <1>12 DEF StartRemove, EndRemove, tables, threads, Owned, Unlisted, Unprocessed
  <2> QED BY <2>1, <2>2 DEF JobInv
<1>13. ASSUME NEW h \in tokill_list, RemoveJob(h) PROVE JobInv'
  <2>1. /\ UNCHANGED <<thread, pending, main>> /\ main.pc = "remove"
        /\ se_table' = se_table \ {h} /\ tokill_list' = tokill_list \ {h}
        /\ DOMAIN reg_table' = DOMAIN reg_table \ {h}
    BY <1>13 DEF RemoveJob, threads, Erase
  <2>2. h \in se_table /\ Owned \ {h} \subseteq Owned' /\ Unprocessed' = Unprocessed
    BY <2>1 DEF TypeOK, Owned, Unlisted, Unprocessed
  <2>3. \A k \in Unprocessed : pending[k].handle # NoHandle => k # h
    BY <2>1, <2>2 DEF JobInv
  <2> QED BY <2>1, <2>2, <2>3 DEF JobInv
<1>14. CASE Acceptor \/ GetNewRegFails \/ AddJobFails \/ AddressFails
            \/ \E c \in Clients : Connect(c)
  BY <1>1, <1>14 DEF Acceptor, Accept, Throttle, CreateThread, GetNewRegFails, AddJobFails,
     AddressFails, Connect, Dexit, tables
<1> QED BY <1>1, <1>6, <1>7, <1>8, <1>9, <1>10, <1>11, <1>12, <1>13, <1>14
        DEF Next, Main, vars, tables

--------------------------------------------------------------------------------
(* The theorems about the tables.                                            *)

LEMMA TableInit == Init => TableInv
<1> SUFFICES ASSUME Init PROVE TableInv
  OBVIOUS
<1>1. RegTypeInv
  BY DEF Init, RegTypeInv, TypeOK, Stages, NoHandle
<1>2. ConnectionInv
  BY DEF Init, ConnectionInv
<1>3. Owned = {} /\ Fresh = {} /\ Unlisted = {} /\ Unprocessed = {}
  BY DEF Init, Owned, Fresh, Unlisted, Unprocessed
<1>4. HandleInv /\ AddressInv /\ TablesAgree /\ JobInv
  BY <1>3 DEF Init, HandleInv, AddressInv, TablesAgree, JobInv, NoHandle
<1> QED BY <1>1, <1>2, <1>4 DEF TableInv

LEMMA TableStep == TableInv /\ [Next]_vars => TableInv'
BY RegTypeStep, ConnectionStep, HandleStep, JobStep DEF TableInv

LEMMA TableInvariant == Spec => []TableInv
BY TableInit, TableStep, PTL DEF Spec

\* The state of the registration controller is well-formed; in particular
\* new_regs, which two threads change, never becomes negative, and only jobs
\* with an entity are on tokill_list.
THEOREM RegistrationTypes == Spec => []TypeOK
<1>1. TableInv => TypeOK
  BY DEF TableInv, RegTypeInv
<1> QED BY <1>1, TableInvariant, PTL

\* reg_table and addr_table are inverse to each other, however late a
\* registration thread removes its pending entry.
THEOREM AddressTablesAgree == Spec => []TablesAgree
<1>1. TableInv => TablesAgree
  BY DEF TableInv
<1> QED BY <1>1, TableInvariant, PTL

\* get_unique_handle never recycles a handle that the scheduler or an address
\* still has.
THEOREM RecycledHandlesAreFree == Spec => []FreeHandlesAreForgotten
<1>1. TableInv => FreeHandlesAreForgotten
  BY DEF TableInv, HandleInv, JobInv, Owned, FreeHandlesAreForgotten
<1> QED BY <1>1, TableInvariant, PTL

--------------------------------------------------------------------------------
(* Entries, decisions and answers.                                           *)

HasEntry == {c \in Clients :
               thread[c].pc \in {"pending", "addressed", "counted", "decided", "answered"}}
Listed == HasEntry \ Unlisted

\* But for overtaken handles, the pending table has one entry for each thread
\* between add_reg_pending_entry and remove_reg_pending_entry, and nobody is given
\* its handle meanwhile.
EntryInv ==
  /\ \A c \in HasEntry : thread[c].handle \notin overtaken =>
       /\ thread[c].handle \in DOMAIN pending
       /\ pending[thread[c].handle].client = c
       /\ pending[thread[c].handle].handle = thread[c].handle
  /\ \A h \in DOMAIN pending \ overtaken : /\ pending[h].client \in HasEntry
                                           /\ thread[pending[h].client].handle = h
  /\ \A c \in Fresh : thread[c].handle \in DOMAIN pending => thread[c].handle \in overtaken
  /\ reuse_handles \cap DOMAIN pending \subseteq overtaken

\* An entry is decided when the scheduler has its job, and only then does its
\* thread go on.  What the main thread has taken from the table has no job yet,
\* and is still there undecided unless it was of an overtaken handle.
DecisionInv ==
  /\ \A c \in Clients : thread[c].pc \in {"decided", "answered"}
                          => thread[c].handle \notin Unprocessed \ overtaken
  /\ DOMAIN pending \ Unprocessed \subseteq se_table \cup overtaken
  /\ main.pc \in {"add", "finish"} =>
       \/ main.handle \in Unprocessed \cup overtaken
       \/ main.handle = NoHandle /\ overtaken # {}
  /\ main.pc = "add" => main.handle \notin se_table
  /\ main.pc = "finish" => main.handle \in se_table

\* An address stands for its client's handle.  A thread that has listed its handle
\* finds it there, unless the job was removed before the thread got so far.
ClientInv ==
  /\ \A c \in DOMAIN addr_table : addr_table[c] = thread[c].handle
  /\ \A c \in Clients : c \in Listed /\ c \notin DOMAIN addr_table
                          => thread[c].handle \in overtaken /\ client[c] = "finished"
  /\ \A c \in Clients : client[c] \in {"accepted", "finished"}
                          => thread[c].pc \in {"answered", "removed", "ended"}
  /\ AcceptedHasJob
  /\ \A h \in tokill_list : client[reg_table[h]] = "finished"

SafetyInv == EntryInv /\ DecisionInv /\ ClientInv

--------------------------------------------------------------------------------
(* Entries.                                                                  *)

\* A step that leaves entries and free handles alone, and moves one thread
\* without moving it into or out of the stages that have an entry.
LEMMA EntryFrame2 ==
  ASSUME TypeOK, EntryInv, UNCHANGED <<pending, reuse_handles, overtaken>>,
         thread' \in [Clients -> [pc : Stages, handle : Nat]],
         NEW B \in SUBSET Clients,
         \A d \in Clients \ B : thread'[d] = thread[d],
         \A d \in B : /\ thread'[d].handle = thread[d].handle
                      /\ d \in HasEntry <=> d \in HasEntry'
                      /\ d \notin Fresh'
  PROVE  EntryInv'
<1>1. HasEntry' = HasEntry
  BY DEF HasEntry
<1>2. Fresh' \subseteq Fresh /\ Fresh \subseteq Clients /\ HasEntry \subseteq Clients
  BY DEF Fresh, HasEntry
<1>3. \A d \in Clients : thread'[d].handle = thread[d].handle
  OBVIOUS
<1> QED BY <1>1, <1>2, <1>3 DEF EntryInv

\* A blank entry is made by the thread of an overtaken handle only.
LEMMA BlankIsOvertaken ==
  ASSUME TableInv, EntryInv, NEW c \in Clients, WaitOnBlank(c)
  PROVE  /\ thread[c].handle \in overtaken
         /\ UNCHANGED <<thread, client, reg_table, addr_table, new_regs, handles, sched>>
         /\ pending' = Insert(pending, thread[c].handle, BlankEntry)
         /\ DOMAIN pending' = DOMAIN pending \cup {thread[c].handle}
         /\ \A h \in DOMAIN pending : pending'[h] = pending[h]
<1>1. thread[c].pc = "counted" /\ thread[c].handle \notin DOMAIN pending
      /\ UNCHANGED <<thread, client, reg_table, addr_table, new_regs, handles, sched>>
      /\ pending' = Insert(pending, thread[c].handle, BlankEntry)
  BY DEF WaitOnBlank, At, threads
<1>2. thread[c].handle \in overtaken
  BY <1>1 DEF EntryInv, HasEntry
<1> QED BY <1>1, <1>2 DEF Insert

\* Entries are those of issued handles.
LEMMA EntriesAreIssued ==
  ASSUME TableInv, EntryInv
  PROVE  max_handle \in Nat /\ DOMAIN pending \subseteq 0..max_handle
<1>1. /\ max_handle \in Nat /\ overtaken \subseteq 1..max_handle
      /\ \A c \in Clients : thread[c].handle \in 0..max_handle
  BY DEF TableInv, RegTypeInv, TypeOK, HandleInv
<1>2. ASSUME NEW h \in DOMAIN pending, h \notin overtaken PROVE h \in 0..max_handle
  <2>1. PICK c \in Clients : thread[c].handle = h
    BY <1>2 DEF EntryInv, HasEntry
  <2> QED BY <1>1, <2>1
<1>3. \A h \in overtaken : h \in 0..max_handle
  BY <1>1
<1> QED BY <1>1, <1>2, <1>3

\* An issued handle was free or is new, so it has no entry unless it is overtaken.
LEMMA IssuedHasNoEntry ==
  ASSUME TableInv, EntryInv, NEW c \in Clients, GetHandle(c)
  PROVE  thread'[c].handle \in DOMAIN pending => thread'[c].handle \in overtaken
<1>1. DOMAIN pending \subseteq 0..max_handle /\ max_handle \in Nat
  BY EntriesAreIssued
<1>2. thread \in [Clients -> [pc : Stages, handle : Nat]]
  BY DEF TableInv, RegTypeInv, TypeOK
<1>3. CASE thread' = [thread EXCEPT ![c] = [pc |-> "handle", handle |-> NewHandle]]
  <2>1. thread'[c].handle = max_handle + 1
    BY <1>2, <1>3 DEF NewHandle
  <2> QED BY <1>1, <2>1
<1>4. ASSUME NEW h \in reuse_handles,
             thread' = [thread EXCEPT ![c] = [pc |-> "handle", handle |-> h]]
      PROVE  thread'[c].handle \in DOMAIN pending => thread'[c].handle \in overtaken
  <2>1. thread'[c].handle = h
    BY <1>2, <1>4
  <2> QED BY <2>1 DEF EntryInv
<1> QED BY <1>3, <1>4 DEF GetHandle

LEMMA EntryStep ==
  ASSUME TableInv, SafetyInv, [Next]_vars
  PROVE  EntryInv'
<1> USE DEF TableInv, RegTypeInv, SafetyInv
<1>0. thread \in [Clients -> [pc : Stages, handle : Nat]]
  BY DEF TypeOK
<1>1. CASE UNCHANGED <<thread, pending, reuse_handles, overtaken>>
  BY <1>1 DEF EntryInv, HasEntry, Fresh
<1>2. CASE CreateThread
  <2>1. thread[acceptor.conn].pc = "none" /\ UNCHANGED <<pending, reuse_handles, overtaken>>
    BY <1>2 DEF CreateThread, ConnectionInv, tables, handles
  <2>2. /\ acceptor.conn \notin HasEntry /\ acceptor.conn \notin HasEntry'
        /\ acceptor.conn \notin Fresh' /\ {acceptor.conn} \in SUBSET Clients
    BY <1>2, <2>1, Created DEF HasEntry, Fresh
  <2> QED BY <1>2, <2>1, <2>2, Created, EntryFrame2
<1>3. ASSUME NEW c \in Clients, NEW s \in Stages, Advance(c, s),
             UNCHANGED <<pending, reuse_handles, overtaken>>, s # "handle",
             \/ c \in HasEntry /\ s \in {"addressed", "counted", "decided", "answered"}
             \/ c \notin HasEntry /\ s \in {"started", "ended"}
      PROVE  EntryInv'
  <2>1. /\ thread' \in [Clients -> [pc : Stages, handle : Nat]] /\ thread'[c].pc = s
        /\ \A d \in Clients : thread'[d].handle = thread[d].handle
        /\ \A d \in Clients \ {c} : thread'[d] = thread[d]
    BY <1>3, Advanced
  <2>2. {c} \in SUBSET Clients /\ c \notin Fresh'
    BY <1>3, <2>1 DEF Fresh
  <2>3. c \in HasEntry <=> c \in HasEntry'
    BY <1>3, <2>1 DEF HasEntry
  <2> QED BY <1>3, <2>1, <2>2, <2>3, EntryFrame2
<1>4. ASSUME NEW c \in Clients, GetHandle(c) PROVE EntryInv'
  <2>1. /\ thread'[c].pc = "handle" /\ thread[c].pc = "started"
        /\ \A d \in Clients \ {c} : thread'[d] = thread[d]
        /\ reuse_handles' \subseteq reuse_handles /\ UNCHANGED <<pending, overtaken>>
    BY <1>4, Issued DEF GetHandle, At, tables
  <2>2. HasEntry' = HasEntry /\ Fresh' = Fresh \cup {c} /\ c \notin HasEntry
    BY <2>1 DEF HasEntry, Fresh
  <2>3. thread'[c].handle \in DOMAIN pending => thread'[c].handle \in overtaken
    BY <1>4, IssuedHasNoEntry
  <2>4. HasEntry \subseteq Clients /\ Fresh \subseteq Clients
    BY DEF HasEntry, Fresh
  <2>5. \A h \in DOMAIN pending \ overtaken : pending[h].client # c
    BY <2>2 DEF EntryInv
  <2>6. \A d \in Fresh' : thread'[d].handle \in DOMAIN pending'
                            => thread'[d].handle \in overtaken'
    BY <2>1, <2>2, <2>3, <2>4 DEF EntryInv
  <2> QED BY <2>1, <2>2, <2>4, <2>5, <2>6 DEF EntryInv
<1>5. ASSUME NEW c \in Clients, AddPending(c) PROVE EntryInv'
  <2> DEFINE h == thread[c].handle
             e == [handle |-> h, client |-> c, status |-> "NOT_PROCESSED"]
  <2>1. /\ thread[c].pc = "handle" /\ thread'[c].pc = "pending"
        /\ \A d \in Clients : thread'[d].handle = thread[d].handle
        /\ \A d \in Clients \ {c} : thread'[d] = thread[d]
        /\ UNCHANGED <<reuse_handles, overtaken>> /\ pending' = Insert(pending, h, e)
    BY <1>5, Advanced DEF AddPending, At, Stages, handles
  <2>2. c \in Fresh /\ HasEntry' = HasEntry \cup {c} /\ Fresh' = Fresh \ {c}
    BY <2>1 DEF HasEntry, Fresh
  <2>3. (h \in DOMAIN pending => h \in overtaken) /\ h \notin reuse_handles
        /\ \A d \in Fresh' : thread[d].handle # h
    BY <2>2 DEF EntryInv, HandleInv
  <2>4. /\ e.client = c /\ e.handle = h
    OBVIOUS
  <2> HIDE DEF e
  <2>5. /\ DOMAIN pending' = DOMAIN pending \cup {h}
        /\ h \notin overtaken => h \notin DOMAIN pending /\ pending'[h] = e
        /\ \A k \in DOMAIN pending : pending'[k] = pending[k]
    BY <2>1, <2>3 DEF Insert
  <2>6. HasEntry \subseteq Clients /\ Fresh \subseteq Clients
    BY DEF HasEntry, Fresh
  <2>7. \A d \in HasEntry' : thread'[d].handle \notin overtaken' =>
          /\ thread'[d].handle \in DOMAIN pending'
          /\ pending'[thread'[d].handle].client = d
          /\ pending'[thread'[d].handle].handle = thread'[d].handle
    BY <2>1, <2>2, <2>4, <2>5, <2>6 DEF EntryInv
  <2>8. \A k \in DOMAIN pending' \ overtaken' : /\ pending'[k].client \in HasEntry'
                                                /\ thread'[pending'[k].client].handle = k
    BY <2>1, <2>2, <2>4, <2>5, <2>6 DEF EntryInv
  <2>9. \A d \in Fresh' : thread'[d].handle \in DOMAIN pending'
                            => thread'[d].handle \in overtaken'
    BY <2>1, <2>2, <2>3, <2>5, <2>6 DEF EntryInv
  <2>10. reuse_handles' \cap DOMAIN pending' \subseteq overtaken'
    BY <2>1, <2>3, <2>5 DEF EntryInv
  <2> QED BY <2>7, <2>8, <2>9, <2>10 DEF EntryInv
<1>6. ASSUME NEW c \in Clients, RemovePending(c) PROVE EntryInv'
  <2> DEFINE h == thread[c].handle
  <2>1. /\ thread[c].pc = "answered" /\ thread'[c].pc = "removed"
        /\ \A d \in Clients : thread'[d].handle = thread[d].handle
        /\ \A d \in Clients \ {c} : thread'[d] = thread[d]
        /\ UNCHANGED <<reuse_handles, overtaken>> /\ pending' = Erase(pending, h)
    BY <1>6, Advanced DEF RemovePending, At, Stages, handles
  <2>2. c \in HasEntry /\ HasEntry' = HasEntry \ {c} /\ Fresh' = Fresh
    BY <2>1 DEF HasEntry, Fresh
  <2>3. /\ DOMAIN pending' = DOMAIN pending \ {h}
        /\ \A k \in DOMAIN pending' : pending'[k] = pending[k]
    BY <2>1 DEF Erase
  <2>4. \A d \in HasEntry' : thread[d].handle \notin overtaken => thread[d].handle # h
    BY <2>2 DEF EntryInv
  <2>5. \A k \in DOMAIN pending' \ overtaken : pending[k].client # c
    BY <2>3 DEF EntryInv
  <2>6. HasEntry \subseteq Clients /\ Fresh \subseteq Clients
    BY DEF HasEntry, Fresh
  <2> QED BY <2>1, <2>2, <2>3, <2>4, <2>5, <2>6 DEF EntryInv
<1>7. ASSUME NEW c \in Clients, Thread(c) PROVE EntryInv'
  <2>1. CASE TakeParameter(c)
    BY <1>3, <2>1 DEF TakeParameter, At, Stages, HasEntry, tables, handles
  <2>2. CASE AddAddress(c)
    BY <1>3, <2>2 DEF AddAddress, At, Stages, HasEntry, handles
  <2>3. CASE Increase(c)
    BY <1>3, <2>3 DEF Increase, At, Stages, HasEntry, handles
  <2>4. CASE Decide(c)
    BY <1>3, <2>4 DEF Decide, At, Stages, HasEntry, tables, handles
  <2>5. CASE WaitOnBlank(c)
    <3>1. HasEntry' = HasEntry /\ Fresh' = Fresh /\ UNCHANGED <<reuse_handles, overtaken>>
      BY <2>5, BlankIsOvertaken DEF HasEntry, Fresh, handles
    <3>2. /\ DOMAIN pending \subseteq DOMAIN pending' /\ thread' = thread
          /\ \A h \in DOMAIN pending : pending'[h] = pending[h]
          /\ \A h \in DOMAIN pending' : h \in DOMAIN pending \/ h \in overtaken
      BY <2>5, BlankIsOvertaken
    <3> QED BY <3>1, <3>2 DEF EntryInv
  <2>6. CASE Respond(c)
    BY <1>3, <2>6 DEF Respond, At, Stages, HasEntry, tables, handles
  <2>7. CASE SignalAcceptor(c)
    BY <1>3, <2>7 DEF SignalAcceptor, At, Stages, HasEntry, tables, handles
  <2>8. CASE ReadFails(c)
    BY <1>1, <2>8 DEF ReadFails, Dexit, tables, threads, handles
  <2> QED BY <1>4, <1>5, <1>6, <1>7, <2>1, <2>2, <2>3, <2>4, <2>5, <2>6, <2>7, <2>8 DEF Thread
<1>8. CASE FinishRegistration
  <2> DEFINE h == main.handle
  <2>1. /\ h \in DOMAIN pending \cup overtaken /\ h \in Nat
        /\ pending' = Assign(pending, h, Decided(h)) /\ UNCHANGED <<thread, handles>>
    BY <1>8 DEF FinishRegistration, DecisionInv, JobInv, Unprocessed, TypeOK, threads
  <2>2. h \in DOMAIN pending => /\ Decided(h).handle = pending[h].handle
                                /\ Decided(h).client = pending[h].client
    BY <2>1, DecidedType
  <2>3. /\ DOMAIN pending' = DOMAIN pending \cup {h}
        /\ \A k \in DOMAIN pending : /\ pending'[k].handle = pending[k].handle
                                     /\ pending'[k].client = pending[k].client
    BY <2>1, <2>2 DEF Assign
  <2>4. HasEntry' = HasEntry /\ Fresh' = Fresh /\ UNCHANGED <<reuse_handles, overtaken>>
    BY <2>1 DEF HasEntry, Fresh, handles
  <2>5. \A c \in Fresh : thread[c].handle \in DOMAIN pending' => thread[c].handle \in overtaken
    BY <2>1, <2>3 DEF EntryInv
  <2>6. \A k \in DOMAIN pending' : k \in DOMAIN pending \/ k \in overtaken
    BY <2>1, <2>3
  <2> QED BY <2>1, <2>3, <2>4, <2>5, <2>6 DEF EntryInv
<1>9. ASSUME NEW h \in tokill_list, RemoveJob(h) PROVE EntryInv'
  <2>1. /\ UNCHANGED <<thread, pending>> /\ (h \in DOMAIN pending => h \in overtaken')
        /\ reuse_handles' = reuse_handles \cup {h} /\ overtaken \subseteq overtaken'
    BY <1>9 DEF RemoveJob, threads
  <2>2. HasEntry' = HasEntry /\ Fresh' = Fresh
    BY <2>1 DEF HasEntry, Fresh
  <2> QED BY <2>1, <2>2 DEF EntryInv
<1>10. CASE Accept \/ Throttle \/ AddressFails
            \/ \E c \in Clients : Connect(c) \/ HandleFinished(c)
  BY <1>1, <1>10 DEF Accept, Throttle, AddressFails, Connect, HandleFinished, Dexit, tables,
     threads, handles
<1>11. CASE Main
  BY <1>1, <1>8, <1>9, <1>11 DEF Main, GetNewReg, GetNewRegFails, AddJob, AddJobFails,
     Decrease, StartRemove, EndRemove, Dexit, tables, threads, handles
<1> QED BY <1>1, <1>2, <1>7, <1>10, <1>11 DEF Next, Acceptor, vars, tables, threads, handles

--------------------------------------------------------------------------------
(* Decisions.                                                                *)

LEMMA DecisionStep ==
  ASSUME TableInv, SafetyInv, [Next]_vars
  PROVE  DecisionInv'
<1> USE DEF TableInv, RegTypeInv, SafetyInv
<1>0. thread \in [Clients -> [pc : Stages, handle : Nat]]
  BY DEF TypeOK
<1>1. CASE UNCHANGED <<thread, pending, se_table, main, overtaken>>
  BY <1>1 DEF DecisionInv, Unprocessed
<1>2. CASE CreateThread
  <2>1. UNCHANGED <<pending, se_table, main, overtaken>>
    BY <1>2 DEF CreateThread, tables, sched, handles
  <2>2. \A d \in Clients : thread'[d].pc \in {"decided", "answered"} => thread'[d] = thread[d]
    BY <1>2, Created
  <2> QED BY <2>1, <2>2 DEF DecisionInv, Unprocessed
<1>3. ASSUME NEW c \in Clients, NEW s \in Stages, Advance(c, s),
             UNCHANGED <<pending, se_table, main, overtaken>>,
             s \in {"decided", "answered"} => thread[c].handle \notin Unprocessed \ overtaken
      PROVE  DecisionInv'
  <2>1. /\ thread'[c].pc = s /\ thread'[c].handle = thread[c].handle
        /\ \A d \in Clients \ {c} : thread'[d] = thread[d]
    BY <1>3, Advanced
  <2>2. Unprocessed' = Unprocessed
    BY <1>3 DEF Unprocessed
  <2> QED BY <1>3, <2>1, <2>2 DEF DecisionInv
<1>4. ASSUME NEW c \in Clients, GetHandle(c) PROVE DecisionInv'
  <2>1. /\ thread'[c].pc = "handle" /\ \A d \in Clients \ {c} : thread'[d] = thread[d]
        /\ UNCHANGED <<pending, se_table, main, overtaken>>
    BY <1>4, Issued DEF GetHandle, tables, sched
  <2> QED BY <2>1 DEF DecisionInv, Unprocessed
<1>5. ASSUME NEW c \in Clients, AddPending(c) PROVE DecisionInv'
  <2> DEFINE h == thread[c].handle
             e == [handle |-> h, client |-> c, status |-> "NOT_PROCESSED"]
  <2>1. /\ thread[c].pc = "handle" /\ thread'[c].pc = "pending"
        /\ \A d \in Clients \ {c} : thread'[d] = thread[d]
        /\ UNCHANGED <<se_table, main, overtaken>> /\ pending' = Insert(pending, h, e)
    BY <1>5, Advanced DEF AddPending, At, Stages, sched, handles
  <2>2. h \in DOMAIN pending => h \in overtaken
    BY <2>1 DEF EntryInv, Fresh
  <2>3. e.status = "NOT_PROCESSED"
    OBVIOUS
  <2> HIDE DEF e
  <2>4. /\ DOMAIN pending' = DOMAIN pending \cup {h}
        /\ h \notin DOMAIN pending => pending'[h] = e
        /\ \A k \in DOMAIN pending : pending'[k] = pending[k]
    BY <2>1 DEF Insert
  <2>5. /\ Unprocessed \subseteq Unprocessed' /\ Unprocessed' \subseteq Unprocessed \cup {h}
        /\ DOMAIN pending' \ Unprocessed' \subseteq DOMAIN pending \ Unprocessed
    BY <2>3, <2>4 DEF Unprocessed
  <2>6. \A d \in Clients : thread[d].pc \in {"decided", "answered"}
                             => thread[d].handle # h \/ h \in overtaken
    BY <2>2 DEF EntryInv, HasEntry
  <2>7. \A d \in Clients : thread'[d].pc \in {"decided", "answered"} =>
          thread[d].pc \in {"decided", "answered"} /\ thread'[d].handle = thread[d].handle
    BY <2>1
  <2> QED BY <2>1, <2>5, <2>6, <2>7 DEF DecisionInv
<1>6. ASSUME NEW c \in Clients, RemovePending(c) PROVE DecisionInv'
  <2> DEFINE h == thread[c].handle
  <2>1. /\ thread[c].pc = "answered" /\ thread'[c].pc = "removed"
        /\ \A d \in Clients \ {c} : thread'[d] = thread[d]
        /\ UNCHANGED <<se_table, main, overtaken>> /\ pending' = Erase(pending, h)
    BY <1>6, Advanced DEF RemovePending, At, Stages, sched, handles
  <2>2. h \notin Unprocessed \ overtaken
    BY <2>1 DEF DecisionInv
  <2>3. /\ DOMAIN pending' = DOMAIN pending \ {h}
        /\ \A k \in DOMAIN pending' : pending'[k] = pending[k]
    BY <2>1 DEF Erase
  <2>4. Unprocessed' = Unprocessed \ {h}
    BY <2>3 DEF Unprocessed
  <2> QED BY <2>1, <2>2, <2>3, <2>4 DEF DecisionInv
<1>7. ASSUME NEW c \in Clients, Thread(c) PROVE DecisionInv'
  <2>1. CASE TakeParameter(c)
    BY <1>3, <2>1 DEF TakeParameter, Stages, tables, sched, handles
  <2>2. CASE AddAddress(c)
    BY <1>3, <2>2 DEF AddAddress, Stages, sched, handles
  <2>3. CASE Increase(c)
    BY <1>3, <2>3 DEF Increase, Stages, sched, handles
  <2>4. CASE Decide(c)
    <3>1. thread[c].handle \notin Unprocessed
      BY <2>4 DEF Decide, Unprocessed
    <3> QED BY <1>3, <2>4, <3>1 DEF Decide, Stages, tables, sched, handles
  <2>5. CASE WaitOnBlank(c)
    <3>1. Unprocessed \subseteq Unprocessed'
          /\ Unprocessed' \subseteq Unprocessed \cup {thread[c].handle}
          /\ DOMAIN pending' \ Unprocessed' \subseteq DOMAIN pending \ Unprocessed
      <4>1. BlankEntry.status = "NOT_PROCESSED"
        BY DEF BlankEntry
      <4>2. thread[c].handle \notin DOMAIN pending => pending'[thread[c].handle] = BlankEntry
        BY <2>5, BlankIsOvertaken DEF Insert
      <4> QED BY <2>5, <4>1, <4>2, BlankIsOvertaken DEF Unprocessed
    <3>2. UNCHANGED <<se_table, main, overtaken, thread>> /\ thread[c].handle \in overtaken
      BY <2>5, BlankIsOvertaken DEF sched, handles
    <3> QED BY <3>1, <3>2 DEF DecisionInv
  <2>6. CASE Respond(c)
    <3>1. thread[c].handle \notin Unprocessed \ overtaken
      BY <2>6 DEF Respond, At, DecisionInv
    <3> QED BY <1>3, <2>6, <3>1 DEF Respond, Stages, tables, sched, handles
  <2>7. CASE SignalAcceptor(c)
    BY <1>3, <2>7 DEF SignalAcceptor, Stages, tables, sched, handles
  <2>8. CASE ReadFails(c)
    BY <1>1, <2>8 DEF ReadFails, Dexit, tables, threads, sched, handles
  <2> QED BY <1>4, <1>5, <1>6, <1>7, <2>1, <2>2, <2>3, <2>4, <2>5, <2>6, <2>7, <2>8 DEF Thread
<1>8. CASE GetNewReg
  <2>1. PICK h \in Unprocessed : main' = [pc |-> "add", handle |-> pending[h].handle]
    BY <1>8 DEF GetNewReg
  <2>2. /\ UNCHANGED <<thread, pending, se_table, overtaken>> /\ main.pc = "poll"
    BY <1>8 DEF GetNewReg, threads, tables, handles
  <2>3. h \in DOMAIN pending /\ h # NoHandle
    BY <2>1 DEF Unprocessed, JobInv
  <2>4. h \notin overtaken => pending[h].handle = h
    BY <2>3 DEF EntryInv
  <2>5. pending[h].handle \in {h, NoHandle}
    BY <2>1 DEF JobInv
  <2>6. NoHandle \notin se_table
    BY DEF JobInv, HandleInv, NoHandle
  <2>7. pending[h].handle \notin se_table
    BY <2>1, <2>2, <2>3, <2>5, <2>6 DEF JobInv
  <2>8. \/ pending[h].handle \in Unprocessed \cup overtaken
        \/ pending[h].handle = NoHandle /\ overtaken # {}
    BY <2>1, <2>4, <2>5
  <2> QED BY <2>1, <2>2, <2>7, <2>8 DEF DecisionInv, Unprocessed
<1>9. CASE AddJob
  <2>1. /\ UNCHANGED <<thread, pending, overtaken>> /\ main.pc = "add" /\ main'.pc = "finish"
        /\ main'.handle = main.handle /\ se_table' = se_table \cup {main.handle}
    BY <1>9 DEF AddJob, threads, tables, TypeOK, handles
  <2> QED BY <2>1 DEF DecisionInv, Unprocessed
<1>10. CASE FinishRegistration
  <2> DEFINE h == main.handle
  <2>1. /\ UNCHANGED <<thread, se_table, overtaken>> /\ main.pc = "finish"
        /\ main'.pc = "decrease"
        /\ pending' = Assign(pending, h, Decided(h)) /\ h \in Nat
    BY <1>10 DEF FinishRegistration, threads, TypeOK, handles
  <2>2. h \in se_table
    BY <2>1 DEF DecisionInv
  <2>3. Decided(h).status = "SCHED_ACCEPTED"
    BY <2>1, DecidedType
  <2>4. /\ DOMAIN pending' = DOMAIN pending \cup {h} /\ pending'[h] = Decided(h)
        /\ \A k \in DOMAIN pending \ {h} : pending'[k] = pending[k]
    BY <2>1, <2>2 DEF Assign
  <2>5. Unprocessed' = Unprocessed \ {h}
    BY <2>3, <2>4 DEF Unprocessed
  <2> QED BY <2>1, <2>2, <2>4, <2>5 DEF DecisionInv
<1>11. CASE Decrease \/ StartRemove \/ EndRemove
  <2>1. UNCHANGED <<thread, pending, se_table, overtaken>> /\ main'.pc \in {"poll", "remove"}
    BY <1>11 DEF Decrease, StartRemove, EndRemove, threads, tables, TypeOK, handles
  <2> QED BY <2>1 DEF DecisionInv, Unprocessed
<1>12. ASSUME NEW h \in tokill_list, RemoveJob(h) PROVE DecisionInv'
  <2>1. /\ UNCHANGED <<thread, pending, main>> /\ (h \in DOMAIN pending => h \in overtaken')
        /\ overtaken \subseteq overtaken'
        /\ se_table' = se_table \ {h} /\ main.pc = "remove"
    BY <1>12 DEF RemoveJob, threads
  <2> QED BY <2>1 DEF DecisionInv, Unprocessed
<1>13. CASE Accept \/ Throttle \/ AddressFails \/ GetNewRegFails \/ AddJobFails
            \/ \E c \in Clients : Connect(c) \/ HandleFinished(c)
  BY <1>1, <1>13 DEF Accept, Throttle, AddressFails, GetNewRegFails, AddJobFails, Connect,
     HandleFinished, Dexit, tables, threads, sched, handles
<1> QED BY <1>1, <1>2, <1>7, <1>8, <1>9, <1>10, <1>11, <1>12, <1>13
        DEF Next, Acceptor, Main, vars, tables, threads, sched, handles

--------------------------------------------------------------------------------
(* Addresses and answers.                                                    *)

\* A step of one thread that leaves the clients and all addresses alone.
LEMMA ClientFrame ==
  ASSUME TypeOK, ClientInv, NEW c \in Clients, NEW s \in Stages, Advance(c, s),
         UNCHANGED <<client, reg_table, addr_table, se_table, tokill_list, overtaken>>,
         c \in Listed' => c \in Listed,
         thread[c].pc \in {"answered", "removed", "ended"}
           => s \in {"answered", "removed", "ended"}
  PROVE  ClientInv'
<1>1. /\ thread'[c].pc = s
      /\ \A d \in Clients : thread'[d].handle = thread[d].handle
      /\ \A d \in Clients \ {c} : thread'[d] = thread[d]
  BY Advanced
<1>2. Listed' \subseteq Listed
  BY <1>1 DEF Listed, HasEntry, Unlisted
<1>3. DOMAIN addr_table \subseteq Clients
  BY DEF TypeOK
<1>4. AcceptedHasJob'
  BY <1>1 DEF ClientInv, AcceptedHasJob
<1>5. \A d \in Clients : client'[d] \in {"accepted", "finished"}
        => thread'[d].pc \in {"answered", "removed", "ended"}
  BY <1>1 DEF ClientInv
<1> QED BY <1>1, <1>2, <1>3, <1>4, <1>5 DEF ClientInv

LEMMA ClientStep ==
  ASSUME TableInv, SafetyInv, [Next]_vars
  PROVE  ClientInv'
<1> USE DEF TableInv, RegTypeInv, SafetyInv
<1>0. /\ thread \in [Clients -> [pc : Stages, handle : Nat]]
      /\ client \in [Clients -> {"new", "connected", "accepted", "finished"}]
      /\ DOMAIN addr_table \subseteq Clients
      /\ \A h \in DOMAIN reg_table : reg_table[h] \in Clients
      /\ tokill_list \subseteq DOMAIN reg_table
  BY DEF TypeOK, JobInv
<1>1. ASSUME UNCHANGED <<client, thread, reg_table, addr_table, tokill_list, overtaken>>,
             se_table \subseteq se_table'
      PROVE  ClientInv'
  BY <1>1 DEF ClientInv, AcceptedHasJob, Listed, HasEntry, Unlisted
<1>2. CASE CreateThread
  <2> DEFINE c == acceptor.conn
  <2>1. /\ UNCHANGED <<client, reg_table, addr_table, se_table, tokill_list, overtaken>>
        /\ client[c] = "connected" /\ thread[c].pc = "none"
    BY <1>2 DEF CreateThread, ConnectionInv, tables, sched, handles
  <2>2. Listed' = Listed /\ c \notin DOMAIN addr_table
    BY <1>2, <2>1, Created DEF Listed, HasEntry, Unlisted, AddressInv
  <2>3. PICK e : e = c
    OBVIOUS
  <2>4. \A d \in Clients : thread'[d].handle = thread[d].handle
    BY <1>2, Created
  <2>5. \A d \in Clients \ {e} : thread'[d] = thread[d]
    BY <1>2, <2>3, Created
  <2>6. client[e] \notin {"accepted", "finished"}
    BY <2>1, <2>3
  <2>7. client' = client /\ addr_table' = addr_table /\ reg_table' = reg_table
        /\ se_table' = se_table /\ tokill_list' = tokill_list /\ overtaken' = overtaken
    BY <2>1
  <2>8. AcceptedHasJob'
    BY <2>4, <2>7 DEF ClientInv, AcceptedHasJob
  <2>9. \A d \in DOMAIN addr_table' : addr_table'[d] = thread'[d].handle
    BY <1>0, <2>4, <2>7 DEF ClientInv
  <2>10. \A d \in Clients : client'[d] \in {"accepted", "finished"}
                            => thread'[d].pc \in {"answered", "removed", "ended"}
    BY <2>5, <2>6, <2>7 DEF ClientInv
  <2> QED BY <2>2, <2>4, <2>7, <2>8, <2>9, <2>10 DEF ClientInv
<1>3. ASSUME NEW c \in Clients, GetHandle(c) PROVE ClientInv'
  <2>1. /\ thread'[c].pc = "handle" /\ thread[c].pc = "started"
        /\ \A d \in Clients \ {c} : thread'[d] = thread[d]
        /\ UNCHANGED <<client, reg_table, addr_table, se_table, tokill_list, overtaken>>
    BY <1>3, Issued DEF GetHandle, At, tables, sched
  <2>2. Listed' = Listed /\ c \notin DOMAIN addr_table
        /\ client[c] \notin {"accepted", "finished"}
    BY <2>1 DEF Listed, HasEntry, Unlisted, AddressInv, ClientInv
  <2> QED BY <1>0, <2>1, <2>2 DEF ClientInv, AcceptedHasJob
<1>4. ASSUME NEW c \in Clients, AddAddress(c) PROVE ClientInv'
  <2> DEFINE h == thread[c].handle
  <2>1. /\ thread[c].pc = "pending" /\ thread'[c].pc = "addressed"
        /\ \A d \in Clients : thread'[d].handle = thread[d].handle
        /\ \A d \in Clients \ {c} : thread'[d] = thread[d]
        /\ UNCHANGED <<client, se_table, tokill_list, overtaken>>
        /\ reg_table' = Insert(reg_table, h, c) /\ addr_table' = Insert(addr_table, c, h)
    BY <1>4, Advanced DEF AddAddress, At, Stages, sched, handles
  <2>2. /\ c \notin DOMAIN addr_table /\ client[c] \notin {"accepted", "finished"}
    BY <2>1 DEF AddressInv, ClientInv
  <2>3. /\ DOMAIN addr_table' = DOMAIN addr_table \cup {c} /\ addr_table'[c] = h
        /\ \A d \in DOMAIN addr_table : addr_table'[d] = addr_table[d]
        /\ \A k \in DOMAIN reg_table : reg_table'[k] = reg_table[k]
    BY <2>1, <2>2 DEF Insert
  <2>4. Listed' = Listed \cup {c}
    BY <2>1 DEF Listed, HasEntry, Unlisted
  <2>5. AcceptedHasJob'
    BY <1>0, <2>1, <2>2, <2>3 DEF ClientInv, AcceptedHasJob
  <2>6. \A k \in tokill_list' : client'[reg_table'[k]] = "finished"
    BY <1>0, <2>1, <2>3 DEF ClientInv
  <2> QED BY <1>0, <2>1, <2>2, <2>3, <2>4, <2>5, <2>6 DEF ClientInv
<1>5. ASSUME NEW c \in Clients, Respond(c) PROVE ClientInv'
  <2> DEFINE h == thread[c].handle
  <2>1. /\ thread[c].pc = "decided" /\ thread'[c].pc = "answered"
        /\ \A d \in Clients : thread'[d].handle = thread[d].handle
        /\ \A d \in Clients \ {c} : thread'[d] = thread[d]
        /\ UNCHANGED <<reg_table, addr_table, se_table, tokill_list, overtaken>>
        /\ client' = [client EXCEPT ![c] = "accepted"]
    BY <1>5, Advanced DEF Respond, At, Stages, sched, tables, handles
  <2>2. c \in Listed /\ c \in HasEntry /\ Listed' = Listed
    BY <2>1 DEF Listed, HasEntry, Unlisted
  <2>4. client[c] \notin {"accepted", "finished"}
    BY <2>1 DEF ClientInv
  <2>3. h \in se_table \cup overtaken /\ c \in DOMAIN addr_table /\ addr_table[c] = h
    BY <2>1, <2>2, <2>4 DEF EntryInv, DecisionInv, ClientInv
  <2>5. AcceptedHasJob'
    BY <1>0, <2>1, <2>3 DEF ClientInv, AcceptedHasJob
  <2>6. \A k \in tokill_list' : client'[reg_table'[k]] = "finished"
    BY <1>0, <2>1, <2>4 DEF ClientInv
  <2> QED BY <1>0, <2>1, <2>2, <2>5, <2>6 DEF ClientInv
<1>6. ASSUME NEW c \in Clients, Thread(c) PROVE ClientInv'
  <2> USE DEF Listed, HasEntry, Unlisted, At, Stages
  <2>1. CASE TakeParameter(c)
    BY <2>1, ClientFrame, Advanced DEF TakeParameter, tables, sched, handles
  <2>2. CASE AddPending(c)
    BY <2>2, ClientFrame, Advanced DEF AddPending, sched, handles
  <2>3. CASE Increase(c)
    BY <2>3, ClientFrame DEF Increase, sched, handles
  <2>4. CASE Decide(c)
    BY <2>4, ClientFrame DEF Decide, tables, sched, handles
  <2>5. CASE WaitOnBlank(c)
    BY <1>1, <2>5, BlankIsOvertaken DEF handles, sched
  <2>6. CASE RemovePending(c)
    BY <2>6, ClientFrame, Advanced DEF RemovePending, sched, handles
  <2>7. CASE SignalAcceptor(c)
    BY <2>7, ClientFrame, Advanced DEF SignalAcceptor, tables, sched, handles
  <2>8. CASE ReadFails(c)
    BY <1>1, <2>8 DEF ReadFails, Dexit, tables, threads, sched, handles
  <2> QED BY <1>3, <1>4, <1>5, <1>6, <2>1, <2>2, <2>3, <2>4, <2>5, <2>6, <2>7, <2>8 DEF Thread
<1>7. ASSUME NEW c \in Clients, Connect(c) PROVE ClientInv'
  <2>1. /\ UNCHANGED <<thread, reg_table, addr_table, se_table, tokill_list, overtaken>>
        /\ client[c] = "new" /\ client' = [client EXCEPT ![c] = "connected"]
    BY <1>7 DEF Connect, tables, sched, handles
  <2>2. \A k \in tokill_list' : client'[reg_table'[k]] = "finished"
    BY <1>0, <2>1 DEF ClientInv
  <2>3. AcceptedHasJob'
    BY <1>0, <2>1 DEF ClientInv, AcceptedHasJob
  <2>4. Listed' = Listed
    BY <2>1 DEF Listed, HasEntry, Unlisted
  <2> QED BY <1>0, <2>1, <2>2, <2>3, <2>4 DEF ClientInv
<1>8. ASSUME NEW c \in Clients, HandleFinished(c) PROVE ClientInv'
  <2>1. /\ UNCHANGED <<thread, reg_table, addr_table, se_table, overtaken>>
        /\ client[c] = "accepted" /\ client' = [client EXCEPT ![c] = "finished"]
        /\ tokill_list' = tokill_list \cup {addr_table[c]}
    BY <1>8 DEF HandleFinished, tables, sched, handles
  <2>2. c \in DOMAIN addr_table /\ reg_table[addr_table[c]] = c
    BY <2>1 DEF ClientInv, AcceptedHasJob, TablesAgree
  <2>3. \A k \in tokill_list' : client'[reg_table'[k]] = "finished"
    BY <1>0, <2>1, <2>2 DEF ClientInv
  <2>4. AcceptedHasJob'
    BY <1>0, <2>1 DEF ClientInv, AcceptedHasJob
  <2>5. Listed' = Listed
    BY <2>1 DEF Listed, HasEntry, Unlisted
  <2> QED BY <1>0, <2>1, <2>3, <2>4, <2>5 DEF ClientInv
<1>9. ASSUME NEW h \in tokill_list, RemoveJob(h) PROVE ClientInv'
  <2> DEFINE c == reg_table[h]
  <2>1. /\ UNCHANGED <<client, thread, pending>> /\ (h \in DOMAIN pending => h \in overtaken')
        /\ overtaken \subseteq overtaken'
        /\ se_table' = se_table \ {h} /\ tokill_list' = tokill_list \ {h}
        /\ addr_table' = Erase(addr_table, c) /\ reg_table' = Erase(reg_table, h)
    BY <1>9 DEF RemoveJob, threads, WithoutAddress
  <2>2. /\ DOMAIN addr_table' = DOMAIN addr_table \ {c}
        /\ \A d \in DOMAIN addr_table' : addr_table'[d] = addr_table[d]
        /\ \A k \in DOMAIN reg_table \ {h} : reg_table'[k] = reg_table[k]
    BY <2>1 DEF Erase
  <2>3. /\ c \in Clients /\ c \in DOMAIN addr_table /\ addr_table[c] = h
        /\ client[c] = "finished"
    BY <1>0 DEF TablesAgree, ClientInv
  <2>4. thread[c].handle = h /\ (c \in HasEntry => h \in overtaken')
    BY <2>1, <2>3 DEF ClientInv, EntryInv
  <2>5. \A d \in Clients : d \in Listed' /\ d \notin DOMAIN addr_table'
                             => thread'[d].handle \in overtaken' /\ client'[d] = "finished"
    <3>1. Listed' = Listed /\ Listed \subseteq HasEntry
      BY <2>1 DEF Listed, HasEntry, Unlisted
    <3> QED BY <2>1, <2>2, <2>3, <2>4, <3>1 DEF ClientInv
  <2>6. AcceptedHasJob'
    <3>1. ASSUME NEW d \in Clients, client[d] = "accepted"
          PROVE /\ d \in DOMAIN addr_table \ {c} /\ addr_table[d] = thread[d].handle
                /\ thread[d].handle \in (se_table \ {h}) \cup overtaken
      <4>1. /\ d \in DOMAIN addr_table /\ addr_table[d] = thread[d].handle
            /\ thread[d].handle \in se_table \cup overtaken /\ d # c
        BY <2>3, <3>1 DEF ClientInv, AcceptedHasJob
      <4>2. reg_table[addr_table[d]] = d
        BY <4>1 DEF TablesAgree
      <4> QED BY <4>1, <4>2
    <3> QED BY <2>1, <2>2, <3>1 DEF AcceptedHasJob
  <2> QED BY <1>0, <2>1, <2>2, <2>5, <2>6 DEF ClientInv
<1>10. CASE Accept \/ Throttle \/ AddressFails
  BY <1>1, <1>10 DEF Accept, Throttle, AddressFails, Dexit, tables, threads, sched, handles
<1>11. CASE Main
  BY <1>1, <1>9, <1>11 DEF Main, GetNewReg, GetNewRegFails, AddJob, AddJobFails,
     FinishRegistration, Decrease, StartRemove, EndRemove, Dexit, tables, threads, sched, handles
<1> QED BY <1>1, <1>2, <1>6, <1>7, <1>8, <1>10, <1>11
        DEF Next, Acceptor, vars, tables, threads, sched, handles

--------------------------------------------------------------------------------
(* The counter.                                                              *)

\* Threads whose entry is in the table before new_regs counts it, and the entry
\* that is decided before new_regs forgets it.
Uncounted == {c \in Clients : thread[c].pc \in {"pending", "addressed"}}
Forgotten == IF main.pc = "decrease" THEN 1 ELSE 0
Balanced == new_regs + Cardinality(Uncounted) = Cardinality(Unprocessed) + Forgotten

LEMMA CountedSets ==
  ASSUME TableInv, EntryInv
  PROVE  /\ IsFiniteSet(Uncounted) /\ Cardinality(Uncounted) \in Nat
         /\ IsFiniteSet(Unprocessed) /\ Cardinality(Unprocessed) \in Nat
         /\ new_regs \in Nat /\ Forgotten \in 0..1
<1>1. Uncounted \in SUBSET Clients /\ IsFiniteSet(Clients)
  BY RegistrationAssumption DEF Uncounted
<1>2. IsFiniteSet(Uncounted)
  BY <1>1, FS_Subset
<1>3. max_handle \in Nat /\ Unprocessed \in SUBSET (0..max_handle)
  BY EntriesAreIssued DEF Unprocessed
<1>4. IsFiniteSet(0..max_handle)
  BY <1>3, FS_Interval
<1>5. IsFiniteSet(Unprocessed)
  BY <1>3, <1>4, FS_Subset
<1>6. new_regs \in Nat /\ Forgotten \in 0..1
  BY DEF TableInv, RegTypeInv, TypeOK, Forgotten
<1> QED BY <1>2, <1>5, <1>6, FS_CardinalityType

LEMMA BalanceIs ==
  /\ NewRegsBalance <=> (overtaken = {} => Balanced)
  /\ NewRegsBalance' <=> (overtaken' = {} => Balanced')
BY DEF NewRegsBalance, Balanced, Uncounted, Forgotten

\* overtaken never forgets.
LEMMA OvertakenGrows ==
  ASSUME [Next]_vars
  PROVE  overtaken \subseteq overtaken'
BY DEF Next, Acceptor, Accept, Throttle, CreateThread, Thread, TakeParameter, ReadFails, GetHandle,
   AddPending, AddAddress, Increase, Decide, WaitOnBlank, Respond, RemovePending, SignalAcceptor,
   Main, GetNewReg, GetNewRegFails, AddJob, AddJobFails, FinishRegistration, Decrease,
   StartRemove, EndRemove, RemoveJob, AddressFails, Connect, HandleFinished, Dexit, handles, vars

LEMMA BalanceStep ==
  ASSUME TableInv, SafetyInv, NewRegsBalance, [Next]_vars
  PROVE  NewRegsBalance'
<1> SUFFICES ASSUME overtaken' = {} PROVE Balanced'
  BY BalanceIs
<1> USE DEF TableInv, RegTypeInv, SafetyInv
<1>a. overtaken = {} /\ Balanced
  BY OvertakenGrows, BalanceIs
<1>0. thread \in [Clients -> [pc : Stages, handle : Nat]]
  BY DEF TypeOK
<1>1. ASSUME UNCHANGED <<Uncounted, Unprocessed, new_regs, Forgotten>>
      PROVE  Balanced'
  BY <1>a, <1>1 DEF Balanced
<1>2. CASE CreateThread
  <2>1. UNCHANGED <<pending, main, new_regs>> /\ thread[acceptor.conn].pc = "none"
    BY <1>2 DEF CreateThread, ConnectionInv, tables, sched
  <2>2. Uncounted' = Uncounted
    BY <1>2, <2>1, Created DEF Uncounted
  <2> QED BY <1>1, <2>1, <2>2 DEF Unprocessed, Forgotten
<1>3. ASSUME NEW c \in Clients, NEW s \in Stages, Advance(c, s),
             UNCHANGED <<pending, main, new_regs>>,
             c \in Uncounted <=> s \in {"pending", "addressed"}
      PROVE  Balanced'
  <2>1. Uncounted' = Uncounted
    BY <1>3, Advanced DEF Uncounted
  <2> QED BY <1>1, <1>3, <2>1 DEF Unprocessed, Forgotten
<1>4. ASSUME NEW c \in Clients, GetHandle(c) PROVE Balanced'
  <2>1. UNCHANGED <<pending, main, new_regs>>
    BY <1>4 DEF GetHandle, tables, sched
  <2>2. thread[c].pc = "started" /\ Uncounted' = Uncounted
    BY <1>4, Issued DEF Uncounted, GetHandle, At
  <2> QED BY <1>1, <2>1, <2>2 DEF Unprocessed, Forgotten
<1>5. ASSUME NEW c \in Clients, AddPending(c) PROVE Balanced'
  <2> DEFINE h == thread[c].handle
             e == [handle |-> h, client |-> c, status |-> "NOT_PROCESSED"]
  <2>1. /\ thread[c].pc = "handle" /\ thread'[c].pc = "pending"
        /\ \A d \in Clients \ {c} : thread'[d] = thread[d]
        /\ UNCHANGED <<main, new_regs>> /\ pending' = Insert(pending, h, e)
    BY <1>5, Advanced DEF AddPending, At, Stages, sched
  <2>2. h \notin DOMAIN pending /\ e.status = "NOT_PROCESSED"
    BY <1>a, <2>1 DEF EntryInv, Fresh
  <2> HIDE DEF e
  <2>3. /\ DOMAIN pending' = DOMAIN pending \cup {h} /\ pending'[h] = e
        /\ \A k \in DOMAIN pending : pending'[k] = pending[k]
    BY <2>1, <2>2 DEF Insert
  <2>4. Unprocessed' = Unprocessed \cup {h} /\ h \notin Unprocessed
    BY <2>2, <2>3 DEF Unprocessed
  <2>5. Uncounted' = Uncounted \cup {c} /\ c \notin Uncounted
    BY <2>1 DEF Uncounted
  <2>6. Cardinality(Unprocessed') = Cardinality(Unprocessed) + 1
    BY <2>4, CountedSets, FS_AddElement
  <2>7. Cardinality(Uncounted') = Cardinality(Uncounted) + 1
    BY <2>5, CountedSets, FS_AddElement
  <2>8. Forgotten' = Forgotten /\ new_regs' = new_regs
    BY <2>1 DEF Forgotten
  <2> QED BY <2>6, <2>7, <2>8, <1>a, CountedSets DEF Balanced
<1>6. ASSUME NEW c \in Clients, Increase(c) PROVE Balanced'
  <2>1. /\ thread[c].pc = "addressed" /\ thread'[c].pc = "counted"
        /\ \A d \in Clients \ {c} : thread'[d] = thread[d]
        /\ UNCHANGED <<main, pending>> /\ new_regs' = new_regs + 1
    BY <1>6, Advanced DEF Increase, At, Stages, sched
  <2>2. Uncounted' = Uncounted \ {c} /\ c \in Uncounted
    BY <2>1 DEF Uncounted
  <2>3. Cardinality(Uncounted') = Cardinality(Uncounted) - 1
    BY <2>2, CountedSets, FS_RemoveElement
  <2>4. Forgotten' = Forgotten /\ Unprocessed' = Unprocessed
    BY <2>1 DEF Forgotten, Unprocessed
  <2> QED BY <2>1, <2>3, <2>4, <1>a, CountedSets DEF Balanced
<1>7. ASSUME NEW c \in Clients, RemovePending(c) PROVE Balanced'
  <2> DEFINE h == thread[c].handle
  <2>1. /\ thread[c].pc = "answered" /\ thread'[c].pc = "removed"
        /\ \A d \in Clients \ {c} : thread'[d] = thread[d]
        /\ UNCHANGED <<new_regs, main>> /\ pending' = Erase(pending, h)
    BY <1>7, Advanced DEF RemovePending, At, Stages, sched
  <2>2. h \notin Unprocessed
    BY <1>a, <2>1 DEF DecisionInv
  <2>3. /\ DOMAIN pending' = DOMAIN pending \ {h}
        /\ \A k \in DOMAIN pending' : pending'[k] = pending[k]
    BY <2>1 DEF Erase
  <2>4. Unprocessed' = Unprocessed
    BY <2>2, <2>3 DEF Unprocessed
  <2>5. Uncounted' = Uncounted
    BY <2>1 DEF Uncounted
  <2> QED BY <1>1, <2>1, <2>4, <2>5 DEF Forgotten
<1>8. ASSUME NEW c \in Clients, Thread(c) PROVE Balanced'
  <2> USE DEF At, Stages, Uncounted
  <2>1. CASE TakeParameter(c)
    BY <1>3, <2>1 DEF TakeParameter, tables, sched
  <2>2. CASE AddAddress(c)
    BY <1>3, <2>2 DEF AddAddress, sched
  <2>3. CASE Decide(c)
    BY <1>3, <2>3 DEF Decide, tables, sched
  <2>4. ~WaitOnBlank(c)
    BY <1>a, BlankIsOvertaken
  <2>5. CASE Respond(c)
    BY <1>3, <2>5 DEF Respond, tables, sched
  <2>6. CASE SignalAcceptor(c)
    BY <1>3, <2>6 DEF SignalAcceptor, tables, sched
  <2>7. CASE ReadFails(c)
    BY <1>1, <2>7 DEF ReadFails, Dexit, tables, threads, sched, Unprocessed, Forgotten
  <2> QED BY <1>4, <1>5, <1>6, <1>7, <1>8, <2>1, <2>2, <2>3, <2>4, <2>5, <2>6, <2>7 DEF Thread
<1>9. CASE FinishRegistration
  <2> DEFINE h == main.handle
  <2>1. /\ UNCHANGED <<thread, new_regs>> /\ main.pc = "finish" /\ main'.pc = "decrease"
        /\ pending' = Assign(pending, h, Decided(h)) /\ h \in Nat
    BY <1>9 DEF FinishRegistration, threads, TypeOK
  <2>2. h \in Unprocessed /\ h \in DOMAIN pending
    BY <1>a, <2>1 DEF DecisionInv, Unprocessed
  <2>3. Decided(h).status = "SCHED_ACCEPTED"
    BY <2>1, DecidedType
  <2>4. /\ DOMAIN pending' = DOMAIN pending /\ pending'[h] = Decided(h)
        /\ \A k \in DOMAIN pending \ {h} : pending'[k] = pending[k]
    BY <2>1, <2>2 DEF Assign
  <2>5. Unprocessed' = Unprocessed \ {h}
    BY <2>3, <2>4 DEF Unprocessed
  <2>6. Cardinality(Unprocessed') = Cardinality(Unprocessed) - 1
    BY <2>2, <2>5, CountedSets, FS_RemoveElement
  <2>7. Forgotten = 0 /\ Forgotten' = 1 /\ Uncounted' = Uncounted
    BY <2>1 DEF Forgotten, Uncounted
  <2> QED BY <2>1, <2>6, <2>7, <1>a, CountedSets DEF Balanced
<1>10. CASE Decrease
  <2>1. /\ UNCHANGED <<thread, pending>> /\ main.pc = "decrease" /\ main'.pc = "poll"
        /\ new_regs' = new_regs - 1
    BY <1>10 DEF Decrease, threads
  <2>2. /\ Forgotten = 1 /\ Forgotten' = 0 /\ Uncounted' = Uncounted
        /\ Unprocessed' = Unprocessed
    BY <2>1 DEF Forgotten, Uncounted, Unprocessed
  <2> QED BY <2>1, <2>2, <1>a, CountedSets DEF Balanced
<1>11. CASE GetNewReg \/ AddJob \/ StartRemove \/ EndRemove
  <2>1. /\ UNCHANGED <<thread, pending, new_regs>>
        /\ main.pc # "decrease" /\ main'.pc # "decrease"
    BY <1>11 DEF GetNewReg, AddJob, StartRemove, EndRemove, threads, tables, TypeOK
  <2> QED BY <1>1, <2>1 DEF Uncounted, Unprocessed, Forgotten
<1>12. ASSUME UNCHANGED <<thread, pending, new_regs, main>> PROVE Balanced'
  BY <1>1, <1>12 DEF Uncounted, Unprocessed, Forgotten
<1>13. CASE Accept \/ Throttle \/ AddressFails \/ GetNewRegFails \/ AddJobFails
            \/ (\E h \in tokill_list : RemoveJob(h))
            \/ \E c \in Clients : Connect(c) \/ HandleFinished(c)
  BY <1>12, <1>13 DEF Accept, Throttle, AddressFails, GetNewRegFails, AddJobFails, RemoveJob,
     Connect, HandleFinished, Dexit, tables, threads, sched
<1> QED BY <1>2, <1>8, <1>9, <1>10, <1>11, <1>12, <1>13
        DEF Next, Acceptor, Main, vars, tables, threads, sched

--------------------------------------------------------------------------------
(* The theorems about entries, answers and handles.                          *)

LEMMA SafetyInit == Init => SafetyInv /\ NewRegsBalance
<1> SUFFICES ASSUME Init PROVE SafetyInv /\ NewRegsBalance
  OBVIOUS
<1>1. HasEntry = {} /\ Listed = {} /\ Fresh = {} /\ Unprocessed = {} /\ Uncounted = {}
  BY DEF Init, HasEntry, Listed, Fresh, Unprocessed, Uncounted
<1>2. EntryInv /\ DecisionInv /\ ClientInv
  BY <1>1 DEF Init, EntryInv, DecisionInv, ClientInv, AcceptedHasJob
<1>3. NewRegsBalance
  BY <1>1, FS_EmptySet DEF Init, NewRegsBalance, Uncounted
<1> QED BY <1>2, <1>3 DEF SafetyInv

LEMMA SafetyInvariant == Spec => [](TableInv /\ SafetyInv /\ NewRegsBalance)
<1>1. Init => TableInv /\ SafetyInv /\ NewRegsBalance
  BY TableInit, SafetyInit
<1>2. TableInv /\ SafetyInv /\ NewRegsBalance /\ [Next]_vars
        => (TableInv /\ SafetyInv /\ NewRegsBalance)'
  BY TableStep, EntryStep, DecisionStep, ClientStep, BalanceStep DEF SafetyInv
<1> QED BY <1>1, <1>2, PTL DEF Spec

\* While no handle was recycled under its entry, new_regs and the entries that
\* wait for the main thread agree at all times but for the threads that are not
\* counted yet and the job that is not discounted yet, whatever the order of the
\* critical sections in between.
THEOREM NewRegsCountsEntries == Spec => []NewRegsBalance
BY SafetyInvariant, PTL

\* add_job is never called for a job that exists, and the entry get_new_reg took
\* stays in the table, undecided, until add_job, unless its handle was recycled
\* under an entry or it is a blank one; without such a handle get_new_reg finds
\* an entry whenever new_regs is positive.
THEOREM SearchesSucceed == Spec => []TakenEntryIsPending
<1>1. ASSUME TableInv, SafetyInv, NewRegsBalance
      PROVE  TakenEntryIsPending
  <2>1. ASSUME overtaken = {}, main.pc = "poll", new_regs > 0 PROVE Unprocessed # {}
    <3>1. Forgotten = 0 /\ Balanced
      BY <1>1, <2>1, BalanceIs DEF Forgotten
    <3>2. Cardinality(Unprocessed) # 0
      BY <1>1, <2>1, <3>1, CountedSets DEF SafetyInv, Balanced
    <3> QED BY <3>2, FS_EmptySet
  <2>2. overtaken = {} /\ main.pc = "add" => main.handle # NoHandle
    BY <1>1 DEF SafetyInv, DecisionInv, TableInv, JobInv, Unprocessed
  <2> QED BY <1>1, <2>1, <2>2 DEF TakenEntryIsPending, SafetyInv, DecisionInv
<1> QED BY <1>1, SafetyInvariant, PTL

\* A client that is told ACCEPTED has its address under its handle until it has
\* finished, and an entity under that unless the handle was overtaken.
THEOREM AcceptedClientsHaveJobs == Spec => []AcceptedHasJob
<1>1. SafetyInv => AcceptedHasJob
  BY DEF SafetyInv, ClientInv
<1> QED BY <1>1, SafetyInvariant, PTL

\* Two clients hold the same handle only if it is overtaken and one of them is
\* finished and forgotten but for the thread that has its entry to remove.
THEOREM OnlyLeftoversShareHandles == Spec => []LeftoversShareHandles
<1> DEFINE Leftover(b) == /\ thread[b].handle \in overtaken
                          /\ thread[b].pc = "answered" /\ client[b] = "finished"
                          /\ b \notin DOMAIN addr_table
<1>1. ASSUME TableInv, SafetyInv, NEW c \in Clients, NEW d \in Clients, c # d,
             HoldsHandle(c), HoldsHandle(d), ~Leftover(c), ~Leftover(d)
      PROVE  thread[c].handle # thread[d].handle
  <2>1. ASSUME NEW b \in Clients, HoldsHandle(b), ~Leftover(b)
        PROVE  b \in Fresh \cup Unlisted \/ b \in DOMAIN addr_table
    <3>1. CASE b \in Listed \ DOMAIN addr_table
      BY <1>1, <2>1, <3>1 DEF SafetyInv, ClientInv, Listed, HasEntry, Unlisted
    <3>2. CASE b \notin Listed
      BY <2>1, <3>2 DEF HoldsHandle, Fresh, Unlisted, Listed, HasEntry
    <3> QED BY <3>1, <3>2
  <2>2. ASSUME NEW b \in DOMAIN addr_table
        PROVE  thread[b].handle \in DOMAIN reg_table /\ reg_table[thread[b].handle] = b
    BY <1>1, <2>2 DEF TableInv, TablesAgree, SafetyInv, ClientInv
  <2>3. \A b \in Fresh \cup Unlisted : thread[b].handle \notin DOMAIN reg_table
    BY <1>1 DEF TableInv, HandleInv, Owned
  <2>4. CASE c \in Fresh \cup Unlisted /\ d \in Fresh \cup Unlisted
    BY <1>1, <2>4 DEF TableInv, HandleInv
  <2> QED BY <1>1, <2>1, <2>2, <2>3, <2>4
<1>2. TableInv /\ SafetyInv => LeftoversShareHandles
  BY <1>1 DEF LeftoversShareHandles
<1> QED BY <1>2, SafetyInvariant, PTL
================================================================================
