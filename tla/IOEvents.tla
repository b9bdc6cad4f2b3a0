------------------------------ MODULE IOEvents ------------------------------
(***************************************************************************)
(* windgent/iomanager.{h,cc}: the table of FdContexts, their events and    *)
(* the epoll set, changed by addEvent, delEvent, cancelEvent, cancelAll    *)
(* and close() on any thread, and by IOManager::idle on the idle threads.  *)
(*                                                                         *)
(* A step is one critical section of IOManager::m_mutex (the lookup of the *)
(* FdContext, the resize of the table) or of FdContext::mutex (the rest of *)
(* the operation, with its epoll_ctl).  Contexts are named <<fd, n>>: the  *)
(* n-th FdContext that contextResize allocated for fd.                     *)
(***************************************************************************)
EXTENDS Integers, FiniteSets

CONSTANTS
    Fds,         \* file descriptors of sockets
    Clients,     \* threads that call the operations
    Owners,      \* those of them that add events and close descriptors
    Idlers,      \* threads in IOManager::idle
    InitSize,    \* contextResize(32) of the constructor
    MaxAllocs,   \* bound: contexts allocated for one fd
    UserOps,     \* operations the program uses
    Errors       \* may epoll report EPOLLERR or EPOLLHUP?

Ops == {"add", "del", "cancel", "cancelAll", "close"}

ASSUME FdsAssumption == Fds \subseteq Nat /\ IsFiniteSet(Fds)
ASSUME SizeAssumption == InitSize \in Nat \ {0, 1} /\ MaxAllocs \in Nat \ {0}
ASSUME OpsAssumption == /\ UserOps \subseteq Ops /\ Owners \subseteq Clients
                        /\ Errors \in BOOLEAN

Events == {"READ", "WRITE"}
Ctxs == Fds \X (1..MaxAllocs)

VARIABLES
    size,                \* m_fdContexts.size()
    allocs,              \* per fd: FdContexts allocated so far
    table,               \* per fd: which of them is in m_fdContexts (0: none)
    events,              \* per context: FdContext::events
    filled,              \* per context: events whose EventContext is set
    m_pendingEventCount,
    epoll,               \* per fd: the kernel's registration, or Unregistered
    call,                \* per client: the operation it is in
    batch,               \* per idler: what epoll_wait returned, not yet handled
    waiters,             \* <<fd, event>> of fibers that wait on an addEvent
    failed,              \* has an ASSERT failed?
    torn                 \* descriptors that close_f found with events (history)

tableVars == <<size, allocs, table>>
ctxVars == <<events, filled, m_pendingEventCount, epoll, waiters, failed>>
vars == <<size, allocs, table, events, filled, m_pendingEventCount, epoll, call,
          batch, waiters, failed, torn>>

Unregistered == [on |-> FALSE, mask |-> {}, ctx |-> <<0, 0>>]
Registered(mask, x) == [on |-> TRUE, mask |-> mask, ctx |-> x]
Registrations == {Unregistered} \cup [on : {TRUE}, mask : SUBSET Events, ctx : Ctxs]

CallAt(pc, op, fd, ev, x) == [pc |-> pc, op |-> op, fd |-> fd, ev |-> ev, ctx |-> x]
NoCall == CallAt("none", "add", 0, "READ", <<0, 0>>)
Calls == [pc : {"none", "resize", "have", "closing"}, op : Ops, fd : Fds \cup {0},
          ev : Events, ctx : Ctxs \cup {<<0, 0>>}]
Returned == [ctx : Ctxs, mask : SUBSET Events, err : BOOLEAN]

TypeOK ==
    /\ size \in Nat
    /\ allocs \in [Fds -> 0..MaxAllocs]
    /\ table \in [Fds -> 0..MaxAllocs]
    /\ events \in [Ctxs -> SUBSET Events]
    /\ filled \in [Ctxs -> SUBSET Events]
    /\ m_pendingEventCount \in Nat
    /\ epoll \in [Fds -> Registrations]
    /\ call \in [Clients -> Calls]
    /\ batch \in [Idlers -> SUBSET Returned]
    /\ waiters \subseteq Fds \X Events
    /\ failed \in BOOLEAN
    /\ torn \subseteq Fds

Init ==
    /\ size = InitSize
    /\ allocs = [fd \in Fds |-> IF fd < InitSize THEN 1 ELSE 0]
    /\ table = [fd \in Fds |-> IF fd < InitSize THEN 1 ELSE 0]
    /\ events = [x \in Ctxs |-> {}]
    /\ filled = [x \in Ctxs |-> {}]
    /\ m_pendingEventCount = 0
    /\ epoll = [fd \in Fds |-> Unregistered]
    /\ call = [c \in Clients |-> NoCall]
    /\ batch = [w \in Idlers |-> {}]
    /\ waiters = {}
    /\ failed = FALSE
    /\ torn = {}

-----------------------------------------------------------------------------
(* The table of contexts *)

\* May a program call this now?  It does not add an event that it is waiting
\* for, or adding, already; cancelAll and close take no event ("READ" here).
MayCall(c, op, fd, ev) ==
    /\ op \in UserOps
    /\ op \in {"add", "close"} => c \in Owners
    /\ op \in {"cancelAll", "close"} => ev = "READ"
    /\ op = "add" => /\ <<fd, ev>> \notin waiters
                     /\ \A d \in Clients : ~(/\ call[d].pc # "none" /\ call[d].op = "add"
                                             /\ call[d].fd = fd /\ call[d].ev = ev)

\* The lookup under the read lock.  A descriptor beyond the table makes addEvent
\* grow it, and the others return false (close() then goes on to close_f).
Lookup(c, op, fd, ev) ==
    /\ ~failed /\ call[c].pc = "none"
    /\ MayCall(c, op, fd, ev)
    /\ \/ /\ fd < size
          /\ call' = [call EXCEPT ![c] = CallAt("have", op, fd, ev, <<fd, table[fd]>>)]
       \/ /\ fd >= size /\ op \in {"add", "close"}
          /\ call' = [call EXCEPT ![c] =
                CallAt(IF op = "add" THEN "resize" ELSE "closing", op, fd, ev, <<0, 0>>)]
    /\ UNCHANGED <<tableVars, ctxVars, batch, torn>>

\* contextResize(n) under the write lock: it also shrinks.
TableAfter(n) == [fd \in Fds |-> IF fd >= n THEN 0
                                 ELSE IF table[fd] = 0 THEN allocs[fd] + 1 ELSE table[fd]]

\* addEvent: contextResize(fd * 1.5) without looking at the size again.
ContextResize(c) ==
    LET fd == call[c].fd
        n == (fd * 3) \div 2
    IN
    /\ ~failed /\ call[c].pc = "resize"
    /\ \A d \in Fds : TableAfter(n)[d] <= MaxAllocs
    /\ size' = n
    /\ table' = TableAfter(n)
    /\ allocs' = [d \in Fds |-> IF TableAfter(n)[d] > allocs[d] THEN TableAfter(n)[d]
                                ELSE allocs[d]]
    /\ call' = [call EXCEPT ![c] =
          CallAt("have", "add", fd, call[c].ev, <<fd, TableAfter(n)[fd]>>)]
    /\ UNCHANGED <<ctxVars, batch, torn>>

-----------------------------------------------------------------------------
(* The kernel's side, as far as epoll_ctl and close use it *)

\* epoll_ctl(op, fd): ADD fails on a registered fd, MOD and DEL on another.
CtlOk(op, fd) == epoll[fd].on = (op # "ADD")
CtlDo(op, fd, mask, x) ==
    epoll' = [epoll EXCEPT ![fd] = IF op = "DEL" THEN Unregistered ELSE Registered(mask, x)]

\* Mutant: the last event leaves an empty registration behind.
ModAlways(mask) == "MOD"

\* What becomes of a registration when these events are left.
ModOrDel(mask) == IF mask # {} THEN "MOD" ELSE "DEL"

-----------------------------------------------------------------------------
(* The operations, under FdContext::mutex *)

\* The client that holds context x for one of these operations returns.
InCall(c, op) == ~failed /\ call[c].pc = "have" /\ call[c].op = op
Done(c) == call' = [call EXCEPT ![c] = NoCall]

\* FdContext::triggerEvent for each of evs in turn; the first that is not
\* registered fails the assertion.
TriggerEvents(x, evs) ==
    /\ events' = [events EXCEPT ![x] = @ \ evs]
    /\ filled' = [filled EXCEPT ![x] = @ \ evs]
    /\ waiters' = waiters \ ({x[1]} \X (evs \cap events[x]))
    /\ failed' = ~(evs \subseteq events[x])
    /\ m_pendingEventCount' = m_pendingEventCount - Cardinality(evs \cap events[x])

\* addEvent
AddEvent(c) ==
    LET x == call[c].ctx
        ev == call[c].ev
        op == IF events[x] # {} THEN "MOD" ELSE "ADD"
    IN
    /\ InCall(c, "add")
    /\ Done(c)
    /\ IF ev \in events[x]
       THEN failed' = TRUE /\ UNCHANGED <<events, filled, m_pendingEventCount, epoll, waiters>>
       ELSE IF ~CtlOk(op, x[1])
       THEN UNCHANGED ctxVars
       ELSE /\ CtlDo(op, x[1], events[x] \cup {ev}, x)
            /\ m_pendingEventCount' = m_pendingEventCount + 1
            /\ events' = [events EXCEPT ![x] = @ \cup {ev}]
            /\ failed' = (ev \in filled[x])
            /\ filled' = [filled EXCEPT ![x] = @ \cup {ev}]
            /\ waiters' = waiters \cup {<<x[1], ev>>}
    /\ UNCHANGED <<tableVars, batch, torn>>

\* Mutant: delEvent without --m_pendingEventCount.
DelEventUncounted(c) ==
    LET x == call[c].ctx
        ev == call[c].ev
        new_event == events[x] \ {ev}
    IN
    /\ InCall(c, "del")
    /\ Done(c)
    /\ ev \in events[x] /\ CtlOk(ModOrDel(new_event), x[1])
    /\ CtlDo(ModOrDel(new_event), x[1], new_event, x)
    /\ events' = [events EXCEPT ![x] = new_event]
    /\ filled' = [filled EXCEPT ![x] = @ \ {ev}]
    /\ waiters' = waiters \ {<<x[1], ev>>}
    /\ UNCHANGED <<tableVars, m_pendingEventCount, batch, failed, torn>>

\* delEvent: the event is forgotten, its fiber is not resumed.
DelEvent(c) ==
    LET x == call[c].ctx
        ev == call[c].ev
        new_event == events[x] \ {ev}
    IN
    /\ InCall(c, "del")
    /\ Done(c)
    /\ IF ev \notin events[x] \/ ~CtlOk(ModOrDel(new_event), x[1])
       THEN UNCHANGED ctxVars
       ELSE /\ CtlDo(ModOrDel(new_event), x[1], new_event, x)
            /\ m_pendingEventCount' = m_pendingEventCount - 1
            /\ events' = [events EXCEPT ![x] = new_event]
            /\ filled' = [filled EXCEPT ![x] = @ \ {ev}]
            /\ waiters' = waiters \ {<<x[1], ev>>}
            /\ UNCHANGED failed
    /\ UNCHANGED <<tableVars, batch, torn>>

\* cancelEvent: the event is triggered by force.
CancelEvent(c) ==
    LET x == call[c].ctx
        ev == call[c].ev
        new_event == events[x] \ {ev}
    IN
    /\ InCall(c, "cancel")
    /\ Done(c)
    /\ IF ev \notin events[x] \/ ~CtlOk(ModOrDel(new_event), x[1])
       THEN UNCHANGED ctxVars
       ELSE /\ CtlDo(ModOrDel(new_event), x[1], new_event, x)
            /\ TriggerEvents(x, {ev})
    /\ UNCHANGED <<tableVars, batch, torn>>

\* cancelAll, on its own or as the first part of close().
CancelAll(c) ==
    LET x == call[c].ctx IN
    /\ InCall(c, "cancelAll") \/ InCall(c, "close")
    /\ IF call[c].op = "close"
       THEN call' = [call EXCEPT ![c] = CallAt("closing", "close", call[c].fd, call[c].ev, x)]
       ELSE Done(c)
    /\ IF events[x] = {} \/ ~CtlOk("DEL", x[1])
       THEN UNCHANGED ctxVars
       ELSE /\ CtlDo("DEL", x[1], {}, x)
            /\ TriggerEvents(x, events[x])
    /\ UNCHANGED <<tableVars, batch, torn>>

\* close(): close_f; the kernel drops the registration, and may give the same
\* number to the next socket.  Events that were added behind cancelAll, or that
\* its lookup did not find, stay in their context.
CloseFd(c) ==
    LET fd == call[c].fd IN
    /\ ~failed /\ call[c].pc = "closing"
    /\ Done(c)
    /\ epoll' = [epoll EXCEPT ![fd] = Unregistered]
    /\ torn' = IF \E x \in Ctxs : x[1] = fd /\ events[x] # {} THEN torn \cup {fd} ELSE torn
    /\ UNCHANGED <<tableVars, events, filled, m_pendingEventCount, batch, waiters, failed>>

-----------------------------------------------------------------------------
(* IOManager::idle *)

\* epoll_wait returns one entry per ready descriptor: some registered events,
\* or an error, which epoll reports unasked.
EpollWait(w, ready) ==
    /\ ~failed /\ batch[w] = {}
    /\ ready # {}
    /\ \A fd \in ready : epoll[fd].on
    /\ \E mask \in [ready -> SUBSET Events], err \in [ready -> {FALSE, Errors}] :
          /\ \A fd \in ready : /\ mask[fd] \subseteq epoll[fd].mask
                               /\ mask[fd] # {} \/ err[fd]
          /\ batch' = [batch EXCEPT ![w] =
                {[ctx |-> epoll[fd].ctx, mask |-> mask[fd], err |-> err[fd]] : fd \in ready}]
    /\ UNCHANGED <<tableVars, ctxVars, call, torn>>

\* real_event of an entry: an error counts as both events.
RealEvent(e) == IF e.err THEN Events ELSE e.mask

\* idle: one turn of the loop over the returned entries.
Dispatch(w, e) ==
    LET x == e.ctx
        left_events == events[x] \ RealEvent(e)
    IN
    /\ ~failed /\ e \in batch[w]
    /\ batch' = [batch EXCEPT ![w] = @ \ {e}]
    /\ IF events[x] \cap RealEvent(e) = {} \/ ~CtlOk(ModOrDel(left_events), x[1])
       THEN UNCHANGED ctxVars
       ELSE /\ CtlDo(ModOrDel(left_events), x[1], left_events, x)
            /\ TriggerEvents(x, RealEvent(e))
    /\ UNCHANGED <<tableVars, call, torn>>

-----------------------------------------------------------------------------
ClientStep(c) ==
    \/ \E op \in UserOps, fd \in Fds, ev \in Events : Lookup(c, op, fd, ev)
    \/ ContextResize(c)
    \/ AddEvent(c)
    \/ DelEvent(c)
    \/ CancelEvent(c)
    \/ CancelAll(c)
    \/ CloseFd(c)

IdlerStep(w) ==
    \/ \E ready \in SUBSET Fds : EpollWait(w, ready)
    \/ \E e \in batch[w] : Dispatch(w, e)

Next ==
    \/ \E c \in Clients : ClientStep(c)
    \/ \E w \in Idlers : IdlerStep(w)

Spec == Init /\ [][Next]_vars

-----------------------------------------------------------------------------
(* Properties *)

\* Every registered event of every context.
Pending == {p \in Ctxs \X Events : p[2] \in events[p[1]]}

\* IOManager::stopping trusts m_pendingEventCount: it is the number of events
\* registered in contexts, whichever path took them out.
PendingExact == m_pendingEventCount = Cardinality(Pending)

\* An EventContext is set exactly for the registered events, so that the next
\* addEvent finds it empty and a trigger finds a fiber.
FilledIffRegistered == filled = events

\* The kernel waits for exactly the events of the context it points to, and
\* does not know a descriptor without events (the next addEvent is an ADD).
EpollMatches ==
    /\ \A x \in Ctxs :
          events[x] # {} /\ x[1] \notin torn => epoll[x[1]] = Registered(events[x], x)
    /\ \A fd \in Fds \ torn : epoll[fd].on => events[epoll[fd].ctx] # {}

\* addEvent, delEvent, cancelEvent, cancelAll, close and idle() keep an event in
\* three places, and give up half way when epoll_ctl fails: the three agree, but for
\* a descriptor that was closed while it had events.
EventsAgree == FilledIffRegistered /\ EpollMatches

\* A fiber that waits in addEvent can be found again: cancelEvent, close and
\* the timeout of a socket call look its context up in the table (which a
\* second thread past the size test of addEvent replaces by a smaller one).
WaiterIsReachable ==
    \A p \in waiters : /\ p[1] < size
                       /\ p[2] \in events[<<p[1], table[p[1]]>>]

\* No ASSERT of addEvent and triggerEvent fails; idle() turns an error into both
\* events, and triggers them without looking which of them are registered.
NoAssertionFails == ~failed
=============================================================================
