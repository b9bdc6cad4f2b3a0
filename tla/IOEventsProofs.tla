--------------------------- MODULE IOEventsProofs ---------------------------
(***************************************************************************)
(* Proofs about IOEvents, for any descriptors, clients, idle threads and   *)
(* operations.  The count of pending events and the EventContexts are      *)
(* right whatever the threads do; contexts and kernel agree but for a      *)
(* descriptor that is closed while it has events.                          *)
(***************************************************************************)
EXTENDS IOEvents, FiniteSetTheorems, TLAPS

\* Types, with a count that might be negative.
TypeInt ==
    /\ size \in Nat
    /\ allocs \in [Fds -> 0..MaxAllocs]
    /\ table \in [Fds -> 0..MaxAllocs]
    /\ events \in [Ctxs -> SUBSET Events]
    /\ filled \in [Ctxs -> SUBSET Events]
    /\ m_pendingEventCount \in Int
    /\ epoll \in [Fds -> Registrations]
    /\ call \in [Clients -> Calls]
    /\ batch \in [Idlers -> SUBSET Returned]
    /\ waiters \subseteq Fds \X Events
    /\ torn \subseteq Fds

\* The table never becomes smaller than two, and has a context for every
\* descriptor below its size.
TableFull == size >= 2 /\ \A fd \in Fds : fd < size => table[fd] # 0

\* An operation that has looked its context up has one, of its descriptor; only
\* addEvent grows the table, and never for a descriptor that would not fit.
CallSound(c) ==
    /\ call[c].pc # "none" => call[c].fd \in Fds
    /\ call[c].pc = "have" => call[c].ctx \in Ctxs /\ call[c].ctx[1] = call[c].fd
    /\ call[c].pc = "resize" => call[c].op = "add" /\ call[c].fd >= 2
    /\ call[c].pc = "closing" => call[c].op = "close"
    /\ call[c].pc # "none" => call[c].op \in UserOps
CallsSound == \A c \in Clients : CallSound(c)

\* What holds whatever the threads do.
SharedInv == TypeInt /\ TableFull /\ CallsSound

-----------------------------------------------------------------------------
(* What a step may do to events, contexts and registrations *)

\* addEvent by client c
Adds(c, x, ev) ==
    /\ call[c].pc = "have" /\ call[c].op = "add" /\ call[c].ctx = x
    /\ call' = [call EXCEPT ![c] = NoCall] /\ UNCHANGED tableVars
    /\ ev \in Events \ events[x]
    /\ epoll[x[1]].on = (events[x] # {})
    /\ epoll' = [epoll EXCEPT ![x[1]] = Registered(events[x] \cup {ev}, x)]
    /\ events' = [events EXCEPT ![x] = @ \cup {ev}]
    /\ filled' = [filled EXCEPT ![x] = @ \cup {ev}]
    /\ waiters' = waiters \cup {<<x[1], ev>>}
    /\ m_pendingEventCount' = m_pendingEventCount + 1
    /\ UNCHANGED torn

\* Some of the events evs of a context are taken out of it.
Takes(x, evs) ==
    LET left == events[x] \ evs IN
    /\ evs \subseteq Events /\ evs \cap events[x] # {}
    /\ UNCHANGED tableVars
    /\ epoll' = [epoll EXCEPT ![x[1]] = IF left = {} THEN Unregistered
                                        ELSE Registered(left, x)]
    /\ events' = [events EXCEPT ![x] = left]
    /\ filled' = [filled EXCEPT ![x] = @ \ evs]
    /\ waiters' = waiters \ ({x[1]} \X (evs \cap events[x]))
    /\ m_pendingEventCount' = m_pendingEventCount - Cardinality(evs \cap events[x])
    /\ UNCHANGED torn

\* close_f by client c
Closes(c) ==
    /\ call[c].pc = "closing"
    /\ call' = [call EXCEPT ![c] = NoCall] /\ UNCHANGED tableVars
    /\ epoll' = [epoll EXCEPT ![call[c].fd] = Unregistered]
    /\ torn' = IF \E x \in Ctxs : x[1] = call[c].fd /\ events[x] # {}
               THEN torn \cup {call[c].fd} ELSE torn
    /\ UNCHANGED <<events, filled, waiters, m_pendingEventCount>>

\* Contexts and registrations stay as they are.
Quiet == UNCHANGED <<events, filled, waiters, m_pendingEventCount, epoll, torn>>

\* The kinds of steps, as far as contexts and registrations are concerned.
Effect ==
    \/ Quiet
    \/ \E c \in Clients, x \in Ctxs, ev \in Events : Adds(c, x, ev)
    \/ \E x \in Ctxs, evs \in SUBSET Events : Takes(x, evs)
    \/ \E c \in Clients : Closes(c)

\* Every step is of one of these kinds.
LEMMA StepEffect == ASSUME SharedInv, Next PROVE Effect
  <1> USE DEF SharedInv, CallsSound, CallSound
  <1>0. ASSUME NEW c \in Clients, call[c].pc = "have"
        PROVE  /\ call[c].ctx \in Ctxs /\ events[call[c].ctx] \subseteq Events
               /\ call[c].ev \in Events
    <2>1. call[c].ctx \in Ctxs
      BY <1>0
    <2>2. call[c] \in Calls
      BY DEF TypeInt
    <2> QED
      BY <2>1, <2>2 DEF TypeInt, Calls
  <1>1. ASSUME NEW c \in Clients, NEW op \in UserOps, NEW fd \in Fds, NEW ev \in Events,
               Lookup(c, op, fd, ev)
        PROVE  Quiet
    BY <1>1 DEF Lookup, Quiet, ctxVars
  <1>2. ASSUME NEW c \in Clients, ContextResize(c) PROVE Quiet
    BY <1>2 DEF ContextResize, Quiet, ctxVars
  <1>3. ASSUME NEW c \in Clients, AddEvent(c) PROVE Effect
    <2> DEFINE x == call[c].ctx
               ev == call[c].ev
               op == IF events[x] # {} THEN "MOD" ELSE "ADD"
    <2>1. call[c].pc = "have" /\ call[c].op = "add"
      BY <1>3 DEF AddEvent, InCall
    <2>2. CASE ev \in events[x] \/ ~CtlOk(op, x[1])
      BY <1>3, <2>2 DEF AddEvent, Effect, Quiet, ctxVars
    <2>3. CASE ~(ev \in events[x] \/ ~CtlOk(op, x[1]))
      <3>1. /\ CtlDo(op, x[1], events[x] \cup {ev}, x)
            /\ m_pendingEventCount' = m_pendingEventCount + 1
            /\ events' = [events EXCEPT ![x] = @ \cup {ev}]
            /\ filled' = [filled EXCEPT ![x] = @ \cup {ev}]
            /\ waiters' = waiters \cup {<<x[1], ev>>}
            /\ call' = [call EXCEPT ![c] = NoCall]
            /\ UNCHANGED <<tableVars, torn>>
        BY <1>3, <2>3 DEF AddEvent, Done
      <3>2. epoll' = [epoll EXCEPT ![x[1]] = Registered(events[x] \cup {ev}, x)]
        BY <3>1 DEF CtlDo
      <3>3. epoll[x[1]].on = (events[x] # {})
        BY <2>3 DEF CtlOk
      <3>4. Adds(c, x, ev)
        BY <1>0, <2>1, <2>3, <3>1, <3>2, <3>3 DEF Adds
      <3> QED
        BY <1>0, <2>1, <3>4 DEF Effect
    <2> QED
      BY <2>2, <2>3
  <1>4. ASSUME NEW x \in Ctxs, NEW evs \in SUBSET Events, evs \cap events[x] # {},
               CtlDo(ModOrDel(events[x] \ evs), x[1], events[x] \ evs, x),
               TriggerEvents(x, evs), UNCHANGED <<tableVars, torn>>
        PROVE  Effect
    <2>1. epoll' = [epoll EXCEPT ![x[1]] = IF events[x] \ evs = {} THEN Unregistered
                                           ELSE Registered(events[x] \ evs, x)]
      BY <1>4 DEF CtlDo, ModOrDel
    <2>2. Takes(x, evs)
      BY <1>4, <2>1 DEF Takes, TriggerEvents
    <2> QED
      BY <2>2 DEF Effect
  <1>5. ASSUME NEW c \in Clients, DelEvent(c) PROVE Effect
    <2> DEFINE x == call[c].ctx
               ev == call[c].ev
               left == events[x] \ {ev}
    <2>1. call[c].pc = "have"
      BY <1>5 DEF DelEvent, InCall
    <2>2. CASE ev \notin events[x] \/ ~CtlOk(ModOrDel(left), x[1])
      BY <1>5, <2>2 DEF DelEvent, Effect, Quiet, ctxVars
    <2>3. CASE ~(ev \notin events[x] \/ ~CtlOk(ModOrDel(left), x[1]))
      <3>1. /\ CtlDo(ModOrDel(left), x[1], left, x)
            /\ m_pendingEventCount' = m_pendingEventCount - 1
            /\ events' = [events EXCEPT ![x] = left]
            /\ filled' = [filled EXCEPT ![x] = @ \ {ev}]
            /\ waiters' = waiters \ {<<x[1], ev>>}
            /\ UNCHANGED <<tableVars, torn>>
        BY <1>5, <2>3 DEF DelEvent
      <3>2. {ev} \cap events[x] = {ev} /\ {x[1]} \X {ev} = {<<x[1], ev>>}
        BY <2>3
      <3>3. Cardinality({ev}) = 1
        BY FS_Singleton
      <3>4. epoll' = [epoll EXCEPT ![x[1]] = IF left = {} THEN Unregistered
                                             ELSE Registered(left, x)]
        BY <3>1 DEF CtlDo, ModOrDel
      <3>5. Takes(x, {ev})
        BY <1>0, <2>1, <3>1, <3>2, <3>3, <3>4 DEF Takes
      <3> QED
        BY <1>0, <2>1, <3>5 DEF Effect
    <2> QED
      BY <2>2, <2>3
  <1>6. ASSUME NEW c \in Clients, CancelEvent(c) PROVE Effect
    <2> DEFINE x == call[c].ctx
               ev == call[c].ev
               left == events[x] \ {ev}
    <2>1. call[c].pc = "have"
      BY <1>6 DEF CancelEvent, InCall
    <2>2. CASE ev \notin events[x] \/ ~CtlOk(ModOrDel(left), x[1])
      BY <1>6, <2>2 DEF CancelEvent, Effect, Quiet, ctxVars
    <2>3. CASE ~(ev \notin events[x] \/ ~CtlOk(ModOrDel(left), x[1]))
      <3>1. /\ CtlDo(ModOrDel(left), x[1], left, x)
            /\ TriggerEvents(x, {ev})
            /\ UNCHANGED <<tableVars, torn>>
        BY <1>6, <2>3 DEF CancelEvent
      <3>2. {ev} \cap events[x] # {}
        BY <2>3
      <3> QED
        BY <1>0, <2>1, <3>1, <3>2, <1>4
    <2> QED
      BY <2>2, <2>3
  <1>7. ASSUME NEW c \in Clients, CancelAll(c) PROVE Effect
    <2> DEFINE x == call[c].ctx
    <2>1. call[c].pc = "have"
      BY <1>7 DEF CancelAll, InCall
    <2>2. CASE events[x] = {} \/ ~CtlOk("DEL", x[1])
      BY <1>7, <2>2 DEF CancelAll, Effect, Quiet, ctxVars
    <2>3. CASE ~(events[x] = {} \/ ~CtlOk("DEL", x[1]))
      <3>1. /\ CtlDo("DEL", x[1], {}, x)
            /\ TriggerEvents(x, events[x])
            /\ UNCHANGED <<tableVars, torn>>
        BY <1>7, <2>3 DEF CancelAll
      <3>2. CtlDo(ModOrDel(events[x] \ events[x]), x[1], events[x] \ events[x], x)
        BY <3>1 DEF CtlDo, ModOrDel
      <3> QED
        BY <1>0, <2>1, <2>3, <3>1, <3>2, <1>4
    <2> QED
      BY <2>2, <2>3
  <1>8. ASSUME NEW c \in Clients, CloseFd(c) PROVE Effect
    BY <1>8 DEF CloseFd, Done, Closes, Effect
  <1>9. ASSUME NEW w \in Idlers, NEW ready \in SUBSET Fds, EpollWait(w, ready)
        PROVE  Quiet
    BY <1>9 DEF EpollWait, Quiet, ctxVars
  <1>10. ASSUME NEW w \in Idlers, NEW e \in batch[w], Dispatch(w, e) PROVE Effect
    <2> DEFINE x == e.ctx
               evs == RealEvent(e)
    <2>1. e \in Returned
      BY DEF TypeInt
    <2>2. x \in Ctxs /\ evs \in SUBSET Events
      BY <2>1 DEF Returned, RealEvent
    <2>3. CASE events[x] \cap evs = {} \/ ~CtlOk(ModOrDel(events[x] \ evs), x[1])
      BY <1>10, <2>3 DEF Dispatch, Effect, Quiet, ctxVars
    <2>4. CASE ~(events[x] \cap evs = {} \/ ~CtlOk(ModOrDel(events[x] \ evs), x[1]))
      <3>1. /\ CtlDo(ModOrDel(events[x] \ evs), x[1], events[x] \ evs, x)
            /\ TriggerEvents(x, evs) /\ UNCHANGED <<tableVars, torn>>
        BY <1>10, <2>4 DEF Dispatch
      <3> QED
        BY <2>2, <2>4, <3>1, <1>4
    <2> QED
      BY <2>3, <2>4
  <1> QED
    BY <1>1, <1>2, <1>3, <1>5, <1>6, <1>7, <1>8, <1>9, <1>10
    DEF Next, ClientStep, IdlerStep, Effect
-----------------------------------------------------------------------------
(* The invariant of every program *)

\* contextResize(fd * 1.5) makes room for fd.
LEMMA Grows == \A fd \in Nat : fd >= 2 => (fd * 3) \div 2 \in Nat /\ (fd * 3) \div 2 > fd
  OBVIOUS

\* Records of the model are of their types.
LEMMA RecordTypes ==
    /\ Unregistered \in Registrations
    /\ \A mask \in SUBSET Events, x \in Ctxs : Registered(mask, x) \in Registrations
    /\ NoCall \in Calls
    /\ \A pc \in {"none", "resize", "have", "closing"}, op \in Ops, fd \in Fds,
          ev \in Events, x \in Ctxs \cup {<<0, 0>>} : CallAt(pc, op, fd, ev, x) \in Calls
  BY DEF Unregistered, Registered, Registrations, NoCall, CallAt, Calls, Ops, Events

\* A registered descriptor is not Unregistered.
LEMMA OffIsOff == \A e : e.on => e # Unregistered
  <1>1. ~Unregistered.on
    BY DEF Unregistered
  <1> QED
    BY <1>1, Zenon

LEMMA InitShared == Init => SharedInv
  <1> SUFFICES ASSUME Init PROVE SharedInv
    OBVIOUS
  <1>1. TypeInt
    BY RecordTypes, FdsAssumption, SizeAssumption DEF Init, TypeInt
  <1>2. TableFull
    BY FdsAssumption, SizeAssumption DEF Init, TableFull
  <1>3. CallsSound
    BY DEF Init, CallsSound, CallSound, NoCall, CallAt
  <1> QED
    BY <1>1, <1>2, <1>3 DEF SharedInv

\* Contexts, registrations and waiting fibers keep their types.
LEMMA EffectType ==
    ASSUME SharedInv, Effect
    PROVE  /\ events' \in [Ctxs -> SUBSET Events]
           /\ filled' \in [Ctxs -> SUBSET Events]
           /\ m_pendingEventCount' \in Int
           /\ epoll' \in [Fds -> Registrations]
           /\ waiters' \subseteq Fds \X Events /\ torn' \subseteq Fds
  <1> USE DEF SharedInv, TypeInt
  <1>0. \A x \in Ctxs : x[1] \in Fds
    BY DEF Ctxs
  <1>1. CASE Quiet
    BY <1>1 DEF Quiet
  <1>2. ASSUME NEW c \in Clients, NEW x \in Ctxs, NEW ev \in Events, Adds(c, x, ev)
        PROVE  /\ events' \in [Ctxs -> SUBSET Events]
               /\ filled' \in [Ctxs -> SUBSET Events]
               /\ m_pendingEventCount' \in Int
               /\ epoll' \in [Fds -> Registrations]
               /\ waiters' \subseteq Fds \X Events /\ torn' \subseteq Fds
    <2>1. Registered(events[x] \cup {ev}, x) \in Registrations
      BY RecordTypes
    <2> QED
      BY <1>0, <1>2, <2>1 DEF Adds
  <1>3. ASSUME NEW x \in Ctxs, NEW evs \in SUBSET Events, Takes(x, evs)
        PROVE  /\ events' \in [Ctxs -> SUBSET Events]
               /\ filled' \in [Ctxs -> SUBSET Events]
               /\ m_pendingEventCount' \in Int
               /\ epoll' \in [Fds -> Registrations]
               /\ waiters' \subseteq Fds \X Events /\ torn' \subseteq Fds
    <2>1. /\ Registered(events[x] \ evs, x) \in Registrations
          /\ Unregistered \in Registrations
      BY RecordTypes
    <2>2. IsFiniteSet(Events)
      <3>1. Events = {"READ"} \cup {"WRITE"}
        BY DEF Events
      <3> QED
        BY <3>1, FS_Singleton, FS_AddElement
    <2>3. Cardinality(evs \cap events[x]) \in Int
      BY <2>2, FS_Subset, FS_CardinalityType
    <2> QED
      BY <1>0, <1>3, <2>1, <2>3 DEF Takes
  <1>4. ASSUME NEW c \in Clients, Closes(c)
        PROVE  /\ events' \in [Ctxs -> SUBSET Events]
               /\ filled' \in [Ctxs -> SUBSET Events]
               /\ m_pendingEventCount' \in Int
               /\ epoll' \in [Fds -> Registrations]
               /\ waiters' \subseteq Fds \X Events /\ torn' \subseteq Fds
    <2>1. call[c].fd \in Fds
      BY <1>4 DEF Closes, CallsSound, CallSound
    <2> QED
      BY <1>4, <2>1, RecordTypes DEF Closes
  <1> QED
    BY <1>1, <1>2, <1>3, <1>4 DEF Effect

\* What contextResize does to the table.
LEMMA ResizeTable ==
    ASSUME SharedInv, NEW c \in Clients, ContextResize(c)
    PROVE  /\ size' \in Nat /\ size' > call[c].fd /\ size' >= 2
           /\ table' \in [Fds -> 0..MaxAllocs] /\ allocs' \in [Fds -> 0..MaxAllocs]
           /\ \A fd \in Fds : fd < size' => table'[fd] # 0
           /\ \A fd \in Fds : fd < size' /\ table[fd] # 0 => table'[fd] = table[fd]
           /\ \A fd \in Fds : fd < size' /\ table[fd] = 0 => table'[fd] = allocs[fd] + 1
           /\ \A fd \in Fds : allocs'[fd] = IF table'[fd] > allocs[fd] THEN table'[fd]
                                            ELSE allocs[fd]
           /\ \A fd \in Fds : fd >= size' => table'[fd] = 0
           /\ call' = [call EXCEPT ![c] =
                 CallAt("have", "add", call[c].fd, call[c].ev,
                        <<call[c].fd, table'[call[c].fd]>>)]
  <1> DEFINE n == (call[c].fd * 3) \div 2
  <1>1. call[c].fd \in Fds /\ call[c].fd >= 2 /\ call[c].fd \in Nat
    BY FdsAssumption DEF SharedInv, CallsSound, CallSound, ContextResize
  <1>2. n \in Nat /\ n > call[c].fd
    BY <1>1, Grows
  <1>3. size' = n /\ table' = TableAfter(n)
    BY DEF ContextResize
  <1>4. \A fd \in Fds : table'[fd] = IF fd >= n THEN 0
                                     ELSE IF table[fd] = 0 THEN allocs[fd] + 1 ELSE table[fd]
    BY <1>3 DEF TableAfter
  <1>5. \A fd \in Fds : /\ table[fd] \in 0..MaxAllocs /\ allocs[fd] \in 0..MaxAllocs
                        /\ fd \in Nat
    BY FdsAssumption DEF SharedInv, TypeInt
  <1>6. \A fd \in Fds : table'[fd] <= MaxAllocs /\ table'[fd] \in Nat
    <2>1. \A fd \in Fds : table'[fd] <= MaxAllocs
      BY <1>3 DEF ContextResize
    <2> QED
      BY <2>1, <1>4, <1>5
  <1>7. table' \in [Fds -> 0..MaxAllocs]
    <2>1. DOMAIN table' = Fds /\ table' = [fd \in Fds |-> table'[fd]]
      BY <1>3 DEF TableAfter
    <2> QED
      BY <2>1, <1>6, SizeAssumption
  <1>8. allocs' = [fd \in Fds |-> IF table'[fd] > allocs[fd] THEN table'[fd] ELSE allocs[fd]]
    BY <1>3 DEF ContextResize
  <1>9. allocs' \in [Fds -> 0..MaxAllocs]
    BY <1>5, <1>7, <1>8
  <1>10. call' = [call EXCEPT ![c] = CallAt("have", "add", call[c].fd, call[c].ev,
                                            <<call[c].fd, table'[call[c].fd]>>)]
    BY <1>3 DEF ContextResize
  <1>11. /\ \A fd \in Fds : fd < size' => table'[fd] # 0
         /\ \A fd \in Fds : fd < size' /\ table[fd] # 0 => table'[fd] = table[fd]
         /\ \A fd \in Fds : fd < size' /\ table[fd] = 0 => table'[fd] = allocs[fd] + 1
         /\ \A fd \in Fds : fd >= size' => table'[fd] = 0
    <2> HIDE DEF n
    <2> QED
      BY <1>2, <1>3, <1>4, <1>5
  <1>12. size' \in Nat /\ size' > call[c].fd /\ size' >= 2
    BY <1>1, <1>2, <1>3
  <1> HIDE DEF n
  <1>13. \A fd \in Fds : allocs'[fd] = IF table'[fd] > allocs[fd] THEN table'[fd] ELSE allocs[fd]
    BY <1>8, Zenon
  <1> QED
    BY <1>7, <1>9, <1>10, <1>11, <1>12, <1>13

\* The operations and the table.
LEMMA CallsStep ==
    ASSUME SharedInv, Next
    PROVE  /\ call' \in [Clients -> Calls] /\ batch' \in [Idlers -> SUBSET Returned]
           /\ size' \in Nat /\ table' \in [Fds -> 0..MaxAllocs]
           /\ allocs' \in [Fds -> 0..MaxAllocs]
           /\ TableFull' /\ CallsSound'
  <1> DEFINE Goal == /\ call' \in [Clients -> Calls] /\ batch' \in [Idlers -> SUBSET Returned]
                     /\ size' \in Nat /\ table' \in [Fds -> 0..MaxAllocs]
                     /\ allocs' \in [Fds -> 0..MaxAllocs]
                     /\ TableFull' /\ CallsSound'
  <1> USE DEF SharedInv, TypeInt
  <1>1. ASSUME NEW c \in Clients, NEW new \in Calls, call' = [call EXCEPT ![c] = new],
               \/ new = NoCall
               \/ /\ new.fd \in Fds
                  /\ new.pc = "have" => new.ctx \in Ctxs /\ new.ctx[1] = new.fd
                  /\ new.pc = "resize" => new.op = "add" /\ new.fd >= 2
                  /\ new.pc = "closing" => new.op = "close"
                  /\ new.op \in UserOps
        PROVE  call' \in [Clients -> Calls] /\ CallsSound'
    <2>1. ASSUME NEW d \in Clients PROVE CallSound(d)'
      <3>1. CASE d # c
        BY <1>1, <3>1 DEF CallsSound, CallSound
      <3>2. CASE d = c
        BY <1>1, <3>2 DEF CallSound, NoCall, CallAt
      <3> QED
        BY <3>1, <3>2
    <2> QED
      BY <1>1, <2>1 DEF CallsSound
  <1>2. UNCHANGED <<tableVars>> => size' \in Nat /\ table' \in [Fds -> 0..MaxAllocs]
                                   /\ allocs' \in [Fds -> 0..MaxAllocs] /\ TableFull'
    BY DEF tableVars, TableFull
  <1>3. ASSUME NEW c \in Clients, NEW op \in UserOps, NEW fd \in Fds, NEW ev \in Events,
               Lookup(c, op, fd, ev)
        PROVE  Goal
    <2>1. UNCHANGED <<tableVars, batch>>
      BY <1>3 DEF Lookup
    <2>2. op \in Ops
      BY OpsAssumption
    <2>3. CASE fd < size /\ call' = [call EXCEPT ![c] = CallAt("have", op, fd, ev, <<fd, table[fd]>>)]
      <3>1. table[fd] \in 1..MaxAllocs
        BY <2>3 DEF TableFull
      <3>2. <<fd, table[fd]>> \in Ctxs
        BY <3>1 DEF Ctxs
      <3>3. CallAt("have", op, fd, ev, <<fd, table[fd]>>) \in Calls
        BY <2>2, <3>2, RecordTypes
      <3> QED
        BY <1>1, <1>2, <2>1, <2>2, <2>3, <3>2, <3>3 DEF CallAt
    <2>4. CASE /\ fd >= size /\ op \in {"add", "close"}
               /\ call' = [call EXCEPT ![c] = CallAt(IF op = "add" THEN "resize" ELSE "closing",
                                                     op, fd, ev, <<0, 0>>)]
      <3>1. fd >= 2
        BY <2>4, FdsAssumption DEF TableFull
      <3>2. CallAt(IF op = "add" THEN "resize" ELSE "closing", op, fd, ev, <<0, 0>>) \in Calls
        BY <2>2, RecordTypes
      <3> QED
        BY <1>1, <1>2, <2>1, <2>2, <2>4, <3>1, <3>2 DEF CallAt
    <2> QED
      BY <1>3, <2>3, <2>4 DEF Lookup
  <1>4. ASSUME NEW c \in Clients, ContextResize(c) PROVE Goal
    <2> DEFINE fd == call[c].fd
    <2>1. call[c].pc = "resize" /\ fd \in Fds /\ fd \in Nat /\ "add" \in UserOps
      BY <1>4, FdsAssumption DEF ContextResize, CallsSound, CallSound
    <2>2. table'[fd] \in 1..MaxAllocs
      <3>1. /\ table' \in [Fds -> 0..MaxAllocs] /\ size' \in Nat /\ size' > fd
            /\ \A d \in Fds : d < size' => table'[d] # 0
        BY <1>4, ResizeTable
      <3> QED
        BY <2>1, <3>1
    <2>3. <<fd, table'[fd]>> \in Ctxs
      BY <2>1, <2>2 DEF Ctxs
    <2>4. call[c].ev \in Events
      BY DEF Calls
    <2>5. CallAt("have", "add", fd, call[c].ev, <<fd, table'[fd]>>) \in Calls
      BY <2>1, <2>3, <2>4, RecordTypes DEF Ops
    <2>6. call' \in [Clients -> Calls] /\ CallsSound'
      BY <1>1, <1>4, <2>1, <2>3, <2>5, ResizeTable DEF CallAt
    <2>7. UNCHANGED batch
      BY <1>4 DEF ContextResize
    <2> QED
      BY <1>4, <2>6, <2>7, ResizeTable DEF TableFull
  <1>5. ASSUME NEW c \in Clients, Done(c), UNCHANGED <<tableVars, batch>> PROVE Goal
    BY <1>1, <1>2, <1>5, RecordTypes DEF Done
  <1>6. ASSUME NEW c \in Clients, CancelAll(c) PROVE Goal
    <2>1. CASE call[c].op = "close"
      <3>1. call' = [call EXCEPT ![c] = CallAt("closing", "close", call[c].fd, call[c].ev,
                                               call[c].ctx)]
        BY <1>6, <2>1 DEF CancelAll
      <3>2. call[c].pc = "have" /\ UNCHANGED <<tableVars, batch>>
        BY <1>6 DEF CancelAll, InCall
      <3>3. /\ call[c].fd \in Fds /\ call[c].ctx \in Ctxs /\ call[c].ev \in Events
            /\ "close" \in UserOps
        BY <2>1, <3>2 DEF CallsSound, CallSound, Calls
      <3>4. CallAt("closing", "close", call[c].fd, call[c].ev, call[c].ctx) \in Calls
        BY <3>3, RecordTypes DEF Ops
      <3> QED
        BY <1>1, <1>2, <3>1, <3>2, <3>3, <3>4 DEF CallAt
    <2>2. CASE call[c].op # "close"
      BY <1>5, <1>6, <2>2 DEF CancelAll
    <2> QED
      BY <2>1, <2>2
  <1>7. ASSUME NEW w \in Idlers, NEW ready \in SUBSET Fds, EpollWait(w, ready) PROVE Goal
    <2>1. PICK mask \in [ready -> SUBSET Events], err \in [ready -> {FALSE, Errors}] :
             batch' = [batch EXCEPT ![w] =
                {[ctx |-> epoll[fd].ctx, mask |-> mask[fd], err |-> err[fd]] : fd \in ready}]
      BY <1>7 DEF EpollWait
    <2>2. ASSUME NEW fd \in ready
          PROVE  [ctx |-> epoll[fd].ctx, mask |-> mask[fd], err |-> err[fd]] \in Returned
      <3>1. epoll[fd].on /\ epoll[fd] \in Registrations
        BY <1>7 DEF EpollWait
      <3>2. epoll[fd].ctx \in Ctxs
        <4>1. epoll[fd] # Unregistered
          BY <3>1, OffIsOff
        <4> QED
          BY <3>1, <4>1 DEF Registrations
      <3>3. err[fd] \in BOOLEAN
        BY OpsAssumption, Zenon
      <3> QED
        BY <3>2, <3>3 DEF Returned
    <2>3. batch' \in [Idlers -> SUBSET Returned]
      BY <2>1, <2>2
    <2>4. UNCHANGED <<tableVars, call>>
      BY <1>7 DEF EpollWait
    <2> QED
      BY <1>2, <2>3, <2>4 DEF CallsSound, CallSound
  <1>8. ASSUME NEW w \in Idlers, NEW e \in batch[w], Dispatch(w, e) PROVE Goal
    <2>1. UNCHANGED <<tableVars, call>> /\ batch' = [batch EXCEPT ![w] = @ \ {e}]
      BY <1>8 DEF Dispatch
    <2> QED
      BY <1>2, <2>1 DEF CallsSound, CallSound
  <1> QED
    BY <1>3, <1>4, <1>5, <1>6, <1>7, <1>8
    DEF Next, ClientStep, IdlerStep, AddEvent, DelEvent, CancelEvent, CloseFd

\* SharedInv is an invariant.
LEMMA SharedCorrect == Spec => []SharedInv
  <1>1. SharedInv /\ [Next]_vars => SharedInv'
    <2> SUFFICES ASSUME SharedInv, [Next]_vars PROVE SharedInv'
      OBVIOUS
    <2>1. CASE Next
      <3>1. Effect
        BY <2>1, StepEffect
      <3> QED
        BY <2>1, <3>1, EffectType, CallsStep DEF SharedInv, TypeInt
    <2>2. CASE UNCHANGED vars
      BY <2>2 DEF vars, SharedInv, TypeInt, TableFull, CallsSound, CallSound
    <2> QED
      BY <2>1, <2>2
  <1> QED
    BY <1>1, InitShared, PTL DEF Spec
-----------------------------------------------------------------------------
(* The count *)

\* There are finitely many events to register.
LEMMA PendingFinite ==
    /\ IsFiniteSet(Ctxs \X Events) /\ IsFiniteSet(Pending) /\ IsFiniteSet(Pending')
    /\ Cardinality(Pending) \in Nat /\ Cardinality(Pending)' \in Nat
  <1>1. IsFiniteSet(1..MaxAllocs)
    BY SizeAssumption, FS_Interval
  <1>2. IsFiniteSet(Ctxs)
    BY <1>1, FdsAssumption, FS_Product DEF Ctxs
  <1>3. IsFiniteSet(Events)
    <2>1. Events = {"READ"} \cup {"WRITE"}
      BY DEF Events
    <2> QED
      BY <2>1, FS_Singleton, FS_AddElement
  <1>4. IsFiniteSet(Ctxs \X Events)
    BY <1>2, <1>3, FS_Product
  <1>5. Pending \in SUBSET (Ctxs \X Events) /\ Pending' \in SUBSET (Ctxs \X Events)
    BY DEF Pending
  <1>6. IsFiniteSet(Pending) /\ IsFiniteSet(Pending')
    BY <1>4, <1>5, FS_Subset
  <1> QED
    BY <1>4, <1>6, FS_CardinalityType

\* A new event counts one.
LEMMA AddsCount ==
    ASSUME SharedInv, NEW c \in Clients, NEW x \in Ctxs, NEW ev \in Events, Adds(c, x, ev)
    PROVE  Cardinality(Pending') = Cardinality(Pending) + 1
  <1>1. <<x, ev>> \notin Pending
    BY DEF Adds, Pending
  <1>2. Pending' = Pending \cup {<<x, ev>>}
    <2>1. \A y \in Ctxs : events'[y] = IF y = x THEN events[y] \cup {ev} ELSE events[y]
      BY DEF Adds, SharedInv, TypeInt
    <2>2. ASSUME NEW y \in Ctxs, NEW e \in Events
          PROVE  <<y, e>> \in Pending' <=> <<y, e>> \in Pending \cup {<<x, ev>>}
      <3>1. (<<y, e>> \in Pending <=> e \in events[y]) /\ (<<y, e>> \in Pending' <=> e \in events'[y])
        BY DEF Pending
      <3>2. <<y, e>> = <<x, ev>> <=> y = x /\ e = ev
        OBVIOUS
      <3> QED
        BY <2>1, <3>1, <3>2
    <2>3. /\ Pending' \subseteq Ctxs \X Events
          /\ Pending \cup {<<x, ev>>} \subseteq Ctxs \X Events
      BY DEF Pending
    <2> QED
      BY <2>2, <2>3
  <1> QED
    BY <1>1, <1>2, PendingFinite, FS_AddElement

\* Events that are taken out count as many as were there.
LEMMA TakesCount ==
    ASSUME SharedInv, NEW x \in Ctxs, NEW evs \in SUBSET Events, Takes(x, evs)
    PROVE  Cardinality(Pending') = Cardinality(Pending) - Cardinality(evs \cap events[x])
  <1> DEFINE out == evs \cap events[x]
             gone == {x} \X out
  <1>1. Pending' = Pending \ gone
    <2>1. \A y \in Ctxs : events'[y] = IF y = x THEN events[y] \ evs ELSE events[y]
      BY DEF Takes, SharedInv, TypeInt
    <2> QED
      BY <2>1 DEF Pending
  <1>2. Pending \cap gone = gone
    BY DEF Pending
  <1>3. IsFiniteSet(gone)
    BY <1>2, PendingFinite, FS_Subset
  <1>4. Cardinality(Pending') = Cardinality(Pending) - Cardinality(gone)
    <2>1. Cardinality(Pending \ gone) = Cardinality(Pending) - Cardinality(Pending \cap gone)
      BY PendingFinite, FS_Difference
    <2> QED
      BY <1>1, <1>2, <2>1
  <1>5. IsFiniteSet(out)
    <2>1. Events = {"READ"} \cup {"WRITE"} /\ out \subseteq Events
      BY DEF Events
    <2>2. IsFiniteSet(Events)
      BY <2>1, FS_Singleton, FS_AddElement
    <2> QED
      BY <2>1, <2>2, FS_Subset
  <1>6. IsFiniteSet({x}) /\ Cardinality({x}) = 1
    BY FS_Singleton
  <1>7. Cardinality(gone) = 1 * Cardinality(out) /\ Cardinality(out) \in Nat
    BY <1>5, <1>6, FS_Product, FS_CardinalityType
  <1> QED
    BY <1>4, <1>7

\* IOManager::stopping may trust m_pendingEventCount: whatever threads do at the
\* same time, it is the number of registered events.
THEOREM PendingCorrect == Spec => []PendingExact
  <1>1. Init => PendingExact
    <2> SUFFICES ASSUME Init PROVE PendingExact
      OBVIOUS
    <2>1. Pending = {}
      BY DEF Init, Pending
    <2> QED
      BY <2>1, FS_EmptySet DEF Init, PendingExact
  <1>2. SharedInv /\ PendingExact /\ [Next]_vars => PendingExact'
    <2> SUFFICES ASSUME SharedInv, PendingExact, [Next]_vars PROVE PendingExact'
      OBVIOUS
    <2>1. CASE UNCHANGED vars
      BY <2>1 DEF vars, PendingExact, Pending
    <2>2. CASE Next
      <3>1. CASE Quiet
        BY <3>1 DEF Quiet, PendingExact, Pending
      <3>2. ASSUME NEW c \in Clients, NEW x \in Ctxs, NEW ev \in Events, Adds(c, x, ev)
            PROVE  PendingExact'
        BY <3>2, AddsCount DEF PendingExact, Adds
      <3>3. ASSUME NEW x \in Ctxs, NEW evs \in SUBSET Events, Takes(x, evs)
            PROVE  PendingExact'
        BY <3>3, TakesCount DEF PendingExact, Takes
      <3>4. ASSUME NEW c \in Clients, Closes(c) PROVE PendingExact'
        BY <3>4 DEF Closes, PendingExact, Pending
      <3> QED
        BY <2>2, <3>1, <3>2, <3>3, <3>4, StepEffect DEF Effect
    <2> QED
      BY <2>1, <2>2
  <1> QED
    BY <1>1, <1>2, SharedCorrect, PTL DEF Spec

\* An EventContext is set exactly while its event is registered.
THEOREM FilledCorrect == Spec => []FilledIffRegistered
  <1>1. Init => FilledIffRegistered
    BY DEF Init, FilledIffRegistered
  <1>2. SharedInv /\ FilledIffRegistered /\ [Next]_vars => FilledIffRegistered'
    <2> SUFFICES ASSUME SharedInv, FilledIffRegistered, [Next]_vars
                 PROVE  FilledIffRegistered'
      OBVIOUS
    <2>1. Effect \/ UNCHANGED vars
      BY StepEffect
    <2>2. CASE Quiet \/ (\E c \in Clients : Closes(c)) \/ UNCHANGED vars
      BY <2>2 DEF FilledIffRegistered, Quiet, Closes, vars
    <2>3. ASSUME NEW c \in Clients, NEW x \in Ctxs, NEW ev \in Events, Adds(c, x, ev)
          PROVE  filled' = events'
      BY <2>3 DEF FilledIffRegistered, Adds
    <2>4. ASSUME NEW x \in Ctxs, NEW evs \in SUBSET Events, Takes(x, evs)
          PROVE  filled' = events'
      BY <2>4 DEF FilledIffRegistered, Takes
    <2> QED
      BY <2>1, <2>2, <2>3, <2>4 DEF FilledIffRegistered, Effect
  <1> QED
    BY <1>1, <1>2, SharedCorrect, PTL DEF Spec

-----------------------------------------------------------------------------
(* Context and kernel *)

\* The kernel has a context of the descriptor itself.
EpollOwn == \A fd \in Fds : epoll[fd].on => epoll[fd].ctx[1] = fd

AgreeInv == EpollMatches /\ EpollOwn

\* A descriptor has at most one context with events, since epoll_ctl(ADD) fails
\* for the second one, also when a resize has lost the first.
LEMMA SameContext ==
    ASSUME EpollMatches, NEW x \in Ctxs, NEW y \in Ctxs, x[1] = y[1], x[1] \notin torn,
           events[x] # {}, events[y] # {}
    PROVE  x = y
  <1>1. Registered(events[x], x) = Registered(events[y], y)
    BY DEF EpollMatches
  <1> QED
    BY <1>1 DEF Registered

\* The context that the kernel has for a descriptor.
LEMMA KernelContext ==
    ASSUME SharedInv, AgreeInv, NEW fd \in Fds, epoll[fd].on
    PROVE  /\ epoll[fd].ctx \in Ctxs /\ epoll[fd].ctx[1] = fd
           /\ fd \notin torn => events[epoll[fd].ctx] # {}
  <1>1. epoll[fd] \in Registrations /\ epoll[fd] # Unregistered
    BY OffIsOff DEF SharedInv, TypeInt
  <1>2. epoll[fd].ctx \in Ctxs
    BY <1>1 DEF Registrations
  <1> QED
    BY <1>2 DEF AgreeInv, EpollMatches, EpollOwn

\* Context x of a descriptor gets the events evs, and the kernel is told; no other
\* context of the descriptor has events, unless it is torn already.
LEMMA AgreeStep ==
    ASSUME SharedInv, AgreeInv, NEW x \in Ctxs, NEW evs \in SUBSET Events,
           \A y \in Ctxs : y[1] = x[1] /\ y # x /\ x[1] \notin torn => events[y] = {},
           events' = [events EXCEPT ![x] = evs],
           epoll' = [epoll EXCEPT ![x[1]] = IF evs = {} THEN Unregistered
                                            ELSE Registered(evs, x)],
           UNCHANGED torn
    PROVE  AgreeInv'
  <1>0. x[1] \in Fds /\ \A y \in Ctxs : y[1] \in Fds
    BY DEF Ctxs
  <1>1. \A y \in Ctxs : events'[y] = IF y = x THEN evs ELSE events[y]
    BY DEF SharedInv, TypeInt
  <1>2. \A fd \in Fds : epoll'[fd] = IF fd = x[1]
                                     THEN IF evs = {} THEN Unregistered ELSE Registered(evs, x)
                                     ELSE epoll[fd]
    BY <1>0 DEF SharedInv, TypeInt
  <1>3. ASSUME NEW y \in Ctxs, events'[y] # {}, y[1] \notin torn
        PROVE  epoll'[y[1]] = Registered(events'[y], y)
    <2>1. CASE y[1] = x[1]
      <3>1. y = x
        BY <1>1, <1>3, <2>1
      <3> QED
        BY <1>0, <1>1, <1>2, <1>3, <3>1
    <2>2. CASE y[1] # x[1]
      BY <1>0, <1>1, <1>2, <1>3, <2>2 DEF AgreeInv, EpollMatches
    <2> QED
      BY <2>1, <2>2
  <1>4. ASSUME NEW fd \in Fds, epoll'[fd].on
        PROVE  /\ epoll'[fd].ctx[1] = fd
               /\ fd \notin torn => events'[epoll'[fd].ctx] # {}
    <2>1. CASE fd = x[1]
      <3>1. evs # {}
        BY <1>2, <1>4, <2>1, OffIsOff
      <3>2. epoll'[fd].ctx = x
        BY <1>2, <2>1, <3>1 DEF Registered
      <3> QED
        BY <1>1, <2>1, <3>1, <3>2
    <2>2. CASE fd # x[1]
      <3>1. epoll'[fd] = epoll[fd] /\ epoll[fd].on
        BY <1>2, <1>4, <2>2
      <3>2. /\ epoll[fd].ctx \in Ctxs /\ epoll[fd].ctx[1] = fd
            /\ fd \notin torn => events[epoll[fd].ctx] # {}
        BY <3>1, KernelContext
      <3> QED
        BY <1>1, <2>2, <3>1, <3>2
    <2> QED
      BY <2>1, <2>2
  <1> QED
    BY <1>3, <1>4 DEF AgreeInv, EpollMatches, EpollOwn

\* addEvent: if the descriptor has another context with events, epoll_ctl fails.
LEMMA AgreeAdds ==
    ASSUME SharedInv, AgreeInv, NEW c \in Clients, NEW x \in Ctxs, NEW ev \in Events,
           Adds(c, x, ev)
    PROVE  AgreeInv'
  <1>1. ASSUME NEW y \in Ctxs, y[1] = x[1], y # x, x[1] \notin torn PROVE events[y] = {}
    <2> SUFFICES ASSUME events[y] # {} PROVE FALSE
      OBVIOUS
    <2>1. epoll[x[1]] = Registered(events[y], y)
      BY <1>1 DEF AgreeInv, EpollMatches
    <2>2. epoll[x[1]].on
      BY <2>1 DEF Registered
    <2>3. events[x] # {}
      BY <2>2 DEF Adds
    <2> QED
      BY <1>1, <2>3, SameContext DEF AgreeInv
  <1>2. events[x] \cup {ev} \in SUBSET Events /\ events[x] \cup {ev} # {}
    BY DEF SharedInv, TypeInt
  <1>3. /\ events' = [events EXCEPT ![x] = events[x] \cup {ev}]
        /\ epoll' = [epoll EXCEPT ![x[1]] = Registered(events[x] \cup {ev}, x)]
        /\ UNCHANGED torn
    BY DEF Adds
  <1> QED
    BY <1>1, <1>2, <1>3, AgreeStep

\* delEvent, cancelEvent, cancelAll and a turn of idle().
LEMMA AgreeTakes ==
    ASSUME SharedInv, AgreeInv, NEW x \in Ctxs, NEW evs \in SUBSET Events, Takes(x, evs)
    PROVE  AgreeInv'
  <1>1. ASSUME NEW y \in Ctxs, y[1] = x[1], y # x, x[1] \notin torn PROVE events[y] = {}
    BY <1>1, SameContext DEF Takes, AgreeInv
  <1>2. events[x] \ evs \in SUBSET Events
    BY DEF SharedInv, TypeInt
  <1>3. /\ events' = [events EXCEPT ![x] = events[x] \ evs]
        /\ epoll' = [epoll EXCEPT ![x[1]] = IF events[x] \ evs = {} THEN Unregistered
                                            ELSE Registered(events[x] \ evs, x)]
        /\ UNCHANGED torn
    BY DEF Takes
  <1> QED
    BY <1>1, <1>2, <1>3, AgreeStep

\* close_f: a descriptor without events is not registered any more, one with events
\* is torn.
LEMMA AgreeCloses ==
    ASSUME SharedInv, AgreeInv, NEW c \in Clients, Closes(c)
    PROVE  AgreeInv'
  <1> DEFINE fd == call[c].fd
  <1>1. fd \in Fds
    BY DEF Closes, SharedInv, CallsSound, CallSound
  <1>2. /\ \A d \in Fds : epoll'[d] = IF d = fd THEN Unregistered ELSE epoll[d]
        /\ UNCHANGED events
    BY <1>1 DEF Closes, SharedInv, TypeInt
  <1>3. \A d \in Fds : d \notin torn' => /\ d \notin torn
                                         /\ d = fd => \A x \in Ctxs : x[1] = d => events[x] = {}
    BY DEF Closes
  <1>4. ~Unregistered.on
    BY DEF Unregistered
  <1>5. \A x \in Ctxs : x[1] \in Fds
    BY DEF Ctxs
  <1>6. ASSUME NEW x \in Ctxs, events'[x] # {}, x[1] \notin torn'
        PROVE  epoll'[x[1]] = Registered(events'[x], x)
    <2>1. x[1] # fd /\ x[1] \notin torn
      BY <1>2, <1>3, <1>5, <1>6
    <2> QED
      BY <1>2, <1>5, <1>6, <2>1 DEF AgreeInv, EpollMatches
  <1>7. ASSUME NEW d \in Fds, epoll'[d].on
        PROVE  epoll'[d].ctx[1] = d /\ (d \notin torn' => events'[epoll'[d].ctx] # {})
    <2>1. d # fd /\ epoll'[d] = epoll[d]
      BY <1>2, <1>4, <1>7
    <2> QED
      BY <1>2, <1>3, <1>7, <2>1 DEF AgreeInv, EpollMatches, EpollOwn
  <1> QED
    BY <1>6, <1>7 DEF AgreeInv, EpollMatches, EpollOwn

\* FdContext::events, the EventContexts and the kernel's registrations agree in every
\* state, for any number of threads that add, delete, cancel and close on any
\* descriptors, with failing epoll_ctl calls, stale results of epoll_wait and resizes
\* that lose contexts: only a descriptor that was closed while a context of it had
\* events (added by another thread behind cancelAll) is excepted.
THEOREM EventsAgreeCorrect == Spec => []EventsAgree
  <1>1. Init => AgreeInv
    BY DEF Init, AgreeInv, EpollMatches, EpollOwn, Unregistered
  <1>2. SharedInv /\ AgreeInv /\ [Next]_vars => AgreeInv'
    <2> SUFFICES ASSUME SharedInv, AgreeInv, [Next]_vars PROVE AgreeInv'
      OBVIOUS
    <2>1. Effect \/ UNCHANGED vars
      BY StepEffect
    <2>2. CASE Quiet \/ UNCHANGED vars
      BY <2>2 DEF AgreeInv, EpollMatches, EpollOwn, Quiet, vars
    <2> QED
      BY <2>1, <2>2, AgreeAdds, AgreeTakes, AgreeCloses DEF Effect
  <1>3. AgreeInv => EpollMatches
    BY DEF AgreeInv
  <1> QED
    BY <1>1, <1>2, <1>3, SharedCorrect, FilledCorrect, PTL DEF Spec, EventsAgree
=============================================================================
