--------------------------- MODULE HookedIOProofs ---------------------------
(***************************************************************************)
(* The wait of a hooked call is ended once and cleaned up, for any number  *)
(* of calls, sockets and options.                                          *)
(***************************************************************************)
EXTENDS HookedIO, TLAPS

\* A callback of the current call that has not tested its condition yet.
Listed == \E n \in Nat : <<call, n, "listed">> \in cbs

\* Only the current pass of the current call can have a timer in the set.
TimersCurrent ==
    /\ timers \subseteq {<<call, try>>}
    /\ timers # {} => pc \in {"event", "yield", "wait", "woken"}

\* Callbacks belong to calls that were made and had a timer expire; the
\* condition of the current call is set by one of them.
CallbacksExpired ==
    /\ \A b \in cbs : b[1] <= call /\ b[1] \in expired
    /\ cancelled /\ pc # "out" => call \in expired

\* What can wake a sleep: its timer, then its callback, then its place in the
\* scheduler's list, one at a time.
SleepWakers ==
    kind = "sleep" =>
        /\ ~event /\ pc \in {"out", "timer", "yield", "wait", "woken", "check"}
        /\ try = 1
        /\ \A b \in cbs : b[1] = call => b[2] = 1
        /\ timers # {} => ~Listed /\ runnable = 0
        /\ Listed => timers = {} /\ runnable = 0
        /\ pc \notin {"yield", "wait"} => timers = {} /\ ~Listed

IInv == /\ TypeOK /\ WokenOnce /\ NothingLeftBehind /\ TimeoutIsOwn
        /\ TimersCurrent /\ CallbacksExpired /\ SleepWakers

-----------------------------------------------------------------------------
(* Steps by who takes them *)

LEMMA InitInv == Init => IInv
  <1> SUFFICES ASSUME Init PROVE IInv
    OBVIOUS
  <1> USE DEF Init
  <1>1. 0 \in Calls /\ 0 \in Sockets /\ 0 \in 0..MaxOpts
    BY BoundsAssumption DEF Calls, Sockets
  <1>2. TypeOK
    BY <1>1 DEF TypeOK, PCs, Results
  <1>3. WokenOnce /\ NothingLeftBehind /\ TimeoutIsOwn
    BY DEF WokenOnce, NothingLeftBehind, TimeoutIsOwn
  <1>4. TimersCurrent /\ CallbacksExpired /\ SleepWakers
    BY DEF TimersCurrent, CallbacksExpired, SleepWakers
  <1> QED
    BY <1>2, <1>3, <1>4 DEF IInv

\* Steps that change only the socket, the FdCtx or epoll's answer leave the
\* call, its timers, its event and the list alone.
LEMMA OthersInv ==
    ASSUME IInv, TypeOK', UNCHANGED <<callVars, timerVars, event, runnable>>
    PROVE  IInv'
  BY DEF IInv, WokenOnce, NothingLeftBehind, TimeoutIsOwn, TimersCurrent,
         CallbacksExpired, SleepWakers, Listed, callVars, timerVars

\* Trigger schedules the fiber in exchange for its registration.
LEMMA TriggerInv ==
    ASSUME IInv, TypeOK', Trigger, UNCHANGED <<callVars, timers, expired>>, cbs' \subseteq cbs,
           \A n \in Nat : <<call, n, "listed">> \in cbs => <<call, n, "listed">> \in cbs'
    PROVE  IInv'
  <1> USE DEF IInv, callVars
  <1>1. (WokenOnce /\ NothingLeftBehind)'
    BY DEF Trigger, WokenOnce, NothingLeftBehind, TypeOK
  <1>2. (TimeoutIsOwn /\ TimersCurrent /\ CallbacksExpired)'
    BY DEF TimeoutIsOwn, TimersCurrent, CallbacksExpired
  <1>3. Listed' <=> Listed
    BY DEF Listed
  <1>4. SleepWakers'
    BY <1>3 DEF SleepWakers, Trigger
  <1> QED
    BY <1>1, <1>2, <1>4

LEMMA FiberType == TypeOK /\ FiberStep => TypeOK'
  <1> SUFFICES ASSUME TypeOK, FiberStep PROVE TypeOK'
    OBVIOUS
  <1> USE DEF TypeOK, PCs, Results, sockVars, ctxVars, callVars, timerVars, eventVars,
          Return
  <1>1. ASSUME NEW k \in Kinds, Begin(k) PROVE TypeOK'
    <2>1. call' \in Calls /\ try' \in Nat
      BY <1>1, BoundsAssumption DEF Begin, Calls
    <2>2. kind' \in {"io", "connect", "sleep"} /\ pc' \in PCs /\ to' \in BOOLEAN
      BY <1>1, KindsAssumption DEF Begin, FirstPlace, TimeoutsOf
    <2>3. /\ own' = sock /\ cancelled' = FALSE
          /\ UNCHANGED <<sockVars, ctxVars, result, timerVars, eventVars>>
      BY <1>1 DEF Begin
    <2>4. own' \in Sockets /\ cancelled' \in BOOLEAN
      BY <2>3, Zenon
    <2> QED
      BY <2>1, <2>2, <2>3, <2>4
  <1>2. CASE Try
    <2>1. ready' \in BOOLEAN /\ pc' \in PCs /\ result' \in Results
      BY <1>2 DEF Try
    <2> QED
      BY <1>2, <2>1 DEF Try
  <1>3. CASE AddTimer
    <2>1. timers' \subseteq Calls \X Nat
      BY <1>3 DEF AddTimer
    <2>2. pc' \in PCs
      BY <1>3 DEF AddTimer
    <2> QED
      BY <1>3, <2>1, <2>2 DEF AddTimer
  <1>4. CASE AddEvent
    <2>1. event' \in BOOLEAN
      BY <1>4, Zenon DEF AddEvent
    <2>2. timers' \subseteq timers /\ watched' \in Sockets /\ pc' \in PCs /\ result' \in Results
      BY <1>4 DEF AddEvent
    <2> QED
      BY <1>4, <2>1, <2>2 DEF AddEvent
  <1>5. CASE Resume
    BY <1>5 DEF Resume
  <1>6. CASE CancelTimer
    BY <1>6 DEF CancelTimer
  <1>7. CASE Check
    BY <1>7 DEF Check
  <1>8. CASE YieldToHold
    BY <1>8 DEF YieldToHold
  <1> QED
    BY <1>1, <1>2, <1>3, <1>4, <1>5, <1>6, <1>7, <1>8 DEF FiberStep

LEMMA TriggerType ==
    ASSUME TypeOK, Trigger
    PROVE  event' \in BOOLEAN /\ watched' \in Sockets /\ runnable' \in Nat
  <1>1. CASE event /\ watched = sock
    <2>1. event' = FALSE /\ watched' = 0 /\ runnable' = runnable + 1
      BY <1>1, Zenon DEF Trigger
    <2>2. event' \in BOOLEAN
      BY <2>1, Zenon
    <2>3. runnable' \in Nat /\ watched' \in Sockets
      BY <2>1, BoundsAssumption DEF TypeOK, Sockets
    <2> QED
      BY <2>2, <2>3
  <1>2. CASE ~(event /\ watched = sock)
    <2>1. event' = event /\ watched' = watched /\ runnable' = runnable
      BY <1>2, Zenon DEF Trigger
    <2> QED
      BY <2>1 DEF TypeOK
  <1> QED
    BY <1>1, <1>2

LEMMA WakerType ==
    ASSUME TypeOK, (\E t \in timers : Expire(t[1], t[2])) \/ CallbackStep \/ Report \/ Dispatch
    PROVE  TypeOK'
  <1> USE DEF TypeOK, sockVars, ctxVars, callVars, timerVars, eventVars
  <1>1. Trigger => event' \in BOOLEAN /\ watched' \in Sockets /\ runnable' \in Nat
    BY TriggerType
  <1>2. ASSUME NEW t \in timers, Expire(t[1], t[2]) PROVE TypeOK'
    <2>1. t[1] \in Calls /\ t[2] \in Nat
      OBVIOUS
    <2>2. timers' \subseteq timers /\ expired' \subseteq Calls
      BY <1>2, <2>1 DEF Expire
    <2>3. cbs' \subseteq Calls \X Nat \X {"listed", "cancel"}
      BY <1>2, <2>1 DEF Expire
    <2> QED
      BY <1>2, <2>2, <2>3 DEF Expire
  <1>3. ASSUME NEW b \in cbs, CallbackTest(b[1], b[2]) PROVE TypeOK'
    <2>1. b[1] \in Calls /\ b[2] \in Nat
      OBVIOUS
    <2>2. cbs' \subseteq Calls \X Nat \X {"listed", "cancel"}
      BY <1>3, <2>1 DEF CallbackTest
    <2>3. runnable' \in Nat
      BY <1>3 DEF CallbackTest
    <2>4. cancelled' \in BOOLEAN
      BY <1>3, Zenon DEF CallbackTest
    <2> QED
      BY <1>3, <2>2, <2>3, <2>4 DEF CallbackTest
  <1>4. ASSUME NEW b \in cbs, CallbackCancel(b[1], b[2]) PROVE TypeOK'
    <2>1. cbs' \subseteq Calls \X Nat \X {"listed", "cancel"}
      <3>1. cbs' \subseteq cbs
        BY <1>4 DEF CallbackCancel
      <3> QED
        BY <3>1
    <2>2. UNCHANGED <<sockVars, ctxVars, callVars, timers, expired, reported>> /\ Trigger
      BY <1>4, Zenon DEF CallbackCancel
    <2> QED
      BY <1>1, <2>1, <2>2
  <1>5. CASE Report
    BY <1>5 DEF Report
  <1>6. CASE Dispatch
    <2>1. reported' = FALSE /\ Trigger /\ UNCHANGED <<sockVars, ctxVars, callVars, timerVars>>
      BY <1>6, Zenon DEF Dispatch
    <2>2. reported' \in BOOLEAN
      BY <2>1, Zenon
    <2> QED
      BY <1>1, <2>1, <2>2
  <1> QED
    BY <1>2, <1>3, <1>4, <1>5, <1>6 DEF CallbackStep

LEMMA SocketType ==
    ASSUME TypeOK, Open \/ CloseCancel \/ CloserStep \/ OptionStep \/ Peer
    PROVE  TypeOK'
  <1> USE DEF TypeOK, sockVars, ctxVars, callVars, timerVars, eventVars
  <1>0. 0 \in Sockets
    BY BoundsAssumption DEF Sockets
  <1>1. CASE Open
    <2>1. sock' \in Sockets /\ opens' \in Sockets
      BY <1>1, BoundsAssumption DEF Open, Sockets
    <2> QED
      BY <1>1, <2>1 DEF Open
  <1>2. CASE CloseCancel
    <2>1. event' \in BOOLEAN /\ watched' \in Sockets /\ runnable' \in Nat
      BY <1>2, TriggerType DEF CloseCancel
    <2> QED
      BY <1>2, <2>1 DEF CloseCancel
  <1>3. CASE CloserStep
    <2>1. CASE CreateCtx
      BY <2>1 DEF CreateCtx
    <2>2. CASE CloseDel
      BY <2>2 DEF CloseDel
    <2>3. CASE Close
      BY <1>0, <2>3 DEF Close
    <2> QED
      BY <1>3, <2>1, <2>2, <2>3 DEF CloserStep
  <1>4. CASE OptionStep
    <2>0. opts < MaxOpts => opts + 1 \in 0..MaxOpts
      BY BoundsAssumption
    <2>1. CASE SetTimeout
      BY <2>0, <2>1 DEF SetTimeout
    <2>2. ASSUME NEW flag \in BOOLEAN, SetFl(flag) PROVE TypeOK'
      BY <2>0, <2>2 DEF SetFl
    <2>3. ASSUME NEW flag \in BOOLEAN, Ioctl(flag) PROVE TypeOK'
      BY <2>0, <2>3 DEF Ioctl
    <2> QED
      BY <1>4, <2>1, <2>2, <2>3 DEF OptionStep
  <1>5. CASE Peer
    BY <1>5 DEF Peer
  <1> QED
    BY <1>1, <1>2, <1>3, <1>4, <1>5

LEMMA FiberInv ==
    ASSUME IInv, FiberStep
    PROVE  IInv'
  <1>1. TypeOK'
    BY FiberType DEF IInv
  <1> USE DEF timerVars, eventVars, Return
  <1>2. ASSUME NEW k \in Kinds, Begin(k) PROVE IInv'
    <2>1. timers' = {} /\ ~event' /\ runnable' = 0
      BY <1>2 DEF Begin, IInv, NothingLeftBehind
    <2>2. call \in Nat /\ call' = call + 1
      BY <1>2, BoundsAssumption DEF Begin, IInv, TypeOK, Calls
    <2>3. \A b \in cbs' : b[1] <= call /\ b[1] \in expired' /\ b[1] \in Nat
      BY <1>2, BoundsAssumption DEF Begin, IInv, CallbacksExpired, TypeOK, Calls
    <2>4. \A b \in cbs' : b[1] # call' /\ b[1] <= call'
      BY <2>2, <2>3
    <2>5. \A n : <<call', n, "listed">>[1] = call'
      OBVIOUS
    <2>6. ~Listed' /\ \A b \in cbs' : b[1] # call' /\ b[1] <= call'
      BY <2>4, <2>5, Zenon DEF Listed
    <2>7. (WokenOnce /\ NothingLeftBehind)'
      BY <2>1 DEF WokenOnce, NothingLeftBehind
    <2>8. pc' # "out" /\ ~cancelled' /\ try' = 1 /\ (kind' = "sleep" => pc' = "timer")
      BY <1>2 DEF Begin, FirstPlace
    <2>9. (TimeoutIsOwn /\ TimersCurrent /\ CallbacksExpired)'
      BY <2>1, <2>3, <2>6, <2>8 DEF TimeoutIsOwn, TimersCurrent, CallbacksExpired
    <2>10. SleepWakers'
      BY <2>1, <2>6, <2>8 DEF SleepWakers
    <2> QED
      BY <1>1, <2>7, <2>9, <2>10 DEF IInv
  <1>3. CASE Try
    <2>1. timers = {} /\ ~event /\ kind # "sleep" /\ runnable = 0 /\ pc = "try"
      BY <1>3 DEF Try, IInv, TypeOK, WokenOnce, TimersCurrent, SleepWakers
    <2>2. UNCHANGED <<timers, event, kind, runnable, cbs, expired, cancelled, call, try>>
      BY <1>3 DEF Try
    <2>3. pc' \in {"out", "timer"} /\ (pc' = "out" => result' # "ETIMEDOUT")
      BY <1>3 DEF Try
    <2>4. (WokenOnce /\ NothingLeftBehind /\ TimeoutIsOwn)'
      BY <2>1, <2>2, <2>3 DEF WokenOnce, NothingLeftBehind, TimeoutIsOwn
    <2>5. (TimersCurrent /\ CallbacksExpired /\ SleepWakers)'
      BY <2>1, <2>2, <2>3 DEF IInv, TimersCurrent, CallbacksExpired, SleepWakers
    <2> QED
      BY <1>1, <2>4, <2>5 DEF IInv
  <1> USE DEF IInv, TypeOK, WokenOnce, NothingLeftBehind, TimeoutIsOwn, TimersCurrent,
          CallbacksExpired, SleepWakers, Listed
  <1>4. CASE AddTimer
    BY <1>1, <1>4 DEF AddTimer
  <1>5. CASE AddEvent
    BY <1>1, <1>5 DEF AddEvent
  <1>6. CASE Resume
    BY <1>1, <1>6 DEF Resume
  <1>7. CASE CancelTimer
    BY <1>1, <1>7 DEF CancelTimer
  <1>8. CASE Check
    BY <1>1, <1>8 DEF Check
  <1>9. CASE YieldToHold
    BY <1>1, <1>9 DEF YieldToHold
  <1> QED
    BY <1>2, <1>3, <1>4, <1>5, <1>6, <1>7, <1>8, <1>9 DEF FiberStep

LEMMA ExpireInv ==
    ASSUME IInv, NEW t \in timers, Expire(t[1], t[2])
    PROVE  IInv'
  <1>1. TypeOK'
    BY WakerType DEF IInv
  <1>2. t = <<call, try>> /\ timers = {t} /\ timers' = {}
    BY DEF IInv, TimersCurrent, Expire
  <1>3. /\ cbs' = cbs \cup {<<call, try, "listed">>}
        /\ expired' = expired \cup {call}
        /\ UNCHANGED <<callVars, eventVars>>
    BY <1>2 DEF Expire
  <1>4. pc # "out" /\ call \in Nat
    BY <1>2, BoundsAssumption DEF IInv, TimersCurrent, TypeOK, Calls
  <1>5. (WokenOnce /\ NothingLeftBehind /\ TimeoutIsOwn /\ TimersCurrent)'
    BY <1>2, <1>3, <1>4 DEF IInv, WokenOnce, NothingLeftBehind, TimeoutIsOwn, TimersCurrent,
       callVars, eventVars
  <1>6. CallbacksExpired'
    BY <1>3, <1>4 DEF IInv, CallbacksExpired, callVars
  <1>7. SleepWakers'
    <2>1. SUFFICES ASSUME kind = "sleep" PROVE SleepWakers'
      BY <1>3 DEF SleepWakers, callVars
    <2>2. try = 1 /\ runnable = 0 /\ ~event /\ pc \in {"yield", "wait"}
      BY <1>2, <2>1 DEF IInv, SleepWakers
    <2>3. \A b \in cbs' : b[1] = call => b[2] = 1
      BY <1>3, <2>1, <2>2 DEF IInv, SleepWakers
    <2> QED
      BY <1>2, <1>3, <2>2, <2>3 DEF SleepWakers, callVars, eventVars
  <1> QED
    BY <1>1, <1>5, <1>6, <1>7 DEF IInv

LEMMA CallbackInv ==
    ASSUME IInv, NEW b \in cbs, CallbackTest(b[1], b[2])
    PROVE  IInv'
  <1>1. TypeOK'
    BY WakerType DEF IInv, CallbackStep
  <1>2. PICK c, n : c = b[1] /\ n = b[2] /\ CallbackTest(c, n)
    OBVIOUS
  <1>3. c \in Nat /\ n \in Nat /\ c \in expired /\ c <= call
    BY <1>2, BoundsAssumption DEF IInv, TypeOK, CallbacksExpired, Calls
  <1>4. UNCHANGED <<pc, kind, call, try, result, timers, expired, event>>
    BY <1>2 DEF CallbackTest
  <1>5. CASE c = call /\ kind = "sleep"
    <2>1. cbs' = cbs \ {<<c, n, "listed">>} /\ runnable' = runnable + 1 /\ cancelled' = cancelled
      BY <1>2, <1>5 DEF CallbackTest
    <2>2. Listed
      BY <1>2, <1>3, <1>5 DEF CallbackTest, Listed
    <2>3. n = 1 /\ runnable = 0 /\ timers = {} /\ ~event /\ pc \in {"yield", "wait"}
      BY <1>2, <1>5, <2>2 DEF IInv, SleepWakers
    <2>4. \A x \in cbs' : x \in cbs /\ (x[1] = call => x[2] = 1)
      BY <1>5, <2>1 DEF IInv, SleepWakers
    <2>5. ~Listed'
      BY <1>4, <1>5, <2>1, <2>3, <2>4 DEF Listed
    <2> QED
      BY <1>1, <1>4, <1>5, <2>1, <2>3, <2>4, <2>5 DEF IInv, WokenOnce, NothingLeftBehind,
         TimeoutIsOwn, TimersCurrent, CallbacksExpired, SleepWakers
  <1>6. CASE ~(c = call /\ kind = "sleep") /\ CondHolds(c)
    <2>1. /\ cbs' = (cbs \ {<<c, n, "listed">>}) \cup {<<c, n, "cancel">>}
          /\ runnable' = runnable
      BY <1>2, <1>6 DEF CallbackTest
    <2>2. c = call /\ kind # "sleep"
      BY <1>6 DEF CondHolds
    <2>3. CallbacksExpired'
      BY <1>3, <1>4, <2>1, <2>2 DEF IInv, CallbacksExpired
    <2> QED
      BY <1>1, <1>4, <2>1, <2>2, <2>3 DEF IInv, WokenOnce, NothingLeftBehind,
         TimeoutIsOwn, TimersCurrent, SleepWakers
  <1>7. CASE ~(c = call /\ kind = "sleep") /\ ~CondHolds(c)
    <2>1. cbs' = cbs \ {<<c, n, "listed">>} /\ runnable' = runnable /\ cancelled' = cancelled
      BY <1>2, <1>7 DEF CallbackTest
    <2>2. kind = "sleep" => (Listed' <=> Listed)
      BY <1>4, <1>7, <2>1 DEF Listed
    <2> QED
      BY <1>1, <1>4, <2>1, <2>2 DEF IInv, WokenOnce, NothingLeftBehind,
         TimeoutIsOwn, TimersCurrent, CallbacksExpired, SleepWakers
  <1> QED
    BY <1>5, <1>6, <1>7

\* Every reachable state satisfies the inductive invariant.
THEOREM Invariant == Spec => []IInv
  <1>1. Init => IInv
    BY InitInv
  <1>2. IInv /\ [Next]_vars => IInv'
    <2> SUFFICES ASSUME IInv, [Next]_vars PROVE IInv'
      OBVIOUS
    <2>0. TypeOK
      BY DEF IInv
    <2>1. CASE FiberStep
      BY <2>1, FiberInv
    <2>2. ASSUME NEW t \in timers, Expire(t[1], t[2]) PROVE IInv'
      BY <2>2, ExpireInv
    <2>3. ASSUME NEW b \in cbs, CallbackTest(b[1], b[2]) PROVE IInv'
      BY <2>3, CallbackInv
    <2>4. ASSUME NEW b \in cbs, CallbackCancel(b[1], b[2]) PROVE IInv'
      <3>1. TypeOK'
        BY <2>0, <2>4, WakerType DEF CallbackStep
      <3> QED
        BY <2>4, <3>1, TriggerInv DEF CallbackCancel
    <2>5. CASE Dispatch
      <3>1. TypeOK'
        BY <2>0, <2>5, WakerType
      <3> QED
        BY <2>5, <3>1, TriggerInv DEF Dispatch, timerVars
    <2>6. CASE CloseCancel
      <3>1. TypeOK'
        BY <2>0, <2>6, SocketType
      <3> QED
        BY <2>6, <3>1, TriggerInv DEF CloseCancel, timerVars
    <2>7. CASE Report \/ Open \/ CloserStep \/ OptionStep \/ Peer
      <3>1. TypeOK'
        BY <2>0, <2>7, WakerType, SocketType
      <3>2. UNCHANGED <<callVars, timerVars, event, runnable>>
        BY <2>7 DEF Report, Open, CloserStep, CreateCtx, CloseDel, Close, OptionStep,
                    SetTimeout, SetFl, Ioctl, Peer, eventVars
      <3> QED
        BY <3>1, <3>2, OthersInv
    <2>8. CASE UNCHANGED vars
      <3>1. TypeOK'
        BY <2>0, <2>8 DEF TypeOK, vars
      <3> QED
        BY <2>8, <3>1, OthersInv DEF vars, callVars, timerVars
    <2> QED
      BY <2>1, <2>2, <2>3, <2>4, <2>5, <2>6, <2>7, <2>8 DEF Next, CallbackStep
  <1> QED
    BY <1>1, <1>2, PTL DEF Spec

\* The event, the timeout and close() never schedule a waiting fiber twice, and
\* never one that is not waiting.
THEOREM WokenOnceCorrect == Spec => []WokenOnce
  <1>1. IInv => WokenOnce
    BY DEF IInv
  <1> QED
    BY <1>1, Invariant, PTL

\* No path out of a hooked call leaves a timer or an event behind.
THEOREM NothingLeftBehindCorrect == Spec => []NothingLeftBehind
  <1>1. IInv => NothingLeftBehind
    BY DEF IInv
  <1> QED
    BY <1>1, Invariant, PTL

\* A call answers ETIMEDOUT only after a timer of its own has expired.
THEOREM TimeoutIsOwnCorrect == Spec => []TimeoutIsOwn
  <1>1. IInv => TimeoutIsOwn
    BY DEF IInv
  <1> QED
    BY <1>1, Invariant, PTL
=============================================================================
