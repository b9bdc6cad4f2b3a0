------------------------------ MODULE HookedIO ------------------------------
(***************************************************************************)
(* windgent/hook.cc and fd_manager.{h,cc}: a fiber that calls the hooked   *)
(* read (or any other do_io call), connect and sleep on one descriptor,    *)
(* against everything that can wake it: the condition timer's callback,    *)
(* the idle thread's event, and a close() on another thread.               *)
(*                                                                         *)
(* The fiber, each timer callback, the idle thread and the closer run on   *)
(* threads of their own; a step is what one of them does under a lock, or  *)
(* one system call.  Read and write calls differ only in their event, so   *)
(* one event stands for both.                                              *)
(***************************************************************************)
EXTENDS Integers

CONSTANTS
    Kinds,      \* calls the fiber makes, a subset of {"io", "connect", "sleep"}
    MaxCalls,   \* bound: calls it makes
    MaxOpens,   \* bound: sockets that get the descriptor, one after the other
    MaxOpts     \* bound: calls of setsockopt, fcntl and ioctl

ASSUME KindsAssumption == Kinds \subseteq {"io", "connect", "sleep"}
ASSUME BoundsAssumption ==
    MaxCalls \in Nat /\ MaxOpens \in Nat /\ MaxOpts \in Nat

VARIABLES
    sock,        \* which socket the descriptor is (0: closed)
    opens,       \* sockets opened so far
    ready,       \* is that socket ready for the call?
    nonblock,    \* its O_NONBLOCK, as the kernel has it
    closer,      \* place of the other thread in close() or socket()
    hasCtx,      \* has FdManager an FdCtx for the descriptor?
    m_userNonblock, m_hasTimeout,  \* of that FdCtx
    opts,        \* option calls so far
    pc, kind,    \* the fiber's place in its call, and which call it is
    call, try,   \* number of the call, and of its pass through retry:
    own,         \* the socket the call was made on
    to,          \* has the call a timeout?
    cancelled,   \* tcond->cancelled of the call
    result,      \* how the last call ended
    timers,      \* <<call, try>> of timers in TimerManager::m_timers
    cbs,         \* <<call, try, place>> of timer callbacks listed or running
    expired,     \* calls that had a timer expire
    event,       \* is the fiber registered in the FdContext?
    watched,     \* the socket whose registration epoll has for it (0: none)
    reported,    \* did epoll_wait return an entry not dispatched yet?
    runnable     \* how often the fiber is in the scheduler's list

sockVars == <<sock, opens, ready, nonblock, closer>>
ctxVars == <<hasCtx, m_userNonblock, m_hasTimeout, opts>>
callVars == <<pc, kind, call, try, own, to, cancelled, result>>
timerVars == <<timers, cbs, expired>>
eventVars == <<event, watched, reported, runnable>>
vars == <<sock, opens, ready, nonblock, closer, hasCtx, m_userNonblock,
          m_hasTimeout, opts, pc, kind, call, try, own, to, cancelled, result,
          timers, cbs, expired, event, watched, reported, runnable>>

PCs == {"out", "try", "timer", "event", "yield", "wait", "woken", "check"}
Results == {"none", "done", "EBADF", "ETIMEDOUT", "error"}
Calls == 0..MaxCalls
Sockets == 0..MaxOpens

TypeOK ==
    /\ sock \in Sockets /\ opens \in Sockets /\ ready \in BOOLEAN /\ nonblock \in BOOLEAN
    /\ closer \in {"none", "del", "close", "create"}
    /\ hasCtx \in BOOLEAN /\ m_userNonblock \in BOOLEAN /\ m_hasTimeout \in BOOLEAN
    /\ opts \in 0..MaxOpts
    /\ pc \in PCs /\ kind \in {"io", "connect", "sleep"}
    /\ call \in Calls /\ try \in Nat /\ own \in Sockets
    /\ to \in BOOLEAN /\ cancelled \in BOOLEAN /\ result \in Results
    /\ timers \subseteq Calls \X Nat
    /\ cbs \subseteq Calls \X Nat \X {"listed", "cancel"}
    /\ expired \subseteq Calls
    /\ event \in BOOLEAN /\ watched \in Sockets /\ reported \in BOOLEAN
    /\ runnable \in Nat

Init ==
    /\ sock = 0 /\ opens = 0 /\ ready = FALSE /\ nonblock = FALSE /\ closer = "none"
    /\ hasCtx = FALSE /\ m_userNonblock = FALSE /\ m_hasTimeout = FALSE /\ opts = 0
    /\ pc = "out" /\ kind = "io" /\ call = 0 /\ try = 0 /\ own = 0
    /\ to = FALSE /\ cancelled = FALSE /\ result = "none"
    /\ timers = {} /\ cbs = {} /\ expired = {}
    /\ event = FALSE /\ watched = 0 /\ reported = FALSE /\ runnable = 0

-----------------------------------------------------------------------------
(* The calls of the fiber *)

\* The call returns.
Return(r) == pc' = "out" /\ result' = r

\* Whether a call has a timeout: SO_RCVTIMEO or SO_SNDTIMEO of the FdCtx;
\* connect has the configured tcp.connect.timeout, -1 for none.
TimeoutsOf(k) == IF k = "connect" THEN BOOLEAN ELSE {k = "sleep" \/ m_hasTimeout}

\* sleep, usleep and nanosleep start with their timer.
FirstPlace(k) == IF k = "sleep" THEN "timer" ELSE "try"

\* do_io and connect up to the first system call, and sleep up to its timer.
\* Without an FdCtx, or if the user asked for O_NONBLOCK, the system call is
\* made directly (connect fails without FdCtx); the hook is not involved.
Begin(k) ==
    /\ pc = "out" /\ call < MaxCalls
    /\ k = "sleep" \/ (hasCtx /\ ~m_userNonblock)
    /\ kind' = k
    /\ call' = call + 1 /\ try' = 1
    /\ own' = sock
    /\ to' \in TimeoutsOf(k)
    /\ cancelled' = FALSE
    /\ pc' = FirstPlace(k)
    /\ UNCHANGED <<sockVars, ctxVars, result, timerVars, eventVars>>

\* The system call.  It may leave some data behind, and a connect that is in
\* progress answers EINPROGRESS; without O_NONBLOCK it blocks the thread.
Try ==
    /\ pc = "try"
    /\ \/ /\ sock = 0
          /\ Return("EBADF") /\ UNCHANGED ready
       \/ /\ sock # 0 /\ ready
          /\ Return("done")
          /\ ready' \in (IF kind = "io" THEN BOOLEAN ELSE {TRUE})
       \/ /\ sock # 0 /\ ~ready /\ nonblock
          /\ pc' = "timer" /\ UNCHANGED <<result, ready>>
    /\ UNCHANGED <<sock, opens, nonblock, closer, ctxVars, kind, call, try, own,
                   to, cancelled, timerVars, eventVars>>

\* addCondTimer, or the addTimer of sleep.
AddTimer ==
    /\ pc = "timer"
    /\ timers' = IF to THEN timers \cup {<<call, try>>} ELSE timers
    /\ pc' = IF kind = "sleep" THEN "yield" ELSE "event"
    /\ UNCHANGED <<sockVars, ctxVars, kind, call, try, own, to, cancelled, result,
                   cbs, expired, eventVars>>

\* Mutant: the fiber yields without having registered its event.
AddEventForgotten ==
    /\ pc = "event"
    /\ pc' = "yield"
    /\ UNCHANGED <<sockVars, ctxVars, kind, call, try, own, to, cancelled, result,
                   timerVars, eventVars>>

\* addEvent, after which the fiber can be woken.  epoll_ctl fails on a closed descriptor: do_io
\* then cancels its timer and returns -1, connect asks for SO_ERROR.
AddEvent ==
    /\ pc = "event"
    /\ \/ /\ sock # 0
          /\ event' = TRUE /\ watched' = sock
          /\ pc' = "yield" /\ UNCHANGED <<result, timers>>
       \/ /\ sock = 0
          /\ timers' = timers \ {<<call, try>>}
          /\ Return("error") /\ UNCHANGED <<event, watched>>
    /\ UNCHANGED <<sockVars, ctxVars, kind, call, try, own, to, cancelled, cbs,
                   expired, reported, runnable>>

\* Fiber::YieldToHold.  What wakes the fiber may have come before: run() then
\* skips it in the list for as long as it is in EXEC.
YieldToHold ==
    /\ pc = "yield"
    /\ pc' = "wait"
    /\ UNCHANGED <<sockVars, ctxVars, kind, call, try, own, to, cancelled, result,
                   timerVars, eventVars>>

\* The scheduler resumes the fiber behind YieldToHold.
Resume ==
    /\ pc = "wait" /\ runnable > 0
    /\ runnable' = runnable - 1
    /\ pc' = "woken"
    /\ UNCHANGED <<sockVars, ctxVars, kind, call, try, own, to, cancelled, result,
                   timerVars, event, watched, reported>>

\* Mutant: the timer stays when the event has come first.
CancelTimerForgotten ==
    /\ pc = "woken"
    /\ pc' = "check"
    /\ UNCHANGED <<sockVars, ctxVars, kind, call, try, own, to, cancelled, result,
                   timerVars, eventVars>>

\* timer->cancel()
CancelTimer ==
    /\ pc = "woken"
    /\ timers' = timers \ {<<call, try>>}
    /\ pc' = "check"
    /\ UNCHANGED <<sockVars, ctxVars, kind, call, try, own, to, cancelled, result,
                   cbs, expired, eventVars>>

\* if(tcond->cancelled), else goto retry; connect asks for SO_ERROR instead.
Check ==
    /\ pc = "check"
    /\ \/ cancelled /\ Return("ETIMEDOUT") /\ UNCHANGED try
       \/ ~cancelled /\ kind # "io" /\ Return("done") /\ UNCHANGED try
       \/ ~cancelled /\ kind = "io" /\ pc' = "try" /\ try' = try + 1 /\ UNCHANGED result
    /\ UNCHANGED <<sockVars, ctxVars, kind, call, own, to, cancelled, timerVars,
                   eventVars>>

-----------------------------------------------------------------------------
(* What wakes the fiber *)

\* listExpiredCbs takes the timer out of the set and schedules its callback.
Expire(c, n) ==
    /\ <<c, n>> \in timers
    /\ timers' = timers \ {<<c, n>>}
    /\ cbs' = cbs \cup {<<c, n, "listed">>}
    /\ expired' = expired \cup {c}
    /\ UNCHANGED <<sockVars, ctxVars, callVars, eventVars>>

\* Mutant: the condition of call c is not looked at.
CondHoldsAlways(c) == ~cancelled

\* The callback's condition: tcond of call c still exists and is not set.
CondHolds(c) == c = call /\ pc # "out" /\ ~cancelled

\* The timer callback, first part: test wcond and set cancelled; the callback
\* of sleep has no condition and schedules the fiber.
CallbackTest(c, n) ==
    /\ <<c, n, "listed">> \in cbs
    /\ \/ /\ c = call /\ kind = "sleep"
          /\ cbs' = cbs \ {<<c, n, "listed">>}
          /\ runnable' = runnable + 1 /\ UNCHANGED cancelled
       \/ /\ ~(c = call /\ kind = "sleep") /\ CondHolds(c)
          /\ cbs' = (cbs \ {<<c, n, "listed">>}) \cup {<<c, n, "cancel">>}
          /\ cancelled' = TRUE /\ UNCHANGED runnable
       \/ /\ ~(c = call /\ kind = "sleep") /\ ~CondHolds(c)
          /\ cbs' = cbs \ {<<c, n, "listed">>}
          /\ UNCHANGED <<cancelled, runnable>>
    /\ UNCHANGED <<sockVars, ctxVars, pc, kind, call, try, own, to, result, timers,
                   expired, event, watched, reported>>

\* Mutant: the event is triggered and stays registered.
TriggerKeeps ==
    /\ runnable' = IF event THEN runnable + 1 ELSE runnable
    /\ UNCHANGED <<event, watched>>

\* The event is taken out of the FdContext and the fiber scheduled, if it is
\* registered; epoll_ctl fails, and nothing happens, once the socket is gone.
Trigger ==
    IF event /\ watched = sock
    THEN event' = FALSE /\ watched' = 0 /\ runnable' = runnable + 1
    ELSE UNCHANGED <<event, watched, runnable>>

\* The timer callback, second part: cancelEvent.
CallbackCancel(c, n) ==
    /\ <<c, n, "cancel">> \in cbs
    /\ cbs' = cbs \ {<<c, n, "cancel">>}
    /\ Trigger
    /\ UNCHANGED <<sockVars, ctxVars, callVars, timers, expired, reported>>

\* epoll_wait returns the descriptor to the idle thread.
Report ==
    /\ ~reported /\ event /\ watched = sock /\ ready
    /\ reported' = TRUE
    /\ UNCHANGED <<sockVars, ctxVars, callVars, timerVars, event, watched, runnable>>

\* The idle thread dispatches the entry.
Dispatch ==
    /\ reported
    /\ reported' = FALSE
    /\ Trigger
    /\ UNCHANGED <<sockVars, ctxVars, callVars, timerVars>>

-----------------------------------------------------------------------------
(* The descriptor: socket(), close(), options and the peer *)

\* socket(): the kernel's part; the next free descriptor is the same number.
Open ==
    /\ closer = "none" /\ sock = 0 /\ opens < MaxOpens
    /\ sock' = opens + 1 /\ opens' = opens + 1
    /\ ready' = FALSE /\ nonblock' = FALSE
    /\ closer' = "create"
    /\ UNCHANGED <<ctxVars, callVars, timerVars, eventVars>>

\* FdManager::get(fd, true): a new FdCtx, whose init() sets O_NONBLOCK.
CreateCtx ==
    /\ closer = "create"
    /\ closer' = "none"
    /\ hasCtx' = TRUE /\ nonblock' = TRUE
    /\ m_userNonblock' = FALSE /\ m_hasTimeout' = FALSE
    /\ UNCHANGED <<sock, opens, ready, opts, callVars, timerVars, eventVars>>

\* close(): cancelAll ...
CloseCancel ==
    /\ closer = "none" /\ sock # 0
    /\ closer' = "del"
    /\ Trigger
    /\ UNCHANGED <<sock, opens, ready, nonblock, ctxVars, callVars, timerVars, reported>>

\* ... FdManager::del ...
CloseDel ==
    /\ closer = "del"
    /\ closer' = "close"
    /\ hasCtx' = FALSE
    /\ UNCHANGED <<sock, opens, ready, nonblock, m_userNonblock, m_hasTimeout, opts,
                   callVars, timerVars, eventVars>>

\* ... and close_f, after which epoll has forgotten the descriptor.
Close ==
    /\ closer = "close"
    /\ closer' = "none"
    /\ sock' = 0 /\ ready' = FALSE /\ nonblock' = FALSE
    /\ UNCHANGED <<opens, ctxVars, callVars, timerVars, eventVars>>

\* setsockopt(SO_RCVTIMEO or SO_SNDTIMEO)
SetTimeout ==
    /\ hasCtx /\ opts < MaxOpts
    /\ opts' = opts + 1
    /\ m_hasTimeout' = TRUE
    /\ UNCHANGED <<sockVars, hasCtx, m_userNonblock, callVars, timerVars, eventVars>>

\* fcntl(F_SETFL): the user's flag is kept apart from the kernel's, which is
\* O_NONBLOCK for a socket with an FdCtx.
SetFl(flag) ==
    /\ hasCtx /\ opts < MaxOpts
    /\ opts' = opts + 1
    /\ m_userNonblock' = flag
    /\ nonblock' = TRUE
    /\ UNCHANGED <<sock, opens, ready, closer, hasCtx, m_hasTimeout, callVars,
                   timerVars, eventVars>>

\* ioctl(FIONBIO): the kernel gets the user's flag as it is.
Ioctl(flag) ==
    /\ hasCtx /\ opts < MaxOpts
    /\ opts' = opts + 1
    /\ m_userNonblock' = flag
    /\ nonblock' = flag
    /\ UNCHANGED <<sock, opens, ready, closer, hasCtx, m_hasTimeout, callVars,
                   timerVars, eventVars>>

\* The peer sends, or the connection is established.
Peer ==
    /\ sock # 0 /\ ~ready
    /\ ready' = TRUE
    /\ UNCHANGED <<sock, opens, nonblock, closer, ctxVars, callVars, timerVars, eventVars>>

-----------------------------------------------------------------------------
FiberStep ==
    \/ \E k \in Kinds : Begin(k)
    \/ Try
    \/ AddTimer
    \/ AddEvent
    \/ YieldToHold
    \/ Resume
    \/ CancelTimer
    \/ Check

CallbackStep ==
    \E b \in cbs : CallbackTest(b[1], b[2]) \/ CallbackCancel(b[1], b[2])

CloserStep == CreateCtx \/ CloseDel \/ Close

OptionStep ==
    \/ SetTimeout
    \/ \E flag \in BOOLEAN : SetFl(flag) \/ Ioctl(flag)

Next ==
    \/ FiberStep
    \/ \E t \in timers : Expire(t[1], t[2])
    \/ CallbackStep
    \/ Report
    \/ Dispatch
    \/ Open \/ CloseCancel \/ CloserStep
    \/ OptionStep
    \/ Peer

Spec == Init /\ [][Next]_vars

\* Threads keep running, time passes, so that timers expire, and an idle thread
\* is there to call epoll_wait; the peer and the user need not do anything.
Fairness ==
    /\ WF_vars(FiberStep /\ pc # "out")
    /\ WF_vars(\E t \in timers : Expire(t[1], t[2]))
    /\ WF_vars(CallbackStep)
    /\ WF_vars(Report)
    /\ WF_vars(Dispatch)
    /\ WF_vars(CloserStep)

FairSpec == Spec /\ Fairness

-----------------------------------------------------------------------------
(* Properties *)

\* The event, the timer's cancelEvent and close() can all fire for one wait:
\* the fiber is scheduled once, and only between its addEvent (a sleep's
\* addTimer) and its return from YieldToHold.
WokenOnce ==
    /\ runnable <= 1
    /\ runnable = 1 \/ event => pc \in {"yield", "wait"}
    /\ ~(runnable = 1 /\ event)

\* A call that has returned, on whatever path, has left no timer and no event
\* behind: IOManager::stopping waits for both.
NothingLeftBehind == pc = "out" => timers = {} /\ ~event /\ runnable = 0

\* ETIMEDOUT is the answer of a call whose own timer expired, never the work of
\* a callback that was already listed when an earlier call returned.
TimeoutIsOwn == result = "ETIMEDOUT" /\ pc = "out" => call \in expired

\* A socket that becomes ready while a call waits for it ends the call, even if
\* that happens between EAGAIN and addEvent.
ReadyEndsCall ==
    (pc # "out" /\ kind # "sleep" /\ own = sock /\ ready)
        ~> (pc = "out" \/ own # sock)

\* hook.cc, do_io: a call with a timeout on an open socket is woken by the event
\* or by the timer.
TimedCallReturns == (pc # "out" /\ to /\ own = sock) ~> (pc = "out" \/ own # sock)
=============================================================================
