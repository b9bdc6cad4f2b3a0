----------------------------- MODULE IdleThreads -----------------------------
(***************************************************************************)
(* windgent/iomanager.cc: how the threads of an IOManager fall asleep in   *)
(* idle() and are woken.  Scheduler.tla has the details of run() and of    *)
(* the fibers, IOEvents.tla those of one descriptor, TimerManager.tla      *)
(* those of the timers; here they meet: the list, the timers, the events   *)
(* and the tickle pipe are four reasons to wake up, and stopping() reads   *)
(* them one after the other.                                               *)
(*                                                                         *)
(* A task is a function that runs once, and may yield READY on its way.    *)
(* It may hand other tasks to schedule(), addTimer() or addEvent(); what   *)
(* it does behind a call that waits is such a task.  The order of the list *)
(* is left open, and so is which timer is first.                           *)
(***************************************************************************)
EXTENDS Naturals, FiniteSets

CONSTANTS
    Workers,      \* the threads that execute Scheduler::run
    Main,         \* the program's thread, which schedules tasks and stops
    Tasks,        \* functions
    Submitted,    \* those the program's thread hands to schedule()
    Arming,       \* those that hand others to schedule, addTimer or addEvent
    Far,          \* those a timer runs 2^31 .. 2^32 ms from now: never, here
    MaxYields,    \* bound: calls of YieldToReady
    Pipe          \* m_tickleFds[0], among what epoll_wait reports

Threads == Workers \cup {Main}

ASSUME ThreadsAssumption == IsFiniteSet(Workers) /\ Workers # {} /\ Main \notin Workers
ASSUME YieldsAssumption == MaxYields \in Nat
ASSUME TasksAssumption == /\ Submitted \cup Arming \cup Far \subseteq Tasks
                          /\ Pipe \notin Tasks

VARIABLES
    pc,           \* per thread: its place in run() and idle(), or in the program
    tickles,      \* per thread: how often it is about to call tickle()
    task,         \* per worker: the task it runs, else Pipe
    next_timeout, \* per worker: what getTimeOfNextTimer returned
    got,          \* per worker: what epoll_wait reported and is not yet handled
    held,         \* per worker: callbacks of expired timers (cbs)
    idleTerm,     \* workers whose idle fiber has ended
    m_fibers,     \* the list
    m_timers, due,    \* tasks with a timer, and those whose time has come
    m_tickled,
    m_events, ready,  \* tasks with an event, and those in epoll's ready list
    pipe, edge,   \* is the pipe readable, and is that in the ready list?
    fresh,        \* tasks nobody has handed over
    finished,     \* tasks that have run
    yields        \* calls of YieldToReady so far

waitVars == <<next_timeout, got, held>>
timerVars == <<m_timers, due, m_tickled>>
eventVars == <<m_events, ready>>
pipeVars == <<pipe, edge>>
vars == <<pc, tickles, task, next_timeout, got, held, idleTerm, m_fibers, m_timers,
          due, m_tickled, m_events, ready, pipe, edge, fresh, finished, yields>>

\* Places inside idle(), where a thread counts in m_idleThreadCount, and places
\* with a task, where it counts in m_activeThreadCount.
IdlePCs == {"timers", "events", "lists", "wait", "expired", "push", "handle"}
ActivePCs == {"body", "back"}
PCs == IdlePCs \cup ActivePCs \cup {"fetch", "ready", "noTask", "exit"}
MainPCs == {"running", "join", "stopped"}

m_idleThreadCount == Cardinality({t \in Workers : pc[t] \in IdlePCs})
m_activeThreadCount == Cardinality({t \in Workers : pc[t] \in ActivePCs})

TypeOK ==
    /\ pc \in [Threads -> PCs \cup MainPCs]
    /\ tickles \in [Threads -> Nat]
    /\ task \in [Workers -> Tasks \cup {Pipe}]
    /\ next_timeout \in [Workers -> {"none", "some", "far"}]
    /\ got \in [Workers -> SUBSET (Tasks \cup {Pipe})]
    /\ held \in [Workers -> SUBSET Tasks]
    /\ idleTerm \subseteq Workers
    /\ m_fibers \subseteq Tasks
    /\ m_timers \subseteq Tasks /\ due \subseteq m_timers /\ m_tickled \in BOOLEAN
    /\ m_events \subseteq Tasks /\ ready \subseteq m_events
    /\ pipe \in BOOLEAN /\ edge \in BOOLEAN
    /\ fresh \subseteq Tasks /\ finished \subseteq Tasks /\ yields \in 0..MaxYields

Init ==
    /\ pc = [t \in Threads |-> IF t = Main THEN "running" ELSE "fetch"]
    /\ tickles = [t \in Threads |-> 0]
    /\ task = [t \in Workers |-> Pipe]
    /\ next_timeout = [t \in Workers |-> "none"]
    /\ got = [t \in Workers |-> {}]
    /\ held = [t \in Workers |-> {}]
    /\ idleTerm = {}
    /\ m_fibers = {}
    /\ m_timers = {} /\ due = {} /\ m_tickled = FALSE
    /\ m_events = {} /\ ready = {}
    /\ pipe = FALSE /\ edge = FALSE
    /\ fresh = Tasks /\ finished = {} /\ yields = 0

\* Thread t is at this place and has no tickle() to call first.
At(t, place) == pc[t] = place /\ tickles[t] = 0
Go(t, place) == pc' = [pc EXCEPT ![t] = place]

-----------------------------------------------------------------------------
(* schedule and tickle *)

\* schedule(): under the lock the tasks are added; tickle() comes after it, if
\* the list was empty.
Push(t, cs) ==
    /\ m_fibers' = m_fibers \cup cs
    /\ tickles' = [tickles EXCEPT ![t] = IF m_fibers = {} THEN 1 ELSE 0]

\* IOManager::tickle: nothing without idle threads, else a byte into the pipe,
\* which is registered with EPOLLET: every write is an edge.
Tickle(t) ==
    /\ tickles[t] > 0
    /\ tickles' = [tickles EXCEPT ![t] = @ - 1]
    /\ IF m_idleThreadCount > 0 THEN pipe' = TRUE /\ edge' = TRUE ELSE UNCHANGED pipeVars
    /\ UNCHANGED <<pc, task, waitVars, idleTerm, m_fibers, timerVars, eventVars,
                   fresh, finished, yields>>

-----------------------------------------------------------------------------
(* The program's thread *)

Submit(c) ==
    /\ At(Main, "running")
    /\ c \in fresh \cap Submitted
    /\ fresh' = fresh \ {c}
    /\ Push(Main, {c})
    /\ UNCHANGED <<pc, task, waitVars, idleTerm, timerVars, eventVars, pipeVars,
                   finished, yields>>

\* Scheduler::stop: the flags, then one tickle for each thread.
Stop ==
    /\ At(Main, "running")
    /\ Go(Main, "join")
    /\ tickles' = [tickles EXCEPT ![Main] = Cardinality(Workers)]
    /\ UNCHANGED <<task, waitVars, idleTerm, m_fibers, timerVars, eventVars,
                   pipeVars, fresh, finished, yields>>

\* stop: every thread has been joined.
Join ==
    /\ At(Main, "join")
    /\ \A t \in Workers : pc[t] = "exit"
    /\ Go(Main, "stopped")
    /\ UNCHANGED <<tickles, task, waitVars, idleTerm, m_fibers, timerVars, eventVars,
                   pipeVars, fresh, finished, yields>>

-----------------------------------------------------------------------------
(* Scheduler::run *)

\* run: a task is taken, and tickle() called if the list has more of them.
Fetch(t, c) ==
    /\ At(t, "fetch")
    /\ c \in m_fibers
    /\ m_fibers' = m_fibers \ {c}
    /\ task' = [task EXCEPT ![t] = c]
    /\ tickles' = [tickles EXCEPT ![t] = IF m_fibers = {c} THEN 0 ELSE 1]
    /\ Go(t, "body")
    /\ UNCHANGED <<waitVars, idleTerm, timerVars, eventVars, pipeVars, fresh, finished, yields>>

\* Mutant: a thread whose idle fiber has ended leaves the list alone.
FetchNothingIfTerm(t) ==
    /\ At(t, "fetch")
    /\ m_fibers = {} \/ t \in idleTerm
    /\ Go(t, "noTask")
    /\ UNCHANGED <<tickles, task, waitVars, idleTerm, m_fibers, timerVars, eventVars,
                   pipeVars, fresh, finished, yields>>

\* run: the list is empty.  Not before NoTask does the thread count as idle.
FetchNothing(t) ==
    /\ At(t, "fetch")
    /\ m_fibers = {}
    /\ Go(t, "noTask")
    /\ UNCHANGED <<tickles, task, waitVars, idleTerm, m_fibers, timerVars, eventVars,
                   pipeVars, fresh, finished, yields>>

\* The running task schedules another one.
Spawn(t, c) ==
    /\ Push(t, {c})
    /\ UNCHANGED <<timerVars, eventVars>>

\* addTimer: onTimerInsertedAtFront calls tickle(), once until the next idle
\* thread asks for the time of the first timer.
AddTimer(t, c) ==
    \E front \in BOOLEAN :
        /\ m_timers = {} => front
        /\ m_timers' = m_timers \cup {c}
        /\ tickles' = [tickles EXCEPT ![t] = IF front /\ ~m_tickled THEN 1 ELSE 0]
        /\ m_tickled' = (front \/ m_tickled)
        /\ UNCHANGED <<m_fibers, due, eventVars>>

\* addEvent: ++m_pendingEventCount.
AddEvent(t, c) ==
    /\ m_events' = m_events \cup {c}
    /\ UNCHANGED <<tickles, m_fibers, timerVars, ready>>

\* The running task gives another one away.
Body(t, c) ==
    /\ At(t, "body")
    /\ task[t] \in Arming
    /\ c \in fresh \ Submitted
    /\ fresh' = fresh \ {c}
    /\ \/ AddTimer(t, c)
       \/ c \notin Far /\ Spawn(t, c)
       \/ c \notin Far /\ AddEvent(t, c)
    /\ UNCHANGED <<pc, task, waitVars, idleTerm, pipeVars, finished, yields>>

\* Fiber::YieldToReady in the running task.
YieldToReady(t) ==
    /\ At(t, "body")
    /\ yields < MaxYields
    /\ yields' = yields + 1
    /\ Go(t, "back")
    /\ UNCHANGED <<tickles, task, waitVars, idleTerm, m_fibers, timerVars, eventVars,
                   pipeVars, fresh, finished>>

\* The task's function has returned.
Return(t) ==
    /\ At(t, "body")
    /\ finished' = finished \cup {task[t]}
    /\ task' = [task EXCEPT ![t] = Pipe]
    /\ Go(t, "back")
    /\ UNCHANGED <<tickles, waitVars, idleTerm, m_fibers, timerVars, eventVars,
                   pipeVars, fresh, yields>>

\* run: --m_activeThreadCount, also when the task is READY and not yet back in
\* the list.
Deactivate(t) ==
    /\ At(t, "back")
    /\ Go(t, IF task[t] = Pipe THEN "fetch" ELSE "ready")
    /\ UNCHANGED <<tickles, task, waitVars, idleTerm, m_fibers, timerVars, eventVars,
                   pipeVars, fresh, finished, yields>>

\* run: a task that is READY is scheduled again.
Reschedule(t) ==
    /\ At(t, "ready")
    /\ Push(t, {task[t]})
    /\ task' = [task EXCEPT ![t] = Pipe]
    /\ Go(t, "fetch")
    /\ UNCHANGED <<waitVars, idleTerm, timerVars, eventVars, pipeVars, fresh, finished,
                   yields>>

\* run: the thread leaves if its idle fiber has ended, else ++m_idleThreadCount
\* and the idle fiber is resumed.
NoTask(t) ==
    /\ At(t, "noTask")
    /\ Go(t, IF t \in idleTerm THEN "exit" ELSE "timers")
    /\ UNCHANGED <<tickles, task, waitVars, idleTerm, m_fibers, timerVars, eventVars,
                   pipeVars, fresh, finished, yields>>

-----------------------------------------------------------------------------
(* IOManager::idle *)

\* stopping(), first read: getTimeOfNextTimer, which clears m_tickled unless it
\* finds no timer.
ReadTimers(t) ==
    /\ At(t, "timers")
    /\ next_timeout' = [next_timeout EXCEPT ![t] =
                           IF m_timers = {} THEN "none"
                           ELSE IF m_timers \subseteq Far THEN "far" ELSE "some"]
    /\ m_tickled' = (m_tickled /\ m_timers = {})
    /\ Go(t, IF m_timers = {} THEN "events" ELSE "wait")
    /\ UNCHANGED <<tickles, task, got, held, idleTerm, m_fibers, m_timers, due,
                   eventVars, pipeVars, fresh, finished, yields>>

\* stopping(), second read: m_pendingEventCount.
ReadEvents(t) ==
    /\ At(t, "events")
    /\ Go(t, IF m_events = {} THEN "lists" ELSE "wait")
    /\ UNCHANGED <<tickles, task, waitVars, idleTerm, m_fibers, timerVars, eventVars,
                   pipeVars, fresh, finished, yields>>

\* Scheduler::stopping, under m_mtx.
Stopping ==
    /\ pc[Main] # "running"
    /\ m_fibers = {}
    /\ m_activeThreadCount = 0

\* stopping(), third read: all three hold, and idle() ends.
ReadLists(t) ==
    /\ At(t, "lists")
    /\ idleTerm' = IF Stopping THEN idleTerm \cup {t} ELSE idleTerm
    /\ Go(t, IF Stopping THEN "fetch" ELSE "wait")
    /\ UNCHANGED <<tickles, task, waitVars, m_fibers, timerVars, eventVars, pipeVars,
                   fresh, finished, yields>>

\* Mutant: without a timer epoll_wait has no limit.
TimesOutForTimers(t) == next_timeout[t] = "some"

\* idle: the limit of 3000 ms, taken after the cast to int.  A first timer 2^31 ms
\* away is negative there, and epoll_wait waits for ever.
TimesOut(t) == next_timeout[t] # "far"

\* epoll_wait: everything in the ready list that is still readable, or the limit.
EpollWait(t) ==
    LET reported == ready \cup (IF edge /\ pipe THEN {Pipe} ELSE {}) IN
    /\ At(t, "wait")
    /\ reported # {} \/ TimesOut(t)
    /\ got' = [got EXCEPT ![t] = reported]
    /\ ready' = {} /\ edge' = FALSE
    /\ next_timeout' = [next_timeout EXCEPT ![t] = "none"]
    /\ Go(t, "expired")
    /\ UNCHANGED <<tickles, task, held, idleTerm, m_fibers, timerVars,
                   m_events, pipe, fresh, finished, yields>>

\* idle: listExpiredCbs takes the due timers out of the set.
ListExpired(t) ==
    /\ At(t, "expired")
    /\ held' = [held EXCEPT ![t] = due]
    /\ m_timers' = m_timers \ due
    /\ due' = {}
    /\ Go(t, IF due = {} THEN "handle" ELSE "push")
    /\ UNCHANGED <<tickles, task, next_timeout, got, idleTerm, m_fibers, m_tickled,
                   eventVars, pipeVars, fresh, finished, yields>>

\* Mutant: the callbacks are cleared before they are scheduled.
DropExpired(t) ==
    /\ At(t, "push")
    /\ held' = [held EXCEPT ![t] = {}]
    /\ Go(t, "handle")
    /\ UNCHANGED <<tickles, m_fibers, task, next_timeout, got, idleTerm, timerVars,
                   eventVars, pipeVars, fresh, finished, yields>>

\* idle: schedule(cbs.begin(), cbs.end()).
PushExpired(t) ==
    /\ At(t, "push")
    /\ Push(t, held[t])
    /\ held' = [held EXCEPT ![t] = {}]
    /\ Go(t, "handle")
    /\ UNCHANGED <<task, next_timeout, got, idleTerm, timerVars, eventVars, pipeVars,
                   fresh, finished, yields>>

\* idle: one of the reported descriptors; the pipe is read until it is empty, an
\* event is triggered and --m_pendingEventCount.
Handle(t, e) ==
    /\ At(t, "handle")
    /\ e \in got[t]
    /\ got' = [got EXCEPT ![t] = @ \ {e}]
    /\ IF e = Pipe
       THEN pipe' = FALSE /\ UNCHANGED <<tickles, m_fibers, m_events>>
       ELSE Push(t, {e}) /\ m_events' = m_events \ {e} /\ UNCHANGED pipe
    /\ UNCHANGED <<pc, task, next_timeout, held, idleTerm, timerVars, ready, edge,
                   fresh, finished, yields>>

\* idle: swapOut when all of them are handled; run: --m_idleThreadCount.
LeaveIdle(t) ==
    /\ At(t, "handle")
    /\ got[t] = {}
    /\ Go(t, "fetch")
    /\ UNCHANGED <<tickles, task, waitVars, idleTerm, m_fibers, timerVars, eventVars,
                   pipeVars, fresh, finished, yields>>

-----------------------------------------------------------------------------
(* Time and peers *)

\* The time of a timer has come.
Expire(c) ==
    /\ c \in m_timers \ (due \cup Far)
    /\ due' = due \cup {c}
    /\ UNCHANGED <<pc, tickles, task, waitVars, idleTerm, m_fibers, m_timers,
                   m_tickled, eventVars, pipeVars, fresh, finished, yields>>

\* The descriptor of an event becomes readable.
Arrive(c) ==
    /\ c \in m_events \ ready
    /\ \A t \in Workers : c \notin got[t]
    /\ ready' = ready \cup {c}
    /\ UNCHANGED <<pc, tickles, task, waitVars, idleTerm, m_fibers, timerVars,
                   m_events, pipeVars, fresh, finished, yields>>

WorkerStep(t) ==
    \/ \E c \in Tasks : Fetch(t, c) \/ Body(t, c)
    \/ FetchNothing(t) \/ YieldToReady(t) \/ Return(t) \/ Deactivate(t) \/ Reschedule(t)
    \/ NoTask(t)
    \/ ReadTimers(t) \/ ReadEvents(t) \/ ReadLists(t)
    \/ EpollWait(t) \/ ListExpired(t) \/ PushExpired(t)
    \/ \E e \in Tasks \cup {Pipe} : Handle(t, e)
    \/ LeaveIdle(t)

Next ==
    \/ \E c \in Tasks : Submit(c) \/ Expire(c) \/ Arrive(c)
    \/ Stop \/ Join
    \/ \E t \in Threads : Tickle(t)
    \/ \E t \in Workers : WorkerStep(t)

Spec == Init /\ [][Next]_vars

\* Threads keep running and stop() gets on.  Timers expire and what the program
\* waits for arrives: stop() is meant to wait for both.
Fairness ==
    /\ \A t \in Threads : WF_vars(Tickle(t))
    /\ \A t \in Workers : WF_vars(WorkerStep(t))
    /\ WF_vars(Join)
    /\ \A c \in Tasks : WF_vars(Expire(c)) /\ WF_vars(Arrive(c))

FairSpec == Spec /\ Fairness

-----------------------------------------------------------------------------
(* Properties *)

\* Worker t has the task c: in cbs, or fetched and neither finished nor back in the
\* list.
Running(t, c) == pc[t] \in {"body", "back", "ready"} /\ task[t] = c
Has(t, c) == c \in held[t] \/ Running(t, c)

\* Every place that can bring an unfinished task to run.
Places(c) ==
    {p \in {"list", "timer", "event"} :
        \/ p = "list" /\ c \in m_fibers
        \/ p = "timer" /\ c \in m_timers
        \/ p = "event" /\ c \in m_events}
    \cup {t \in Workers : Has(t, c)}

\* A task that has been handed over is in exactly one place until it has run: no
\* hand-over between timers, events, list and threads drops or doubles it.
TaskInOnePlace ==
    \A c \in Tasks \ fresh :
        Cardinality(Places(c)) = IF c \in finished THEN 0 ELSE 1

\* stop() returns when everything that was handed to the scheduler, to a timer or
\* to an event has run, although stopping() reads the timers, the events and the
\* list one after the other.
StopIsGraceful == pc[Main] = "stopped" => Tasks \ fresh \subseteq finished

\* Whatever tasks do and however many threads leave early, stop() returns with an
\* empty list: a task that has not run then still waits for its timer or its event.
\* A thread that has seen stopping() hold empties the list once more, and one that
\* is about to schedule something has not left.
StopDrainsList ==
    pc[Main] = "stopped" => Tasks \ fresh \subseteq finished \cup m_timers \cup m_events

\* stop() returns: a thread that missed its tickle wakes after 3000 ms.
StopReturns == pc[Main] = "join" ~> pc[Main] = "stopped"

\* Every task that was handed over runs, although schedule() may find no idle
\* thread to tickle just before all of them go to sleep; but for those that wait for
\* a timer or an event when the last thread leaves (StopIsGraceful).
EveryTaskRuns ==
    \A c \in Tasks \ Far :
        c \notin fresh ~> \/ c \in finished
                          \/ pc[Main] = "stopped" /\ c \in m_timers \cup m_events
=============================================================================
