----------------------------- MODULE Scheduler -----------------------------
(***************************************************************************)
(* windgent/scheduler.{h,cc} and fiber.{h,cc}: the N:M scheduler.  Worker  *)
(* threads, and with use_caller the thread that called stop(), run         *)
(* Scheduler::run: they take tasks (a Fiber or a callback) from one locked *)
(* list, resume them until they yield or end, and put them back if READY.  *)
(*                                                                         *)
(* A step is one critical section of m_mtx, or one access to a field that  *)
(* is written without it (Fiber::m_state, m_activeThreadCount, m_stopping).*)
(* A Fiber object is named after the task it was created for; cb_fiber     *)
(* objects are reused, so m_cb says which task a fiber runs now.           *)
(***************************************************************************)
EXTENDS Integers, Sequences, FiniteSets

CONSTANTS
    Workers,      \* the threads start() creates
    RootThreads,  \* the caller's thread if use_caller, else the empty set
    Tasks,        \* functions the program hands to schedule()
    Twice,        \* those it may hand over a second time, as a Fiber
    Pins,         \* values it passes for the thread argument of schedule()
    UserOps,      \* what the tasks do besides returning (see Body below)
    MaxYields,    \* bound: how often one task yields
    MaxStarts,    \* bound: how often start() is called
    AnyThread,    \* thread argument -1
    None          \* a null Fiber::ptr or std::function

Threads == Workers \cup RootThreads

ASSUME ThreadsAssumption ==
    /\ IsFiniteSet(Threads) /\ Workers \cap RootThreads = {}
    /\ \A r, s \in RootThreads : r = s
    /\ Threads # {}
    /\ AnyThread \notin Threads /\ Pins \subseteq Threads \cup {AnyThread}
ASSUME TasksAssumption == None \notin Tasks /\ Twice \subseteq Tasks
ASSUME BoundsAssumption == MaxYields \in Nat /\ MaxStarts \in Nat

VARIABLES
    main,         \* where the program is in start() and stop()
    starts,       \* how often start() was called
    m_stopping, m_autostop, m_fibers, m_activeThreadCount,
    rootState,    \* m_state of m_rootFiber
    pc,           \* per thread: place in Scheduler::run
    ft,           \* per thread: the FiberAndThread taken from the list
    cur,          \* per thread: the fiber whose stack it executes on
    cb_fiber,     \* per thread: the spare fiber for callbacks
    idleTerm,     \* per thread: is its idle fiber TERM?
    m_state, m_cb,  \* per fiber: Fiber::m_state and m_cb
    armed,        \* fibers some other party will schedule again
    submitted,    \* tasks handed to schedule()
    finished,     \* per task: how often its function returned or threw
    yields,       \* per task: how often it yielded
    failed        \* has an ASSERT of fiber.cc failed?

schedVars == <<m_stopping, m_autostop, m_fibers, m_activeThreadCount>>
mainVars == <<main, starts, rootState>>
threadVars == <<pc, ft, cur, cb_fiber, idleTerm>>
fiberVars == <<m_state, m_cb>>
taskVars == <<armed, submitted, finished, yields>>
vars == <<main, starts, rootState, m_stopping, m_autostop, m_fibers,
          m_activeThreadCount, pc, ft, cur, cb_fiber, idleTerm, m_state, m_cb,
          armed, submitted, finished, yields, failed>>

\* Fiber::State, and "none" before the constructor.
States == {"none", "INIT", "HOLD", "EXEC", "TERM", "READY", "EXCEPT"}
Ended == {"TERM", "EXCEPT"}
PCs == {"off", "fetch", "dispatch", "resume", "body", "armed", "switch", "back",
        "settle", "hold", "noTask", "idle", "exit"}
MainPCs == {"new", "running", "callRoot", "inRoot", "join", "stopped"}

\* FiberAndThread; Empty is ft after reset().
Empty == [fiber |-> None, cb |-> None, thd |-> AnyThread]
FiberItem(f, thd) == [fiber |-> f, cb |-> None, thd |-> thd]
CbItem(c, thd) == [fiber |-> None, cb |-> c, thd |-> thd]
Items == [fiber : Tasks \cup {None}, cb : Tasks \cup {None},
          thd : Threads \cup {AnyThread}]

TypeOK ==
    /\ main \in MainPCs /\ starts \in Nat
    /\ m_stopping \in BOOLEAN /\ m_autostop \in BOOLEAN
    /\ m_fibers \in Seq(Items)
    /\ m_activeThreadCount \in Nat
    /\ rootState \in States
    /\ pc \in [Threads -> PCs]
    /\ ft \in [Threads -> Items]
    /\ cur \in [Threads -> Tasks \cup {None}]
    /\ cb_fiber \in [Threads -> Tasks \cup {None}]
    /\ idleTerm \in [Threads -> BOOLEAN]
    /\ m_state \in [Tasks -> States]
    /\ m_cb \in [Tasks -> Tasks \cup {None}]
    /\ armed \subseteq Tasks /\ submitted \subseteq Tasks
    /\ finished \in [Tasks -> Nat] /\ yields \in [Tasks -> Nat]
    /\ failed \in BOOLEAN

Init ==
    /\ main = "new" /\ starts = 0 /\ rootState = "INIT"
    /\ m_stopping = TRUE /\ m_autostop = FALSE
    /\ m_fibers = <<>> /\ m_activeThreadCount = 0
    /\ pc = [t \in Threads |-> "off"]
    /\ ft = [t \in Threads |-> Empty]
    /\ cur = [t \in Threads |-> None]
    /\ cb_fiber = [t \in Threads |-> None]
    /\ idleTerm = [t \in Threads |-> FALSE]
    /\ m_state = [f \in Tasks |-> "none"]
    /\ m_cb = [f \in Tasks |-> None]
    /\ armed = {} /\ submitted = {}
    /\ finished = [c \in Tasks |-> 0]
    /\ yields = [c \in Tasks |-> 0]
    /\ failed = FALSE

\* After a failed assertion, or with two threads on one stack, the program has
\* no defined behaviour and the model stops.
Sane == ~failed /\ \A t, u \in Threads : cur[t] # None /\ cur[t] = cur[u] => t = u

\* Thread t is at this place of run(); the program is at one of these.
At(t, place) == Sane /\ pc[t] = place
MainAt(places) == Sane /\ main \in places

-----------------------------------------------------------------------------
(* The list of tasks *)

\* scheduleNoLock: tickle() of the plain Scheduler only logs.
Schedule(item) == m_fibers' = Append(m_fibers, item)

\* run: may thread t take this item of the list?
Eligible(t, item) ==
    /\ item.thd \in {AnyThread, t}
    /\ item.fiber # None => m_state[item.fiber] # "EXEC"

\* Scheduler::stopping.
Stopping == /\ m_stopping /\ m_autostop
            /\ m_fibers = <<>>
            /\ m_activeThreadCount = 0

\* m_fibers.erase(it)
Without(i) == [j \in 1..(Len(m_fibers) - 1) |->
                  IF j < i THEN m_fibers[j] ELSE m_fibers[j + 1]]

-----------------------------------------------------------------------------
(* The program's own thread *)

\* start(): ignored unless m_stopping; every run() has a new idle fiber.
Start ==
    /\ MainAt({"new", "stopped"})
    /\ starts < MaxStarts
    /\ m_stopping
    /\ main' = "running"
    /\ starts' = starts + 1
    /\ m_stopping' = FALSE
    /\ pc' = [t \in Threads |-> IF t \in Workers THEN "fetch" ELSE pc[t]]
    /\ idleTerm' = [t \in Threads |-> IF t \in Workers THEN FALSE ELSE idleTerm[t]]
    /\ cb_fiber' = [t \in Threads |-> IF t \in Workers THEN None ELSE cb_fiber[t]]
    /\ UNCHANGED <<m_autostop, m_fibers, m_activeThreadCount, rootState, ft, cur,
                   fiberVars, taskVars, failed>>

\* schedule(cb, thd) before or after start().
SubmitCb(c, thd) ==
    /\ MainAt({"new", "running"})
    /\ c \notin submitted
    /\ submitted' = submitted \cup {c}
    /\ Schedule(CbItem(c, thd))
    /\ UNCHANGED <<mainVars, m_stopping, m_autostop, m_activeThreadCount,
                   threadVars, fiberVars, armed, finished, yields, failed>>

\* schedule(fiber, thd) of a Fiber the program has constructed.
SubmitFiber(c, thd) ==
    /\ "fiber" \in UserOps
    /\ MainAt({"new", "running"})
    /\ c \notin submitted
    /\ submitted' = submitted \cup {c}
    /\ m_state' = [m_state EXCEPT ![c] = "INIT"]
    /\ m_cb' = [m_cb EXCEPT ![c] = c]
    /\ Schedule(FiberItem(c, thd))
    /\ UNCHANGED <<mainVars, m_stopping, m_autostop, m_activeThreadCount,
                   threadVars, armed, finished, yields, failed>>

\* The program schedules a Fiber it has scheduled before.
Resubmit(c) ==
    /\ c \in Twice
    /\ MainAt({"new", "running"})
    /\ c \in submitted /\ m_state[c] = "INIT" /\ m_cb[c] = c
    /\ \A i, j \in DOMAIN m_fibers : m_fibers[i].fiber = c /\ m_fibers[j].fiber = c => i = j
    /\ Schedule(FiberItem(c, AnyThread))
    /\ UNCHANGED <<mainVars, m_stopping, m_autostop, m_activeThreadCount,
                   threadVars, fiberVars, taskVars, failed>>

\* Whoever was given the fiber before it went on HOLD schedules it again.
Wake(f) ==
    /\ Sane /\ f \in armed
    /\ armed' = armed \ {f}
    /\ Schedule(FiberItem(f, AnyThread))
    /\ UNCHANGED <<mainVars, m_stopping, m_autostop, m_activeThreadCount,
                   threadVars, fiberVars, submitted, finished, yields, failed>>

\* stop(): up to the tickles.  Using only the caller's thread, it returns at
\* once when there is nothing to do.
BeginStop ==
    /\ MainAt({"running"})
    /\ m_stopping' = TRUE /\ m_autostop' = TRUE
    /\ main' = IF RootThreads = {} THEN "join"
               ELSE IF /\ Workers = {} /\ rootState \in {"INIT", "TERM"}
                       /\ m_fibers = <<>> /\ m_activeThreadCount = 0
                    THEN "stopped" ELSE "callRoot"
    /\ UNCHANGED <<starts, rootState, m_fibers, m_activeThreadCount, threadVars,
                   fiberVars, taskVars, failed>>

\* stop(): m_rootFiber->call() unless stopping().  Resuming a fiber that has
\* ended runs into the ASSERT2 behind back().
CallRoot(r) ==
    /\ MainAt({"callRoot"})
    /\ IF Stopping
       THEN main' = "join" /\ UNCHANGED <<pc, rootState, failed>>
       ELSE /\ main' = "inRoot"
            /\ rootState' = "EXEC"
            /\ failed' = (rootState = "TERM")
            /\ pc' = [pc EXCEPT ![r] = "fetch"]
    /\ UNCHANGED <<starts, schedVars, ft, cur, cb_fiber, idleTerm, fiberVars,
                   taskVars>>

\* CallerMainFunc: run() of the caller's thread has returned.
RootReturns(r) ==
    /\ MainAt({"inRoot"})
    /\ pc[r] = "exit"
    /\ main' = "join"
    /\ rootState' = "TERM"
    /\ UNCHANGED <<starts, schedVars, threadVars, fiberVars, taskVars, failed>>

\* Mutant: m_threads was swapped away, and nothing is joined.
JoinNone ==
    /\ MainAt({"join"})
    /\ main' = "stopped"
    /\ UNCHANGED <<starts, rootState, schedVars, threadVars, fiberVars, taskVars,
                   failed>>

\* stop(): every worker has been joined.
Join ==
    /\ MainAt({"join"})
    /\ \A t \in Workers : pc[t] = "exit"
    /\ main' = "stopped"
    /\ UNCHANGED <<starts, rootState, schedVars, threadVars, fiberVars, taskVars,
                   failed>>

-----------------------------------------------------------------------------
(* Scheduler::run *)

\* run: the first eligible item, taken under the lock.
Fetch(t, i) ==
    /\ At(t, "fetch")
    /\ Eligible(t, m_fibers[i])
    /\ \A j \in 1..(i - 1) : ~Eligible(t, m_fibers[j])
    /\ ft' = [ft EXCEPT ![t] = m_fibers[i]]
    /\ m_fibers' = Without(i)
    /\ m_activeThreadCount' = m_activeThreadCount + 1
    /\ pc' = [pc EXCEPT ![t] = "dispatch"]
    /\ UNCHANGED <<mainVars, m_stopping, m_autostop, cur, cb_fiber, idleTerm,
                   fiberVars, taskVars, failed>>

\* run: no item of the list is for this thread.
FetchNothing(t) ==
    /\ At(t, "fetch")
    /\ \A i \in DOMAIN m_fibers : ~Eligible(t, m_fibers[i])
    /\ pc' = [pc EXCEPT ![t] = "noTask"]
    /\ UNCHANGED <<mainVars, schedVars, ft, cur, cb_fiber, idleTerm, fiberVars,
                   taskVars, failed>>

\* Has MainFunc of this fiber come to its end?
HasEnded(f) == m_cb[f] = None \/ finished[m_cb[f]] > 0

\* run, fiber branch: the state says that the fiber has not ended.
TestFiber(t) ==
    /\ At(t, "dispatch")
    /\ ft[t].fiber # None /\ m_state[ft[t].fiber] \notin Ended
    /\ pc' = [pc EXCEPT ![t] = "resume"]
    /\ UNCHANGED <<mainVars, schedVars, ft, cur, cb_fiber, idleTerm, fiberVars,
                   taskVars, failed>>

\* swapIn, after that test: it asserts that the fiber is not EXEC, and a fiber
\* that has ended, whatever its state says, runs into the ASSERT2 of MainFunc.
ResumeFiber(t) ==
    LET f == ft[t].fiber IN
    /\ At(t, "resume")
    /\ failed' = (m_state[f] = "EXEC" \/ HasEnded(f))
    /\ m_state' = [m_state EXCEPT ![f] = "EXEC"]
    /\ cur' = [cur EXCEPT ![t] = f]
    /\ pc' = [pc EXCEPT ![t] = "body"]
    /\ UNCHANGED <<mainVars, schedVars, ft, cb_fiber, idleTerm, m_cb, taskVars>>

\* Mutant: an ended fiber is dropped without --m_activeThreadCount.
DropEndedUncounted(t) ==
    /\ At(t, "dispatch")
    /\ ft[t].fiber # None /\ m_state[ft[t].fiber] \in Ended
    /\ ft' = [ft EXCEPT ![t] = Empty]
    /\ pc' = [pc EXCEPT ![t] = "fetch"]
    /\ UNCHANGED <<mainVars, schedVars, cur, cb_fiber, idleTerm, fiberVars,
                   taskVars, failed>>

\* run: the fiber has ended since it was put into the list.
DropEnded(t) ==
    /\ At(t, "dispatch")
    /\ ft[t].fiber # None /\ m_state[ft[t].fiber] \in Ended
    /\ m_activeThreadCount' = m_activeThreadCount - 1
    /\ ft' = [ft EXCEPT ![t] = Empty]
    /\ pc' = [pc EXCEPT ![t] = "fetch"]
    /\ UNCHANGED <<mainVars, m_stopping, m_autostop, m_fibers, cur, cb_fiber,
                   idleTerm, fiberVars, taskVars, failed>>

\* run, callback branch: cb_fiber is reset, or a new Fiber is constructed; then
\* swapIn.  Fiber::reset asserts that the fiber has ended or not begun.
ResumeCb(t) ==
    LET c == ft[t].cb
        f == IF cb_fiber[t] # None THEN cb_fiber[t] ELSE c
    IN
    /\ At(t, "dispatch")
    /\ c # None
    /\ failed' = (m_state[f] \notin Ended \cup {"INIT", "none"})
    /\ m_state' = [m_state EXCEPT ![f] = "EXEC"]
    /\ m_cb' = [m_cb EXCEPT ![f] = c]
    /\ cb_fiber' = [cb_fiber EXCEPT ![t] = f]
    /\ ft' = [ft EXCEPT ![t] = Empty]
    /\ cur' = [cur EXCEPT ![t] = f]
    /\ pc' = [pc EXCEPT ![t] = "body"]
    /\ UNCHANGED <<mainVars, schedVars, idleTerm, taskVars>>

-----------------------------------------------------------------------------
(* What a task may do while it runs, and Fiber::MainFunc around it *)

\* MainFunc: the function returned; m_cb = nullptr, m_state = TERM.
Return(t) ==
    LET f == cur[t] IN
    /\ finished' = [finished EXCEPT ![m_cb[f]] = @ + 1]
    /\ m_cb' = [m_cb EXCEPT ![f] = None]
    /\ m_state' = [m_state EXCEPT ![f] = "TERM"]
    /\ pc' = [pc EXCEPT ![t] = "switch"]
    /\ UNCHANGED <<m_fibers, armed, submitted, yields, failed>>

\* MainFunc: the function threw; m_cb stays.
Throw(t) ==
    LET f == cur[t] IN
    /\ "throw" \in UserOps
    /\ finished' = [finished EXCEPT ![m_cb[f]] = @ + 1]
    /\ m_state' = [m_state EXCEPT ![f] = "EXCEPT"]
    /\ pc' = [pc EXCEPT ![t] = "switch"]
    /\ UNCHANGED <<m_fibers, m_cb, armed, submitted, yields, failed>>

\* Does the task on thread t yield once more?
CanYield(t) == yields[m_cb[cur[t]]] < MaxYields
CountYield(t) == yields' = [yields EXCEPT ![m_cb[cur[t]]] = @ + 1]

\* YieldToReady, up to swapOut.
YieldToReady(t) ==
    LET f == cur[t] IN
    /\ "ready" \in UserOps
    /\ CanYield(t) /\ CountYield(t)
    /\ failed' = (m_state[f] # "EXEC")
    /\ m_state' = [m_state EXCEPT ![f] = "READY"]
    /\ pc' = [pc EXCEPT ![t] = "switch"]
    /\ UNCHANGED <<m_fibers, m_cb, armed, submitted, finished>>

\* The task gives Fiber::GetThis() to a timer, an event or another thread.
Arm(t) ==
    /\ "hold" \in UserOps
    /\ CanYield(t) /\ CountYield(t)
    /\ armed' = armed \cup {cur[t]}
    /\ pc' = [pc EXCEPT ![t] = "armed"]
    /\ UNCHANGED <<m_fibers, m_state, m_cb, submitted, finished, failed>>

\* switchTo(thd): it returns at once on that thread, else schedules itself.
SwitchTo(t, thd) ==
    /\ "switchTo" \in UserOps
    /\ CanYield(t) /\ CountYield(t)
    /\ thd \notin {AnyThread, t}
    /\ Schedule(FiberItem(cur[t], thd))
    /\ pc' = [pc EXCEPT ![t] = "armed"]
    /\ UNCHANGED <<m_state, m_cb, armed, submitted, finished, failed>>

\* The task schedules another one.
Spawn(t, c, thd) ==
    /\ "spawn" \in UserOps
    /\ c \notin submitted
    /\ submitted' = submitted \cup {c}
    /\ Schedule(CbItem(c, thd))
    /\ UNCHANGED <<pc, m_state, m_cb, armed, finished, yields, failed>>

\* One operation of the task that thread t runs.
Body(t) ==
    /\ At(t, "body")
    /\ \/ Return(t)
       \/ Throw(t)
       \/ YieldToReady(t)
       \/ Arm(t)
       \/ \E thd \in Pins : SwitchTo(t, thd)
       \/ \E c \in Tasks, thd \in Pins : Spawn(t, c, thd)
    /\ UNCHANGED <<mainVars, m_stopping, m_autostop, m_activeThreadCount, ft,
                   cur, cb_fiber, idleTerm>>

\* YieldToHold after Arm or SwitchTo: m_state = HOLD before the context is saved.
YieldToHold(t) ==
    /\ At(t, "armed")
    /\ failed' = (m_state[cur[t]] # "EXEC")
    /\ m_state' = [m_state EXCEPT ![cur[t]] = "HOLD"]
    /\ pc' = [pc EXCEPT ![t] = "switch"]
    /\ UNCHANGED <<mainVars, schedVars, ft, cur, cb_fiber, idleTerm, m_cb, taskVars>>

\* swapOut: swapcontext saves the fiber and returns to the thread's run().
SwapOut(t) ==
    /\ At(t, "switch")
    /\ cur' = [cur EXCEPT ![t] = None]
    /\ pc' = [pc EXCEPT ![t] = "back"]
    /\ UNCHANGED <<mainVars, schedVars, ft, cb_fiber, idleTerm, fiberVars,
                   taskVars, failed>>

-----------------------------------------------------------------------------
(* Scheduler::run after swapIn has returned *)

\* The fiber that thread t has just run.
Ran(t) == IF ft[t].fiber # None THEN ft[t].fiber ELSE cb_fiber[t]

\* Mutant: the count is decremented once too often.
DeactivateTwice(t) ==
    /\ At(t, "back")
    /\ m_activeThreadCount' = m_activeThreadCount - 2
    /\ pc' = [pc EXCEPT ![t] = "settle"]
    /\ UNCHANGED <<mainVars, m_stopping, m_autostop, m_fibers, ft, cur, cb_fiber,
                   idleTerm, fiberVars, taskVars, failed>>

\* --m_activeThreadCount, before the READY fiber is scheduled again.
Deactivate(t) ==
    /\ At(t, "back")
    /\ m_activeThreadCount' = m_activeThreadCount - 1
    /\ pc' = [pc EXCEPT ![t] = "settle"]
    /\ UNCHANGED <<mainVars, m_stopping, m_autostop, m_fibers, ft, cur, cb_fiber,
                   idleTerm, fiberVars, taskVars, failed>>

\* Mutant: cb_fiber is kept although its fiber is in the list again.
KeepsCbFiberAlways(t) == TRUE

\* The callback's fiber is given away (cb_fiber.reset()) unless it has ended.
KeepsCbFiber(t) == ft[t].fiber # None \/ m_state[Ran(t)] \in Ended

\* Mutant: a READY fiber is not scheduled again.
SettleReadyLost(t) ==
    /\ At(t, "settle")
    /\ m_state[Ran(t)] = "READY"
    /\ cb_fiber' = IF KeepsCbFiber(t) THEN cb_fiber ELSE [cb_fiber EXCEPT ![t] = None]
    /\ ft' = [ft EXCEPT ![t] = Empty]
    /\ pc' = [pc EXCEPT ![t] = "fetch"]
    /\ UNCHANGED <<mainVars, schedVars, cur, idleTerm, fiberVars, taskVars, failed>>

\* run: the fiber is READY, and goes to the end of the list.
SettleReady(t) ==
    /\ At(t, "settle")
    /\ m_state[Ran(t)] = "READY"
    /\ Schedule(FiberItem(Ran(t), AnyThread))
    /\ cb_fiber' = IF KeepsCbFiber(t) THEN cb_fiber ELSE [cb_fiber EXCEPT ![t] = None]
    /\ ft' = [ft EXCEPT ![t] = Empty]
    /\ pc' = [pc EXCEPT ![t] = "fetch"]
    /\ UNCHANGED <<mainVars, m_stopping, m_autostop, m_activeThreadCount, cur,
                   idleTerm, fiberVars, taskVars, failed>>

\* run: the fiber has ended; a cb_fiber is reset(nullptr) for the next callback.
SettleEnded(t) ==
    /\ At(t, "settle")
    /\ m_state[Ran(t)] \in Ended
    /\ IF ft[t].fiber # None
       THEN UNCHANGED fiberVars
       ELSE /\ m_state' = [m_state EXCEPT ![Ran(t)] = "INIT"]
            /\ m_cb' = [m_cb EXCEPT ![Ran(t)] = None]
    /\ ft' = [ft EXCEPT ![t] = Empty]
    /\ pc' = [pc EXCEPT ![t] = "fetch"]
    /\ UNCHANGED <<mainVars, schedVars, cur, cb_fiber, idleTerm, taskVars, failed>>

\* run: neither; the state was read, and will be overwritten with HOLD.
SettleHeld(t) ==
    /\ At(t, "settle")
    /\ m_state[Ran(t)] \notin Ended \cup {"READY"}
    /\ pc' = [pc EXCEPT ![t] = "hold"]
    /\ UNCHANGED <<mainVars, schedVars, ft, cur, cb_fiber, idleTerm, fiberVars,
                   taskVars, failed>>

\* Does nobody but thread t refer to the fiber?  A fiber that has yielded holds
\* a reference to itself, the local variable of YieldToHold on its own stack.
LastReference(t, f) ==
    /\ HasEnded(f)
    /\ f \notin armed \cup Twice
    /\ \A i \in DOMAIN m_fibers : m_fibers[i].fiber # f
    /\ \A u \in Threads \ {t} : ft[u].fiber # f /\ cb_fiber[u] # f

\* run: m_state = HOLD, and the reference to the fiber is given up (ft.reset()
\* or cb_fiber.reset()); ~Fiber asserts that a destroyed fiber is not on HOLD.
SetHold(t) ==
    /\ At(t, "hold")
    /\ failed' = LastReference(t, Ran(t))
    /\ m_state' = [m_state EXCEPT ![Ran(t)] = "HOLD"]
    /\ cb_fiber' = IF ft[t].fiber # None THEN cb_fiber ELSE [cb_fiber EXCEPT ![t] = None]
    /\ ft' = [ft EXCEPT ![t] = Empty]
    /\ pc' = [pc EXCEPT ![t] = "fetch"]
    /\ UNCHANGED <<mainVars, schedVars, cur, idleTerm, m_cb, taskVars>>

\* run: no task; leave if the idle fiber is TERM, else resume it.
NoTask(t) ==
    /\ At(t, "noTask")
    /\ pc' = [pc EXCEPT ![t] = IF idleTerm[t] THEN "exit" ELSE "idle"]
    /\ UNCHANGED <<mainVars, schedVars, ft, cur, cb_fiber, idleTerm, fiberVars,
                   taskVars, failed>>

\* Scheduler::idle: one test of stopping(), then YieldToHold or the end.
Idle(t) ==
    /\ At(t, "idle")
    /\ idleTerm' = [idleTerm EXCEPT ![t] = Stopping]
    /\ pc' = [pc EXCEPT ![t] = "fetch"]
    /\ UNCHANGED <<mainVars, schedVars, ft, cur, cb_fiber, fiberVars, taskVars,
                   failed>>

-----------------------------------------------------------------------------
RunStep(t) ==
    \/ \E i \in DOMAIN m_fibers : Fetch(t, i)
    \/ FetchNothing(t)
    \/ TestFiber(t)
    \/ ResumeFiber(t)
    \/ DropEnded(t)
    \/ ResumeCb(t)
    \/ Body(t)
    \/ YieldToHold(t)
    \/ SwapOut(t)
    \/ Deactivate(t)
    \/ SettleReady(t)
    \/ SettleEnded(t)
    \/ SettleHeld(t)
    \/ SetHold(t)
    \/ NoTask(t)
    \/ Idle(t)

MainStep ==
    \/ Start
    \/ BeginStop
    \/ \E r \in RootThreads : CallRoot(r) \/ RootReturns(r)
    \/ Join

Submit ==
    \E c \in Tasks :
        \/ \E thd \in Pins : SubmitCb(c, thd) \/ SubmitFiber(c, thd)
        \/ Resubmit(c)

Next ==
    \/ MainStep
    \/ Submit
    \/ \E f \in Tasks : Wake(f)
    \/ \E t \in Threads : RunStep(t)

Spec == Init /\ [][Next]_vars

\* Threads keep running, the program gets on with stop() once it has called it,
\* and a fiber that was handed to a waker is woken.
Fairness ==
    /\ \A t \in Threads : WF_vars(RunStep(t))
    /\ \A f \in Tasks : WF_vars(Wake(f))
    /\ WF_vars(MainStep /\ main \notin {"new", "running", "stopped"})

FairSpec == Spec /\ Fairness

-----------------------------------------------------------------------------
(* Properties *)

Active == {"dispatch", "resume", "body", "armed", "switch", "back"}

\* stopping() trusts m_activeThreadCount: it counts exactly the threads between
\* taking an item and coming back from it, on every path through run().
ActiveExact ==
    m_activeThreadCount = Cardinality({t \in Threads : pc[t] \in Active})

\* Does thread t carry fiber f on: about to resume it, running it, or about to
\* put it back into the list?
Carries(t, f) ==
    \/ pc[t] \in {"dispatch", "resume"} /\ ft[t].fiber = f
    \/ pc[t] = "body" /\ cur[t] = f
    \/ pc[t] \in {"switch", "back", "settle"} /\ Ran(t) = f /\ m_state[f] = "READY"

\* Everything that can bring an unfinished task c to run (again).
Places(c) ==
    {<<"list", i>> : i \in {j \in DOMAIN m_fibers :
        \/ m_fibers[j].cb = c
        \/ m_fibers[j].fiber # None /\ m_cb[m_fibers[j].fiber] = c}}
    \cup {<<"thread", t>> : t \in {u \in Threads :
        \/ pc[u] = "dispatch" /\ ft[u].cb = c
        \/ \E f \in Tasks : m_cb[f] = c /\ Carries(u, f)}}
    \cup {<<"waker", f>> : f \in {g \in armed : m_cb[g] = c}}

\* No task is lost and none is doubled by the hand-over between list, threads,
\* yields and reused cb_fibers: until it has finished, and it finishes once,
\* exactly one place holds it (unless the program itself schedules it twice).
\* Tasks that hold break it: run() goes on reading and writing the state of a
\* fiber that may already run on another thread.
TaskInOnePlace ==
    \A c \in submitted \ Twice :
        \/ finished[c] = 0 /\ Cardinality(Places(c)) = 1
        \/ finished[c] = 1 /\ \A t \in Threads : ft[t].cb # c

\* stop() returns only when everything scheduled has run to its end, except
\* fibers on HOLD: although --m_activeThreadCount comes before a READY fiber is
\* back in the list, the thread that holds it has not left run().
StopIsGraceful ==
    main = "stopped" =>
        \A c \in submitted :
            \/ finished[c] >= 1
            \/ \E f \in Tasks : m_cb[f] = c /\ m_state[f] = "HOLD"

\* No ASSERT in Fiber::swapIn, YieldToReady, YieldToHold, reset, ~Fiber or after
\* back() in CallerMainFunc fails.
NoAssertionFails == ~failed

\* run() skips fibers that are EXEC, so that no fiber is on two threads; but a
\* fiber that was given away before YieldToHold is HOLD before it has left.
FiberOnOneThread ==
    \A t, u \in Threads : cur[t] # None /\ cur[t] = cur[u] => t = u

\* Every task that is scheduled on a running scheduler finishes.
EveryTaskRuns ==
    \A c \in Tasks : c \in submitted /\ main # "new" ~> finished[c] >= 1
=============================================================================
