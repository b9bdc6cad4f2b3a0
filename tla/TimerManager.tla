---------------------------- MODULE TimerManager ----------------------------
(***************************************************************************)
(* windgent/timer.{h,cc}: the set of timers that IOManager inherits from   *)
(* TimerManager, the Timer handles the program keeps, and the idle threads *)
(* of IOManager::idle that sleep until the earliest timer is due.          *)
(*                                                                         *)
(* A step is one critical section of TimerManager::m_mutex, or one of the  *)
(* reads the code makes outside it: the clock read of Timer::Timer and of  *)
(* listExpiredCbs, and the notification after addTimer has unlocked.       *)
(***************************************************************************)
EXTENDS Integers

CONSTANTS
    Timers,       \* addresses of the Timer objects; their order breaks ties
    Idlers,       \* threads that run IOManager::idle
    MsValues,     \* periods the program passes to addTimer and reset
    StartClock,   \* GetCurrentMS() when the manager is constructed
    MinClock,     \* lowest value the wall clock can be set back to
    MaxClock,     \* bound: the clock stops there
    RolloverGap,  \* the hour of detectClockRollover, in clock units
    MaxTimeout,   \* MAX_TIMEOUT of IOManager::idle, in clock units
    IntHalf,      \* 2^31 in clock units: int wraps at this value
    MaxQueued,    \* bound: callbacks of one timer waiting to run
    MaxSetBacks   \* bound: how often the wall clock is set back

ASSUME TimersAssumption == Timers \subseteq Int
ASSUME MsAssumption == MsValues \subseteq Nat
ASSUME ClockAssumption ==
    /\ MinClock \in Nat /\ StartClock \in Nat /\ MaxClock \in Nat
    /\ MinClock <= StartClock /\ StartClock <= MaxClock
ASSUME GapAssumption == RolloverGap \in Nat \ {0}
ASSUME BoundAssumption ==
    /\ MaxTimeout \in Nat /\ IntHalf \in Nat /\ MaxTimeout < IntHalf
    /\ MaxQueued \in Nat /\ MaxSetBacks \in Nat

VARIABLES
    now,              \* what GetCurrentMS() returns
    setBacks,         \* how often the wall clock was set back
    m_timers,         \* TimerManager::m_timers
    m_tickled,        \* TimerManager::m_tickled
    m_previouseTime,  \* TimerManager::m_previouseTime
    phase,            \* of each Timer object: "free", "built", "live"
    m_next, m_ms, m_isRecur, m_cb,  \* the Timer's fields; m_cb: is it set?
    notifying,        \* timers whose addTimer has unlocked, at_front true
    queued,           \* callbacks listed by listExpiredCbs, not yet run
    idler,            \* per thread: program counter inside IOManager::idle
    left,             \* per thread: what is left of its epoll_wait timeout
    stamp,            \* per thread: now_ms read by listExpiredCbs
    token             \* is there a byte in the tickle pipe?

timerVars == <<phase, m_next, m_ms, m_isRecur, m_cb>>
idlerVars == <<idler, left, stamp>>
clockVars == <<now, setBacks>>
vars == <<now, setBacks, m_timers, m_tickled, m_previouseTime, phase, m_next,
          m_ms, m_isRecur, m_cb, notifying, queued, idler, left, stamp, token>>

Forever == -1   \* a negative timeout blocks epoll_wait for ever
NoTimeout == -1 \* ~0ull, the answer of getTimeOfNextTimer without timers

Phases == {"free", "built", "live"}
IdlerPCs == {"busy", "idle", "wait", "list"}

TypeOK ==
    /\ now \in Nat /\ setBacks \in Nat
    /\ m_timers \subseteq Timers
    /\ m_tickled \in BOOLEAN
    /\ m_previouseTime \in Int
    /\ phase \in [Timers -> Phases]
    /\ m_next \in [Timers -> Int]
    /\ m_ms \in [Timers -> Nat]
    /\ m_isRecur \in [Timers -> BOOLEAN]
    /\ m_cb \in [Timers -> BOOLEAN]
    /\ notifying \subseteq Timers
    /\ queued \in [Timers -> Nat]
    /\ idler \in [Idlers -> IdlerPCs]
    /\ left \in [Idlers -> {Forever} \cup 0..MaxTimeout]
    /\ stamp \in [Idlers -> Nat]
    /\ token \in BOOLEAN

Init ==
    /\ now = StartClock /\ setBacks = 0
    /\ m_timers = {} /\ m_tickled = FALSE /\ m_previouseTime = now
    /\ phase = [i \in Timers |-> "free"]
    /\ m_next = [i \in Timers |-> 0]
    /\ m_ms = [i \in Timers |-> 0]
    /\ m_isRecur = [i \in Timers |-> FALSE]
    /\ m_cb = [i \in Timers |-> FALSE]
    /\ notifying = {}
    /\ queued = [i \in Timers |-> 0]
    /\ idler = [w \in Idlers |-> "busy"]
    /\ left = [w \in Idlers |-> 0]
    /\ stamp = [w \in Idlers |-> 0]
    /\ token = FALSE

-----------------------------------------------------------------------------
(* Timer::Comparator and the ordered set *)

\* Comparator: by m_next, then by address.
Less(next, i, j) ==
    \/ next[i] < next[j]
    \/ next[i] = next[j] /\ i < j

\* Is i the element m_timers.begin() points at?
IsFirst(set, next, i) ==
    /\ i \in set
    /\ \A j \in set \ {i} : Less(next, i, j)

\* addTimer(timer, lock): was the timer inserted at the front, un-notified?
AtFront(set, next, i) == IsFirst(set, next, i) /\ ~m_tickled

\* insert(timer) of the protected addTimer, with the state before the unlock.
Insert(i, set, next) ==
    LET at_front == AtFront(set \cup {i}, next, i) IN
    /\ m_timers' = set \cup {i}
    /\ m_tickled' = (m_tickled \/ at_front)
    /\ notifying' = IF at_front THEN notifying \cup {i} ELSE notifying

-----------------------------------------------------------------------------
(* Operations on timers, called from any thread *)

\* addTimer: the Timer is constructed, and reads the clock, before the lock.
Build(i, ms, isRecur) ==
    /\ phase[i] = "free"
    /\ phase' = [phase EXCEPT ![i] = "built"]
    /\ m_ms' = [m_ms EXCEPT ![i] = ms]
    /\ m_isRecur' = [m_isRecur EXCEPT ![i] = isRecur]
    /\ m_cb' = [m_cb EXCEPT ![i] = TRUE]
    /\ m_next' = [m_next EXCEPT ![i] = now + ms]
    /\ UNCHANGED <<clockVars, m_timers, m_tickled, m_previouseTime, notifying,
                   queued, idlerVars, token>>

\* addTimer: the locked part.
AddTimer(i) ==
    /\ phase[i] = "built"
    /\ phase' = [phase EXCEPT ![i] = "live"]
    /\ Insert(i, m_timers, m_next)
    /\ UNCHANGED <<clockVars, m_previouseTime, m_next, m_ms, m_isRecur, m_cb,
                   queued, idlerVars, token>>

\* A thread counts as idle while it is inside IOManager::idle.
HasIdleThreads == \E w \in Idlers : idler[w] # "busy"

\* onTimerInsertedAtFront, after the unlock: IOManager::tickle.
OnTimerInsertedAtFront(i) ==
    /\ i \in notifying
    /\ notifying' = notifying \ {i}
    /\ token' = (token \/ HasIdleThreads)
    /\ UNCHANGED <<clockVars, m_timers, m_tickled, m_previouseTime, timerVars,
                   queued, idlerVars>>

\* Mutant: cancel clears the callback and leaves the timer in the set.
CancelLeavesTimer(i) ==
    /\ phase[i] = "live"
    /\ m_cb[i]
    /\ m_cb' = [m_cb EXCEPT ![i] = FALSE]
    /\ UNCHANGED <<clockVars, m_timers, m_tickled, m_previouseTime, phase,
                   m_next, m_ms, m_isRecur, notifying, queued, idlerVars, token>>

\* Timer::cancel; without m_cb it changes nothing and returns false.
Cancel(i) ==
    /\ phase[i] = "live"
    /\ m_cb[i]
    /\ m_cb' = [m_cb EXCEPT ![i] = FALSE]
    /\ m_timers' = m_timers \ {i}
    /\ UNCHANGED <<clockVars, m_tickled, m_previouseTime, phase, m_next, m_ms,
                   m_isRecur, notifying, queued, idlerVars, token>>

\* Timer::refresh: reinserted in place, without addTimer's notification.
Refresh(i) ==
    /\ phase[i] = "live"
    /\ m_cb[i] /\ i \in m_timers
    /\ m_next' = [m_next EXCEPT ![i] = now + m_ms[i]]
    /\ UNCHANGED <<clockVars, m_timers, m_tickled, m_previouseTime, phase, m_ms,
                   m_isRecur, m_cb, notifying, queued, idlerVars, token>>

\* Mutant: reset forgets to test m_cb, and so revives a spent timer.
ResetRevives(i, ms, from_now) ==
    /\ phase[i] = "live"
    /\ ms # m_ms[i] \/ from_now
    /\ LET next == [m_next EXCEPT ![i] = now + ms] IN
       /\ m_next' = next
       /\ Insert(i, m_timers \ {i}, next)
    /\ m_ms' = [m_ms EXCEPT ![i] = ms]
    /\ m_cb' = [m_cb EXCEPT ![i] = TRUE]
    /\ UNCHANGED <<clockVars, m_previouseTime, phase, m_isRecur, queued,
                   idlerVars, token>>

\* Timer::reset.
Reset(i, ms, from_now) ==
    /\ phase[i] = "live"
    /\ ms # m_ms[i] \/ from_now
    /\ m_cb[i] /\ i \in m_timers
    /\ LET start == IF from_now THEN now ELSE m_next[i] - m_ms[i]
           next == [m_next EXCEPT ![i] = start + ms]
       IN  /\ m_next' = next
           /\ Insert(i, m_timers \ {i}, next)
    /\ m_ms' = [m_ms EXCEPT ![i] = ms]
    /\ UNCHANGED <<clockVars, m_previouseTime, phase, m_isRecur, m_cb, queued,
                   idlerVars, token>>

\* The scheduler runs one callback that listExpiredCbs handed to it.
RunCallback(i) ==
    /\ queued[i] > 0
    /\ queued' = [queued EXCEPT ![i] = @ - 1]
    /\ UNCHANGED <<clockVars, m_timers, m_tickled, m_previouseTime, timerVars,
                   notifying, idlerVars, token>>

-----------------------------------------------------------------------------
(* IOManager::idle as the client of the timers *)

\* Scheduler::run: ++m_idleThreadCount, then the idle fiber is resumed.
EnterIdle(w) ==
    /\ idler[w] = "busy"
    /\ idler' = [idler EXCEPT ![w] = "idle"]
    /\ UNCHANGED <<clockVars, m_timers, m_tickled, m_previouseTime, timerVars,
                   notifying, queued, left, stamp, token>>

\* Is t what getTimeOfNextTimer returns: how long until begin() is due?
IsTimeOfNextTimer(t) ==
    \/ m_timers = {} /\ t = NoTimeout
    \/ \E i \in m_timers :
          /\ IsFirst(m_timers, m_next, i)
          /\ t = IF now >= m_next[i] THEN 0 ELSE m_next[i] - now

\* The conversion (int)next_timeout: two's complement at 2 * IntHalf.
ToInt(x) ==
    LET r == x % (2 * IntHalf) IN IF r >= IntHalf THEN r - 2 * IntHalf ELSE r

\* Mutant: only ~0ull is replaced by MAX_TIMEOUT, a later timer is not capped.
EpollTimeoutUncapped(next_timeout) ==
    LET capped == IF next_timeout = NoTimeout THEN MaxTimeout ELSE ToInt(next_timeout)
    IN  IF capped < 0 THEN Forever ELSE capped

\* The timeout idle passes to epoll_wait.
EpollTimeout(next_timeout) ==
    LET capped == IF next_timeout = NoTimeout \/ ToInt(next_timeout) > MaxTimeout
                  THEN MaxTimeout ELSE ToInt(next_timeout)
    IN  IF capped < 0 THEN Forever ELSE capped

\* idle: stopping(next_timeout) asks for the timeout and clears m_tickled
\* (only when there is a timer); the thread then blocks in epoll_wait.
Sleep(w) ==
    /\ idler[w] = "idle"
    /\ idler' = [idler EXCEPT ![w] = "wait"]
    /\ \E t \in {NoTimeout, 0} \cup {m_next[i] - now : i \in m_timers} :
          /\ IsTimeOfNextTimer(t)
          /\ left' = [left EXCEPT ![w] = EpollTimeout(t)]
    /\ m_tickled' = (m_tickled /\ m_timers = {})
    /\ UNCHANGED <<clockVars, m_timers, m_previouseTime, timerVars, notifying,
                   queued, stamp, token>>

\* epoll_wait returns, on a byte in the pipe, at the timeout or for I/O; then
\* listExpiredCbs reads the clock, and returns at once if there is no timer.
WakeUp(w) ==
    /\ idler[w] = "wait"
    /\ token \/ left[w] = 0
    /\ token' = FALSE
    /\ left' = [left EXCEPT ![w] = 0]
    /\ IF m_timers = {}
       THEN /\ idler' = [idler EXCEPT ![w] = "busy"]
            /\ UNCHANGED stamp
       ELSE /\ idler' = [idler EXCEPT ![w] = "list"]
            /\ stamp' = [stamp EXCEPT ![w] = now]
    /\ UNCHANGED <<clockVars, m_timers, m_tickled, m_previouseTime, timerVars,
                   notifying, queued>>

\* detectClockRollover: the clock is an hour behind the last reading.
Rollover(now_ms) ==
    /\ now_ms < m_previouseTime
    /\ now_ms < m_previouseTime - RolloverGap

\* Mutant: lower_bound without the loop over the timers due exactly now.
ExpiredNoTies(now_ms, address, rollover) ==
    IF rollover THEN m_timers
    ELSE {i \in m_timers : m_next[i] < now_ms}

\* Mutant: everything is expired when the first timer is.
ExpiredAll(now_ms, address, rollover) == m_timers

\* The timers before the iterator: lower_bound of a Timer at the given address
\* with m_next = now_ms, moved over the timers due exactly now.
Expired(now_ms, address, rollover) ==
    IF rollover THEN m_timers
    ELSE LET lower_bound == {i \in m_timers :
                 m_next[i] < now_ms \/ (m_next[i] = now_ms /\ i < address)}
         IN  lower_bound \cup {i \in m_timers \ lower_bound : m_next[i] = now_ms}

\* listExpiredCbs: one-shot timers give their callback away.
CbAfterExpiry(expired) ==
    [i \in Timers |-> m_cb[i] /\ ~(i \in expired /\ ~m_isRecur[i])]

\* listExpiredCbs: the part under the write lock, then schedule(cbs).
ListExpiredCbs(w, address) ==
    /\ idler[w] = "list"
    /\ idler' = [idler EXCEPT ![w] = "busy"]
    /\ stamp' = [stamp EXCEPT ![w] = 0]  \* dead
    /\ IF m_timers = {}
       THEN UNCHANGED <<m_timers, m_previouseTime, m_next, m_cb, queued>>
       ELSE LET rollover == Rollover(stamp[w])
                expired == Expired(stamp[w], address, rollover)
                recur == {i \in expired : m_isRecur[i]}
            IN  /\ \A i \in expired : queued[i] < MaxQueued
                /\ m_previouseTime' = stamp[w]
                /\ m_timers' = (m_timers \ expired) \cup recur
                /\ m_next' = [i \in Timers |-> IF i \in recur
                                THEN stamp[w] + m_ms[i] ELSE m_next[i]]
                /\ m_cb' = CbAfterExpiry(expired)
                /\ queued' = [i \in Timers |-> IF i \in expired
                                THEN queued[i] + 1 ELSE queued[i]]
    /\ UNCHANGED <<clockVars, m_tickled, phase, m_ms, m_isRecur, notifying,
                   left, token>>

-----------------------------------------------------------------------------
(* The environment: the wall clock (gettimeofday) *)

\* A sleeping thread's timeout runs down with the clock.
RunDown == [w \in Idlers |-> IF idler[w] = "wait" /\ left[w] > 0
                             THEN left[w] - 1 ELSE left[w]]

\* Time passes; at its bound the wall clock stalls and timeouts still run down.
\* Assumption on the kernel: no thread stays suspended for an hour between the
\* clock read and the lock of listExpiredCbs.
Tick ==
    /\ now < MaxClock \/ RunDown # left
    /\ \A w \in Idlers : idler[w] = "list" => now - stamp[w] < RolloverGap
    /\ now' = IF now < MaxClock THEN now + 1 ELSE now
    /\ left' = RunDown
    /\ UNCHANGED <<setBacks, m_timers, m_tickled, m_previouseTime, timerVars,
                   notifying, queued, idler, stamp, token>>

\* settimeofday moves the wall clock back; epoll_wait does not notice.
SetClockBack ==
    /\ setBacks < MaxSetBacks
    /\ setBacks' = setBacks + 1
    /\ now' \in MinClock..(now - 1)
    /\ UNCHANGED <<m_timers, m_tickled, m_previouseTime, timerVars, notifying,
                   queued, idlerVars, token>>

-----------------------------------------------------------------------------
TimerStep(i) ==
    \/ \E ms \in MsValues, isRecur \in BOOLEAN : Build(i, ms, isRecur)
    \/ AddTimer(i)
    \/ OnTimerInsertedAtFront(i)
    \/ Cancel(i)
    \/ Refresh(i)
    \/ \E ms \in MsValues, from_now \in BOOLEAN : Reset(i, ms, from_now)
    \/ RunCallback(i)

IdlerStep(w) ==
    \/ EnterIdle(w)
    \/ Sleep(w)
    \/ WakeUp(w)
    \/ \E address \in Timers : ListExpiredCbs(w, address)

Next ==
    \/ \E i \in Timers : TimerStep(i)
    \/ \E w \in Idlers : IdlerStep(w)
    \/ Tick
    \/ SetClockBack

Spec == Init /\ [][Next]_vars

\* Threads keep running, queued callbacks are run and time passes; the program
\* need not touch its timers, nor a notification be delivered.
Fairness ==
    /\ \A w \in Idlers : WF_vars(IdlerStep(w))
    /\ \A i \in Timers : WF_vars(RunCallback(i))
    /\ WF_vars(Tick)

FairSpec == Spec /\ Fairness

-----------------------------------------------------------------------------
(* Properties *)

\* Timer::cancel erases find(shared_from_this()) without testing it against
\* end(): a published timer has a callback exactly while it is in m_timers.
ArmedIffCallback ==
    \A i \in Timers :
        /\ phase[i] = "live" => (m_cb[i] <=> i \in m_timers)
        /\ i \in m_timers => phase[i] = "live"

\* The callback of a one-shot timer runs at most once, and never after a
\* cancel() that returned true: it is never both armed and waiting to run.
OneShotOnce ==
    \A i \in Timers : ~m_isRecur[i] /\ queued[i] > 0 =>
        queued[i] = 1 /\ i \notin m_timers /\ ~m_cb[i]

\* listExpiredCbs hands out a callback only when its m_next has come, unless
\* the wall clock has been set back (the rollover rule expires everything).
NeverEarly ==
    [][\A i \in Timers : queued'[i] > queued[i] =>
          m_next[i] <= now \/ setBacks > 0]_vars

\* listExpiredCbs leaves no due timer behind: one that stays in the set is due
\* later than the time it was listed at (a period of zero is due at that time).
NothingDueLeft ==
    [][\A w \in Idlers : idler[w] = "list" /\ idler'[w] = "busy" =>
          \A i \in m_timers' : \/ m_next'[i] > stamp[w]
                               \/ m_isRecur[i] /\ m_ms[i] = 0]_vars

\* A timer that is due is expired, postponed or cancelled, even if the
\* notification of addTimer was skipped: epoll_wait sleeps at most MaxTimeout.
DueTimersFire ==
    \A i \in Timers :
        i \in m_timers /\ m_next[i] <= now
            ~> i \notin m_timers \/ m_next[i] > now
=============================================================================
