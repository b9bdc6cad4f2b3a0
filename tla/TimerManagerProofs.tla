------------------------- MODULE TimerManagerProofs -------------------------
(***************************************************************************)
(* Proofs about TimerManager, for any number of timers, idle threads,      *)
(* periods and clock readings.                                             *)
(***************************************************************************)
EXTENDS TimerManager, TLAPS

\* Before addTimer has inserted it, a constructed timer has its callback and
\* has handed out none.
QueuedLive ==
    \A i \in Timers : /\ queued[i] > 0 => phase[i] = "live"
                      /\ phase[i] = "built" => m_cb[i]

\* While the wall clock was never set back, the manager's last reading is not
\* in the future, and a thread about to list has a recent reading.
ClockOrder ==
    setBacks = 0 =>
        /\ m_previouseTime <= now
        /\ \A w \in Idlers : idler[w] = "list" =>
              stamp[w] <= now /\ now - stamp[w] <= RolloverGap

IInv == TypeOK /\ ArmedIffCallback /\ OneShotOnce /\ QueuedLive /\ ClockOrder

-----------------------------------------------------------------------------
(* The timers listExpiredCbs takes out of the set *)

\* Without a rollover, lower_bound and the loop after it select exactly the
\* timers whose m_next has come, whatever address now_timer was allocated at.
LEMMA ExpiredIsDue ==
    ASSUME TypeOK, NEW now_ms \in Int, NEW address \in Timers
    PROVE  Expired(now_ms, address, FALSE) = {i \in m_timers : m_next[i] <= now_ms}
  <1>1. \A i \in m_timers : m_next[i] \in Int
    BY DEF TypeOK
  <1> QED
    BY <1>1 DEF Expired

\* In every case they are members of the set.
LEMMA ExpiredSubset ==
    ASSUME NEW now_ms, NEW address, NEW rollover \in BOOLEAN
    PROVE  Expired(now_ms, address, rollover) \subseteq m_timers
  BY DEF Expired

\* The timeout idle gives to epoll_wait is at most MAX_TIMEOUT or "for ever".
LEMMA EpollTimeoutBound ==
    ASSUME NEW t \in Int
    PROVE  EpollTimeout(t) \in {Forever} \cup 0..MaxTimeout
  <1>1. ToInt(t) \in Int
    BY BoundAssumption DEF ToInt
  <1> QED
    BY <1>1, BoundAssumption DEF EpollTimeout, Forever

-----------------------------------------------------------------------------
(* Type correctness *)

\* The initial state is well typed.
LEMMA InitType == Init => TypeOK
  <1> SUFFICES ASSUME Init PROVE TypeOK
    OBVIOUS
  <1>1. now \in Nat /\ m_previouseTime \in Int
    BY ClockAssumption DEF Init
  <1>2. left \in [Idlers -> {Forever} \cup 0..MaxTimeout]
    BY BoundAssumption DEF Init
  <1>3. /\ m_tickled \in BOOLEAN /\ token \in BOOLEAN
        /\ m_isRecur \in [Timers -> BOOLEAN] /\ m_cb \in [Timers -> BOOLEAN]
    BY Zenon DEF Init
  <1>4. /\ m_timers \subseteq Timers /\ notifying \subseteq Timers
        /\ phase \in [Timers -> Phases] /\ idler \in [Idlers -> IdlerPCs]
        /\ m_next \in [Timers -> Int] /\ m_ms \in [Timers -> Nat]
        /\ queued \in [Timers -> Nat] /\ stamp \in [Idlers -> Nat]
    BY DEF Init, Phases, IdlerPCs
  <1> QED
    BY <1>1, <1>2, <1>3, <1>4 DEF Init, TypeOK

\* Every step keeps the types.
LEMMA NextType == TypeOK /\ [Next]_vars => TypeOK'
  <1> SUFFICES ASSUME TypeOK, [Next]_vars PROVE TypeOK'
    OBVIOUS
  <1> USE DEF TypeOK, Phases, IdlerPCs
  <1>1. ASSUME NEW i \in Timers, TimerStep(i) PROVE TypeOK'
    <2>1. ASSUME NEW ms \in MsValues, NEW isRecur \in BOOLEAN, Build(i, ms, isRecur)
          PROVE  TypeOK'
      BY <2>1, MsAssumption DEF Build, clockVars, idlerVars
    <2>2. CASE AddTimer(i)
      BY <2>2 DEF AddTimer, Insert, AtFront, IsFirst, clockVars, idlerVars
    <2>3. CASE OnTimerInsertedAtFront(i)
      BY <2>3 DEF OnTimerInsertedAtFront, HasIdleThreads, clockVars, idlerVars, timerVars
    <2>4. CASE Cancel(i)
      BY <2>4 DEF Cancel, clockVars, idlerVars
    <2>5. CASE Refresh(i)
      BY <2>5 DEF Refresh, clockVars, idlerVars
    <2>6. ASSUME NEW ms \in MsValues, NEW from_now \in BOOLEAN, Reset(i, ms, from_now)
          PROVE  TypeOK'
      BY <2>6, MsAssumption DEF Reset, Insert, AtFront, IsFirst, clockVars, idlerVars
    <2>7. CASE RunCallback(i)
      BY <2>7 DEF RunCallback, clockVars, idlerVars, timerVars
    <2> QED
      BY <1>1, <2>1, <2>2, <2>3, <2>4, <2>5, <2>6, <2>7 DEF TimerStep
  <1>2. ASSUME NEW w \in Idlers, IdlerStep(w) PROVE TypeOK'
    <2>1. CASE EnterIdle(w)
      BY <2>1 DEF EnterIdle, clockVars, timerVars
    <2>2. CASE Sleep(w)
      <3>1. PICK t \in {NoTimeout, 0} \cup {m_next[i] - now : i \in m_timers} :
                left' = [left EXCEPT ![w] = EpollTimeout(t)]
        BY <2>2 DEF Sleep
      <3>2. t \in Int
        BY DEF NoTimeout
      <3>3. EpollTimeout(t) \in {Forever} \cup 0..MaxTimeout
        BY <3>2, EpollTimeoutBound
      <3>4. left' \in [Idlers -> {Forever} \cup 0..MaxTimeout]
        BY <3>1, <3>3
      <3> QED
        BY <2>2, <3>4 DEF Sleep, clockVars, timerVars
    <2>3. CASE WakeUp(w)
      <3>1. left' \in [Idlers -> {Forever} \cup 0..MaxTimeout]
        BY <2>3, BoundAssumption DEF WakeUp
      <3>2. idler' \in [Idlers -> IdlerPCs] /\ stamp' \in [Idlers -> Nat]
        BY <2>3 DEF WakeUp
      <3> QED
        BY <2>3, <3>1, <3>2 DEF WakeUp, clockVars, timerVars
    <2>4. ASSUME NEW address \in Timers, ListExpiredCbs(w, address) PROVE TypeOK'
      <3>1. CASE m_timers = {}
        BY <2>4, <3>1 DEF ListExpiredCbs, clockVars
      <3>2. CASE m_timers # {}
        <4> DEFINE expired == Expired(stamp[w], address, Rollover(stamp[w]))
        <4>1. expired \subseteq Timers
          BY ExpiredSubset DEF Rollover
        <4>2. m_cb' \in [Timers -> BOOLEAN]
          BY <2>4, <3>2 DEF ListExpiredCbs, CbAfterExpiry
        <4> QED
          BY <2>4, <3>2, <4>1, <4>2 DEF ListExpiredCbs, clockVars
      <3> QED
        BY <3>1, <3>2
    <2> QED
      BY <1>2, <2>1, <2>2, <2>3, <2>4 DEF IdlerStep
  <1>3. CASE Tick
    BY <1>3, BoundAssumption DEF Tick, RunDown, Forever, timerVars
  <1>4. CASE SetClockBack
    BY <1>4, ClockAssumption DEF SetClockBack, timerVars, idlerVars
  <1>5. CASE UNCHANGED vars
    BY <1>5 DEF vars
  <1> QED
    BY <1>1, <1>2, <1>3, <1>4, <1>5 DEF Next

\* Type correctness of the timer manager, its timers and its idle threads.
THEOREM TypeCorrect == Spec => []TypeOK
  BY InitType, NextType, PTL DEF Spec

-----------------------------------------------------------------------------
(* The inductive invariant *)

\* What a step changes of one timer only; used by every action below.
Armed(i) ==
    /\ phase[i] = "live" => (m_cb[i] <=> i \in m_timers)
    /\ i \in m_timers => phase[i] = "live"
    /\ ~m_isRecur[i] /\ queued[i] > 0 => queued[i] = 1 /\ i \notin m_timers /\ ~m_cb[i]
    /\ queued[i] > 0 => phase[i] = "live"
    /\ phase[i] = "built" => m_cb[i]

\* The three invariants about timers, timer by timer.
LEMMA ArmedForm == (ArmedIffCallback /\ OneShotOnce /\ QueuedLive) <=> \A i \in Timers : Armed(i)
  BY DEF ArmedIffCallback, OneShotOnce, QueuedLive, Armed

\* listExpiredCbs: a timer it takes was armed, so an expired one-shot timer had
\* no callback waiting, and has one now.
LEMMA ListArmed ==
    ASSUME TypeOK, \A i \in Timers : Armed(i),
           NEW w \in Idlers, NEW address \in Timers, ListExpiredCbs(w, address)
    PROVE  \A i \in Timers : Armed(i)'
  <1>1. CASE m_timers = {}
    BY <1>1 DEF ListExpiredCbs, Armed
  <1>2. CASE m_timers # {}
    <2> DEFINE expired == Expired(stamp[w], address, Rollover(stamp[w]))
    <2> HIDE DEF expired
    <2>1. expired \subseteq m_timers
      BY ExpiredSubset DEF expired, Rollover
    <2>2. /\ m_timers' = (m_timers \ expired) \cup {i \in expired : m_isRecur[i]}
          /\ m_cb' = [i \in Timers |-> m_cb[i] /\ ~(i \in expired /\ ~m_isRecur[i])]
          /\ queued' = [i \in Timers |-> IF i \in expired THEN queued[i] + 1 ELSE queued[i]]
          /\ phase' = phase /\ m_isRecur' = m_isRecur
      BY <1>2 DEF ListExpiredCbs, CbAfterExpiry, expired
    <2> SUFFICES ASSUME NEW i \in Timers PROVE Armed(i)'
      OBVIOUS
    <2>3. Armed(i) /\ queued[i] \in Nat
      BY DEF TypeOK
    <2>4. CASE i \notin expired
      <3>1. /\ queued'[i] = queued[i] /\ (m_cb'[i] <=> m_cb[i])
            /\ i \in m_timers' <=> i \in m_timers
        BY <2>2, <2>4
      <3> QED
        BY <2>2, <2>3, <3>1 DEF Armed
    <2>5. CASE i \in expired /\ m_isRecur[i]
      <3>1. /\ m_cb'[i] <=> m_cb[i]
            /\ i \in m_timers' /\ i \in m_timers
        BY <2>1, <2>2, <2>5
      <3> QED
        BY <2>2, <2>3, <2>5, <3>1 DEF Armed
    <2>6. CASE i \in expired /\ ~m_isRecur[i]
      <3>1. ~m_cb'[i] /\ i \notin m_timers' /\ i \in m_timers
        BY <2>1, <2>2, <2>6
      <3>2. queued[i] = 0
        BY <2>3, <2>6, <3>1 DEF Armed
      <3>3. queued'[i] = 1
        BY <2>2, <2>6, <3>2
      <3> QED
        BY <2>2, <2>3, <3>1, <3>3 DEF Armed
    <2> QED
      BY <2>4, <2>5, <2>6
  <1> QED
    BY <1>1, <1>2

\* Every step of the program, the idle threads and the clock keeps Armed.
LEMMA NextArmed ==
    ASSUME TypeOK, \A i \in Timers : Armed(i), [Next]_vars
    PROVE  \A i \in Timers : Armed(i)'
  <1> USE DEF TypeOK
  <1>1. ASSUME NEW i \in Timers, TimerStep(i), NEW j \in Timers PROVE Armed(j)'
    <2>1. ASSUME NEW ms \in MsValues, NEW isRecur \in BOOLEAN, Build(i, ms, isRecur)
          PROVE  Armed(j)'
      BY <2>1 DEF Build, Armed
    <2>2. CASE AddTimer(i)
      BY <2>2 DEF AddTimer, Insert, Armed
    <2>3. CASE OnTimerInsertedAtFront(i)
      BY <2>3 DEF OnTimerInsertedAtFront, timerVars, Armed
    <2>4. CASE Cancel(i)
      BY <2>4 DEF Cancel, Armed
    <2>5. CASE Refresh(i)
      BY <2>5 DEF Refresh, Armed
    <2>6. ASSUME NEW ms \in MsValues, NEW from_now \in BOOLEAN, Reset(i, ms, from_now)
          PROVE  Armed(j)'
      <3>1. m_timers' = m_timers
        BY <2>6 DEF Reset, Insert
      <3> QED
        BY <2>6, <3>1 DEF Reset, Armed
    <2>7. CASE RunCallback(i)
      BY <2>7 DEF RunCallback, timerVars, Armed
    <2> QED
      BY <1>1, <2>1, <2>2, <2>3, <2>4, <2>5, <2>6, <2>7 DEF TimerStep
  <1>2. ASSUME NEW w \in Idlers, IdlerStep(w), NEW j \in Timers PROVE Armed(j)'
    <2>1. CASE EnterIdle(w)
      BY <2>1 DEF EnterIdle, timerVars, Armed
    <2>2. CASE Sleep(w)
      BY <2>2 DEF Sleep, timerVars, Armed
    <2>3. CASE WakeUp(w)
      BY <2>3 DEF WakeUp, timerVars, Armed
    <2>4. ASSUME NEW address \in Timers, ListExpiredCbs(w, address) PROVE Armed(j)'
      BY <2>4, ListArmed
    <2> QED
      BY <1>2, <2>1, <2>2, <2>3, <2>4 DEF IdlerStep
  <1>3. ASSUME Tick \/ SetClockBack \/ UNCHANGED vars, NEW j \in Timers PROVE Armed(j)'
    BY <1>3 DEF Tick, SetClockBack, vars, timerVars, Armed
  <1> QED
    BY <1>1, <1>2, <1>3 DEF Next

\* Every step keeps the order of the clock readings.
LEMMA NextClockOrder ==
    ASSUME TypeOK, ClockOrder, [Next]_vars
    PROVE  ClockOrder'
  <1> USE DEF TypeOK, ClockOrder
  <1>1. ASSUME NEW i \in Timers, TimerStep(i) PROVE ClockOrder'
    BY <1>1 DEF TimerStep, Build, AddTimer, OnTimerInsertedAtFront, Cancel, Refresh,
                Reset, RunCallback, clockVars, idlerVars
  <1>2. ASSUME NEW w \in Idlers, IdlerStep(w) PROVE ClockOrder'
    <2>1. CASE EnterIdle(w) \/ Sleep(w)
      BY <2>1 DEF EnterIdle, Sleep, clockVars
    <2>2. CASE WakeUp(w)
      BY <2>2, GapAssumption DEF WakeUp, clockVars
    <2>3. ASSUME NEW address \in Timers, ListExpiredCbs(w, address) PROVE ClockOrder'
      BY <2>3 DEF ListExpiredCbs, clockVars
    <2> QED
      BY <1>2, <2>1, <2>2, <2>3 DEF IdlerStep
  <1>3. CASE Tick
    BY <1>3, GapAssumption DEF Tick
  <1>4. CASE SetClockBack
    BY <1>4 DEF SetClockBack
  <1>5. CASE UNCHANGED vars
    BY <1>5 DEF vars
  <1> QED
    BY <1>1, <1>2, <1>3, <1>4, <1>5 DEF Next

\* The inductive invariant holds initially and is kept by every step.
THEOREM Invariant == Spec => []IInv
  <1>1. Init => IInv
    <2> SUFFICES ASSUME Init PROVE IInv
      OBVIOUS
    <2>1. TypeOK
      BY InitType
    <2>2. ASSUME NEW i \in Timers PROVE Armed(i)
      BY DEF Init, Armed
    <2>3. ClockOrder
      BY ClockAssumption DEF Init, ClockOrder
    <2> QED
      BY <2>1, <2>2, <2>3, ArmedForm DEF IInv
  <1>2. IInv /\ [Next]_vars => IInv'
    <2> SUFFICES ASSUME IInv, [Next]_vars PROVE IInv'
      OBVIOUS
    <2>1. TypeOK'
      BY NextType DEF IInv
    <2>2. \A i \in Timers : Armed(i)'
      BY NextArmed, ArmedForm DEF IInv
    <2>3. (ArmedIffCallback /\ OneShotOnce /\ QueuedLive)'
      BY <2>2 DEF ArmedIffCallback, OneShotOnce, QueuedLive, Armed
    <2>4. ClockOrder'
      BY NextClockOrder DEF IInv
    <2> QED
      BY <2>1, <2>3, <2>4 DEF IInv
  <1> QED
    BY <1>1, <1>2, PTL DEF Spec

\* A timer has a callback exactly while it is in the set, so the unchecked
\* erase(find(...)) of Timer::cancel always finds its timer.
THEOREM ArmedCorrect == Spec => []ArmedIffCallback
  <1>1. IInv => ArmedIffCallback
    BY DEF IInv
  <1> QED
    BY <1>1, Invariant, PTL

\* A one-shot timer's callback is handed out at most once, never after a
\* successful cancel, whatever the interleaving of threads and the clock.
THEOREM OneShotCorrect == Spec => []OneShotOnce
  <1>1. IInv => OneShotOnce
    BY DEF IInv
  <1> QED
    BY <1>1, Invariant, PTL

\* listExpiredCbs never fires a timer before its time while the wall clock is
\* monotonic: the rollover rule cannot be triggered by threads that read the
\* clock in one order and take the lock in the other.
THEOREM NeverEarlyCorrect == Spec => NeverEarly
  <1>1. IInv /\ [Next]_vars =>
          [\A i \in Timers : queued'[i] > queued[i] => m_next[i] <= now \/ setBacks > 0]_vars
    <2> SUFFICES ASSUME IInv, Next, NEW i \in Timers, queued'[i] > queued[i], setBacks = 0
                 PROVE  m_next[i] <= now
      BY DEF IInv, TypeOK
    <2> USE DEF IInv, TypeOK
    <2>1. PICK w \in Idlers, address \in Timers : ListExpiredCbs(w, address)
      <3>1. ASSUME NEW j \in Timers, TimerStep(j) PROVE queued'[i] <= queued[i]
        <4>1. CASE RunCallback(j)
          BY <4>1 DEF RunCallback
        <4>2. CASE queued' = queued
          BY <4>2
        <4> QED
          BY <3>1, <4>1, <4>2 DEF TimerStep, Build, AddTimer, OnTimerInsertedAtFront,
                                  Cancel, Refresh, Reset
      <3>2. ASSUME NEW w \in Idlers, EnterIdle(w) \/ Sleep(w) \/ WakeUp(w)
            PROVE  queued' = queued
        BY <3>2 DEF EnterIdle, Sleep, WakeUp
      <3>3. ASSUME Tick \/ SetClockBack PROVE queued' = queued
        BY <3>3 DEF Tick, SetClockBack
      <3>4. queued[i] \in Nat /\ queued'[i] \in Nat
        BY NextType
      <3> QED
        BY <3>1, <3>2, <3>3, <3>4 DEF Next, IdlerStep
    <2>2. ~Rollover(stamp[w])
      <3>1. stamp[w] <= now /\ now - stamp[w] <= RolloverGap /\ m_previouseTime <= now
        BY <2>1 DEF ListExpiredCbs, ClockOrder
      <3> QED
        BY <3>1, GapAssumption DEF Rollover
    <2>3. i \in Expired(stamp[w], address, Rollover(stamp[w]))
      BY <2>1 DEF ListExpiredCbs
    <2>4. Rollover(stamp[w]) = FALSE
      BY <2>2 DEF Rollover
    <2>5. i \in {j \in m_timers : m_next[j] <= stamp[w]}
      <3>1. TypeOK /\ stamp[w] \in Int
        OBVIOUS
      <3>2. Expired(stamp[w], address, FALSE) = {j \in m_timers : m_next[j] <= stamp[w]}
        BY <3>1, ExpiredIsDue
      <3> QED
        BY <2>3, <2>4, <3>2
    <2>6. stamp[w] <= now
      BY <2>1 DEF ListExpiredCbs, ClockOrder
    <2> QED
      BY <2>5, <2>6
  <1> QED
    BY <1>1, Invariant, PTL DEF Spec, NeverEarly

\* listExpiredCbs leaves nothing behind that was due when it read the clock,
\* with any number of idle threads, ties and clock settings: a periodic timer
\* that goes back into the set is due a period after that reading.
THEOREM NothingDueLeftCorrect == Spec => NothingDueLeft
  <1>1. TypeOK /\ [Next]_vars =>
          [\A w \in Idlers : idler[w] = "list" /\ idler'[w] = "busy" =>
              \A i \in m_timers' : \/ m_next'[i] > stamp[w]
                                   \/ m_isRecur[i] /\ m_ms[i] = 0]_vars
    <2> SUFFICES ASSUME TypeOK, Next, NEW w \in Idlers,
                        idler[w] = "list", idler'[w] = "busy", NEW i \in m_timers'
                 PROVE  m_next'[i] > stamp[w] \/ (m_isRecur[i] /\ m_ms[i] = 0)
      OBVIOUS
    <2> USE DEF TypeOK
    <2>1. PICK address \in Timers : ListExpiredCbs(w, address)
      <3>1. ASSUME NEW j \in Timers, TimerStep(j) PROVE idler' = idler
        BY <3>1 DEF TimerStep, Build, AddTimer, OnTimerInsertedAtFront, Cancel,
                    Refresh, Reset, RunCallback, idlerVars
      <3>2. ASSUME NEW v \in Idlers, EnterIdle(v) \/ Sleep(v) \/ WakeUp(v)
            PROVE  idler[v] # "list" /\ (v # w => idler'[w] = idler[w])
        BY <3>2 DEF EnterIdle, Sleep, WakeUp
      <3>3. ASSUME Tick \/ SetClockBack PROVE idler' = idler
        BY <3>3 DEF Tick, SetClockBack, idlerVars
      <3>4. ASSUME NEW v \in Idlers, NEW address \in Timers, ListExpiredCbs(v, address), v # w
            PROVE  idler'[w] = idler[w]
        BY <3>4 DEF ListExpiredCbs
      <3> QED
        BY <3>1, <3>2, <3>3, <3>4 DEF Next, IdlerStep
    <2> DEFINE expired == Expired(stamp[w], address, Rollover(stamp[w]))
    <2>2. m_timers # {}
      BY <2>1 DEF ListExpiredCbs
    <2>3. /\ m_timers' = (m_timers \ expired) \cup {j \in expired : m_isRecur[j]}
          /\ m_next'[i] = IF i \in expired /\ m_isRecur[i]
                          THEN stamp[w] + m_ms[i] ELSE m_next[i]
      <3>1. i \in Timers
        BY NextType
      <3> QED
        BY <2>1, <2>2, <3>1 DEF ListExpiredCbs
    <2>4. CASE i \in expired
      <3>1. m_isRecur[i] /\ m_next'[i] = stamp[w] + m_ms[i] /\ i \in Timers
        BY <2>3, <2>4, NextType
      <3> QED
        BY <3>1
    <2>5. CASE i \notin expired
      <3>1. i \in m_timers /\ m_next'[i] = m_next[i]
        BY <2>3, <2>5
      <3>2. ~Rollover(stamp[w])
        BY <2>5, <3>1 DEF Expired
      <3>3. Expired(stamp[w], address, Rollover(stamp[w]))
              = Expired(stamp[w], address, FALSE)
        BY <3>2 DEF Expired
      <3>4. stamp[w] \in Int
        OBVIOUS
      <3>5. Expired(stamp[w], address, FALSE) = {j \in m_timers : m_next[j] <= stamp[w]}
        BY <3>4, ExpiredIsDue
      <3>6. ~(m_next[i] <= stamp[w])
        BY <2>5, <3>1, <3>3, <3>5
      <3>7. m_next[i] \in Int
        BY <3>1
      <3> QED
        BY <3>1, <3>4, <3>6, <3>7
    <2> QED
      BY <2>4, <2>5
  <1> QED
    BY <1>1, TypeCorrect, PTL DEF Spec, NothingDueLeft
=============================================================================
