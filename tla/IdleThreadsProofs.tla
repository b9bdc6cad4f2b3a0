-------------------------- MODULE IdleThreadsProofs --------------------------
(***************************************************************************)
(* Proofs about IdleThreads, for any tasks: no task is lost or doubled on  *)
(* its way and stop() empties the list, with any number of threads; with   *)
(* one thread stop() is graceful, although stopping() does not read the    *)
(* timers, the events and the list together.                               *)
(***************************************************************************)
EXTENDS IdleThreads, FiniteSetTheorems, TLAPS

\* Types, as far as the proofs need them.
Types ==
    /\ pc \in [Threads -> PCs \cup MainPCs] /\ pc[Main] \in MainPCs
    /\ tickles \in [Threads -> Nat]
    /\ task \in [Workers -> Tasks \cup {Pipe}]
    /\ got \in [Workers -> SUBSET (Tasks \cup {Pipe})]
    /\ held \in [Workers -> SUBSET Tasks]
    /\ idleTerm \subseteq Workers
    /\ m_fibers \subseteq Tasks
    /\ m_timers \subseteq Tasks /\ due \subseteq m_timers
    /\ m_events \subseteq Tasks /\ ready \subseteq m_events
    /\ fresh \subseteq Tasks /\ finished \subseteq Tasks

\* What epoll_wait has reported is registered, and reported to one thread only.
Reported ==
    /\ \A t \in Workers : got[t] \subseteq m_events \cup {Pipe} /\ got[t] \cap ready = {}
    /\ \A t, u \in Workers : t # u => got[t] \cap got[u] \subseteq {Pipe}

\* Callbacks of expired timers are held only until they are scheduled.
HeldToPush == \A t \in Workers : pc[t] # "push" => held[t] = {}

\* No two places have the same task.
Apart ==
    /\ m_fibers \cap m_timers = {} /\ m_fibers \cap m_events = {} /\ m_timers \cap m_events = {}
    /\ \A t \in Workers, c \in Tasks :
          Has(t, c) => c \notin m_fibers /\ c \notin m_timers /\ c \notin m_events
    /\ \A t, u \in Workers, c \in Tasks : Has(t, c) /\ Has(u, c) => t = u

\* The tasks that were handed over and have not run are those in some place.
Somewhere(c) ==
    \/ c \in m_fibers \/ c \in m_timers \/ c \in m_events
    \/ \E t \in Workers : Has(t, c)
Complete ==
    /\ fresh \cap finished = {}
    /\ \A c \in Tasks : Somewhere(c) <=> c \notin fresh /\ c \notin finished

\* Nothing but a task is run or scheduled again.
RunsTask == \A t \in Workers : pc[t] \in {"body", "ready"} => task[t] \in Tasks

PlaceInv == Types /\ Reported /\ HeldToPush /\ Apart /\ Complete /\ RunsTask

\* An idle fiber ends after stop() has begun; only then does its thread leave run().
TermLate ==
    /\ idleTerm # {} => pc[Main] # "running"
    /\ \A t \in Workers : pc[t] = "exit" => t \in idleTerm

\* A thread that will come to see the list.
SeesList(t) == pc[t] # "exit" /\ (pc[t] = "noTask" => t \notin idleTerm)
ListSeen == m_fibers # {} => \E t \in Workers : SeesList(t)

\* stop() has joined the threads.
Joined == pc[Main] = "stopped" => \A t \in Workers : pc[t] = "exit"

DrainInv == PlaceInv /\ TermLate /\ ListSeen /\ Joined
-----------------------------------------------------------------------------
(* No task is lost or doubled *)

LEMMA InitPlace == Init => PlaceInv
  <1> SUFFICES ASSUME Init PROVE PlaceInv
    OBVIOUS
  <1>1. Types
    BY DEF Init, Types, PCs, MainPCs, Threads
  <1>2. \A t \in Workers : pc[t] = "fetch" /\ held[t] = {} /\ got[t] = {}
    BY ThreadsAssumption DEF Init, Threads
  <1>3. \A t \in Workers, c \in Tasks : ~Has(t, c)
    BY <1>2 DEF Has, Running
  <1> QED
    BY <1>1, <1>2, <1>3
    DEF PlaceInv, Reported, HeldToPush, Apart, Complete, Somewhere, RunsTask, Init

\* The steps that move no task.
Quiet ==
    /\ UNCHANGED <<held, m_fibers, m_timers, m_events, fresh, finished>>
    /\ \A t \in Workers : /\ pc[t] = "push" => pc'[t] = "push"
                          /\ \A c \in Tasks : Running(t, c)' <=> Running(t, c)
                          /\ pc'[t] \in {"body", "ready"} => task'[t] \in Tasks

LEMMA QuietPlace ==
    ASSUME PlaceInv, Quiet PROVE HeldToPush' /\ Apart' /\ Complete' /\ RunsTask'
  <1>1. \A t \in Workers : \A c \in Tasks : Has(t, c)' <=> Has(t, c)
    BY DEF Quiet, Has
  <1>2. \A c \in Tasks : Somewhere(c)' <=> Somewhere(c)
    BY <1>1 DEF Quiet, Somewhere
  <1>3. HeldToPush'
    BY DEF PlaceInv, Quiet, HeldToPush
  <1>4. Apart'
    BY <1>1 DEF PlaceInv, Quiet, Apart
  <1>5. Complete'
    BY <1>2 DEF PlaceInv, Quiet, Complete
  <1>6. RunsTask'
    BY DEF Quiet, RunsTask
  <1> QED
    BY <1>3, <1>4, <1>5, <1>6

\* So does a step that leaves the threads at their places, or takes one of them from
\* a place without a task to another.
LEMMA QuietMoves ==
    ASSUME PlaceInv, UNCHANGED <<task, held, m_fibers, m_timers, m_events, fresh, finished>>,
           \A t \in Workers :
               \/ pc'[t] = pc[t]
               \/ /\ pc[t] \notin {"body", "back", "ready", "push"}
                  /\ pc'[t] \notin {"body", "back", "ready"}
    PROVE  Quiet
  BY DEF Quiet, Running, PlaceInv, RunsTask

\* A step of thread t moves it to place p.
LEMMA GoFact ==
    ASSUME Types, NEW t \in Threads, NEW p, Go(t, p)
    PROVE  /\ pc'[t] = p /\ \A u \in Threads \ {t} : pc'[u] = pc[u]
           /\ p \in PCs \cup MainPCs => pc' \in [Threads -> PCs \cup MainPCs]
           /\ t # Main => pc'[Main] = pc[Main]
  BY DEF Types, Go, Threads

\* The task yields, and run() does not count its thread any longer.
LEMMA YieldSteps ==
    ASSUME PlaceInv, NEW t \in Workers, YieldToReady(t) \/ Deactivate(t)
    PROVE  PlaceInv'
  <1> USE DEF waitVars, timerVars, eventVars, pipeVars
  <1>0. Types /\ t \in Threads /\ t # Main /\ Workers \subseteq Threads
    BY ThreadsAssumption DEF PlaceInv, Threads
  <1>1. UNCHANGED <<tickles, task, got, held, idleTerm, m_fibers, m_timers, due, m_events,
                    ready, fresh, finished>>
    BY DEF YieldToReady, Deactivate
  <1>2. PICK p \in {"back", "fetch", "ready"} :
            /\ Go(t, p) /\ pc[t] \in {"body", "back"}
            /\ IF task[t] = Pipe THEN p # "ready" ELSE p # "fetch"
    <2>1. CASE YieldToReady(t)
      <3>1. task[t] # Pipe
        BY <2>1, TasksAssumption DEF YieldToReady, At, PlaceInv, RunsTask
      <3> QED
        BY <2>1, <3>1 DEF YieldToReady, At
    <2>2. CASE Deactivate(t)
      BY <2>2 DEF Deactivate, At
    <2> QED
      BY <2>1, <2>2
  <1>3. /\ pc'[t] = p /\ \A u \in Workers \ {t} : pc'[u] = pc[u]
        /\ pc' \in [Threads -> PCs \cup MainPCs] /\ pc'[Main] = pc[Main]
    BY <1>0, <1>2, GoFact DEF PCs, ActivePCs
  <1>4. Types' /\ Reported'
    BY <1>0, <1>1, <1>3 DEF Types, PlaceInv, Reported
  <1>5. \A u \in Workers : \A c \in Tasks : Running(u, c)' <=> Running(u, c)
    BY <1>1, <1>2, <1>3, TasksAssumption DEF Running
  <1>6. task[t] # Pipe => task[t] \in Tasks
    BY <1>0 DEF Types
  <1>7. Quiet
    BY <1>1, <1>2, <1>3, <1>5, <1>6 DEF Quiet, PlaceInv, RunsTask
  <1> QED
    BY <1>4, <1>7, QuietPlace DEF PlaceInv

\* The steps that only read, wake up or go on.
LEMMA QuietSteps ==
    ASSUME PlaceInv, NEW t \in Workers,
           \/ FetchNothing(t) \/ NoTask(t) \/ ReadTimers(t)
           \/ ReadEvents(t) \/ ReadLists(t) \/ EpollWait(t) \/ LeaveIdle(t)
    PROVE  PlaceInv'
  <1> USE DEF waitVars, timerVars, eventVars, pipeVars, Threads
  <1>0. Types /\ t \in Threads /\ t # Main
    BY ThreadsAssumption DEF PlaceInv
  <1>1. PICK p \in PCs \ {"body", "back", "ready"} : Go(t, p)
    <2>1. CASE FetchNothing(t)
      BY <2>1 DEF FetchNothing, PCs
    <2>3. CASE NoTask(t)
      BY <2>3 DEF NoTask, PCs, IdlePCs
    <2>4. CASE ReadTimers(t)
      BY <2>4 DEF ReadTimers, PCs, IdlePCs
    <2>5. CASE ReadEvents(t)
      BY <2>5 DEF ReadEvents, PCs, IdlePCs
    <2>6. CASE ReadLists(t)
      BY <2>6 DEF ReadLists, PCs, IdlePCs
    <2>7. CASE EpollWait(t)
      BY <2>7 DEF EpollWait, PCs, IdlePCs
    <2>8. CASE LeaveIdle(t)
      BY <2>8 DEF LeaveIdle, PCs
    <2> QED
      BY <2>1, <2>3, <2>4, <2>5, <2>6, <2>7, <2>8 DEF PCs, ActivePCs, IdlePCs
  <1>2. /\ pc'[t] = p /\ \A u \in Workers \ {t} : pc'[u] = pc[u]
        /\ pc' \in [Threads -> PCs \cup MainPCs] /\ pc'[Main] = pc[Main]
    BY <1>0, <1>1, GoFact
  <1>3. UNCHANGED <<tickles, task, held, m_fibers, m_timers, due, m_events, fresh, finished>>
    BY DEF FetchNothing, NoTask, ReadTimers, ReadEvents, ReadLists, EpollWait,
           LeaveIdle
  <1>4. pc[t] \notin {"body", "back", "ready", "push"}
    BY DEF FetchNothing, NoTask, ReadTimers, ReadEvents, ReadLists, EpollWait,
           LeaveIdle, At
  <1>5. Quiet
    BY <1>1, <1>2, <1>3, <1>4, QuietMoves
  <1>6. idleTerm' \subseteq Workers
    BY <1>0 DEF FetchNothing, NoTask, ReadTimers, ReadEvents, ReadLists, EpollWait,
           LeaveIdle, Types
  <1>7. /\ got' \in [Workers -> SUBSET (Tasks \cup {Pipe})]
        /\ ready' \subseteq m_events' /\ Reported'
    <2>1. CASE EpollWait(t)
      <3> DEFINE reported == ready \cup (IF edge /\ pipe THEN {Pipe} ELSE {})
      <3>1. got' = [got EXCEPT ![t] = reported] /\ ready' = {} /\ m_events' = m_events
        BY <2>1 DEF EpollWait
      <3>2. reported \subseteq m_events \cup {Pipe} /\ reported \subseteq ready \cup {Pipe}
        BY <1>0 DEF Types
      <3>3. \A u \in Workers : got'[u] = IF u = t THEN reported ELSE got[u]
        BY <1>0, <3>1 DEF Types
      <3>4. got' \in [Workers -> SUBSET (Tasks \cup {Pipe})]
        BY <1>0, <3>1, <3>2 DEF Types
      <3>5. Reported'
        BY <3>1, <3>2, <3>3 DEF PlaceInv, Reported
      <3> QED
        BY <3>1, <3>4, <3>5
    <2>2. CASE ~EpollWait(t)
      <3>1. UNCHANGED <<got, ready, m_events>>
        BY <2>2 DEF FetchNothing, NoTask, ReadTimers, ReadEvents, ReadLists,
                    LeaveIdle
      <3> QED
        BY <1>0, <3>1 DEF PlaceInv, Types, Reported
    <2> QED
      BY <2>1, <2>2
  <1>8. Types'
    BY <1>0, <1>2, <1>3, <1>6, <1>7 DEF Types
  <1> QED
    BY <1>5, <1>7, <1>8, QuietPlace DEF PlaceInv

\* So are the steps of the program's thread other than Submit, of time and of
\* peers, and tickle().
LEMMA OutsideSteps ==
    ASSUME PlaceInv,
           \/ Stop \/ Join \/ (\E t \in Threads : Tickle(t))
           \/ \E c \in Tasks : Expire(c) \/ Arrive(c)
    PROVE  PlaceInv'
  <1> USE DEF waitVars, timerVars, eventVars, pipeVars
  <1>0. Types /\ Main \in Threads /\ Main \notin Workers /\ Workers \subseteq Threads
    BY ThreadsAssumption DEF PlaceInv, Threads
  <1>1. CASE Stop \/ Join
    <2>1. PICK p \in MainPCs : Go(Main, p)
      BY <1>1 DEF Stop, Join, MainPCs
    <2>2. /\ \A u \in Workers : pc'[u] = pc[u]
          /\ pc' \in [Threads -> PCs \cup MainPCs] /\ pc'[Main] \in MainPCs
      BY <1>0, <2>1, GoFact
    <2>3. /\ UNCHANGED <<task, got, held, idleTerm, m_fibers, m_timers, due, m_events, ready,
                         fresh, finished>>
          /\ tickles' \in [Threads -> Nat]
      <3>1. Cardinality(Workers) \in Nat
        BY ThreadsAssumption, FS_CardinalityType
      <3> QED
        BY <1>0, <1>1, <3>1 DEF Stop, Join, Types
    <2>4. Quiet
      BY <2>2, <2>3, QuietMoves
    <2>5. Types'
      BY <1>0, <2>2, <2>3 DEF Types
    <2>6. Reported'
      BY <2>3 DEF PlaceInv, Reported
    <2> QED
      BY <2>4, <2>5, <2>6, QuietPlace DEF PlaceInv
  <1>2. ASSUME NEW t \in Threads, Tickle(t) PROVE PlaceInv'
    <2>1. /\ UNCHANGED <<pc, task, got, held, idleTerm, m_fibers, m_timers, due, m_events,
                         ready, fresh, finished>>
          /\ tickles' \in [Threads -> Nat]
      BY <1>0, <1>2 DEF Tickle, Types
    <2>2. Types' /\ Reported'
      BY <1>0, <2>1 DEF Types, PlaceInv, Reported
    <2>3. Quiet
      BY <2>1, QuietMoves
    <2> QED
      BY <2>2, <2>3, QuietPlace DEF PlaceInv
  <1>3. ASSUME NEW c \in Tasks, Expire(c) \/ Arrive(c) PROVE PlaceInv'
    <2>1. UNCHANGED <<pc, tickles, task, got, held, idleTerm, m_fibers, m_timers, m_events,
                      fresh, finished>>
      BY <1>3 DEF Expire, Arrive
    <2>2. due' \subseteq m_timers' /\ ready' \subseteq m_events'
      BY <1>0, <1>3 DEF Expire, Arrive, Types
    <2>3. Reported'
      BY <1>3, <2>1 DEF PlaceInv, Reported, Expire, Arrive
    <2>4. Types'
      BY <1>0, <2>1, <2>2 DEF Types
    <2>5. Quiet
      BY <2>1, QuietMoves
    <2> QED
      BY <2>3, <2>4, <2>5, QuietPlace DEF PlaceInv
  <1> QED
    BY <1>1, <1>2, <1>3
\* schedule() leaves the number of tickles a natural number.
LEMMA PushFact ==
    ASSUME Types, NEW t \in Threads, NEW cs \in SUBSET Tasks, Push(t, cs)
    PROVE  m_fibers' = m_fibers \cup cs /\ m_fibers' \subseteq Tasks
           /\ tickles' \in [Threads -> Nat]
  BY DEF Types, Push

\* A task that was handed over to schedule(), to a timer or to an event.
LEMMA EntersPlace ==
    ASSUME PlaceInv, NEW c \in fresh, fresh' = fresh \ {c},
           UNCHANGED <<pc, task, held, finished>>,
           \/ m_fibers' = m_fibers \cup {c} /\ UNCHANGED <<m_timers, m_events>>
           \/ m_timers' = m_timers \cup {c} /\ UNCHANGED <<m_fibers, m_events>>
           \/ m_events' = m_events \cup {c} /\ UNCHANGED <<m_fibers, m_timers>>
    PROVE  HeldToPush' /\ Apart' /\ Complete' /\ RunsTask'
  <1>1. \A t \in Workers : \A d : Has(t, d)' <=> Has(t, d)
    BY DEF Has, Running
  <1>2. c \in Tasks /\ ~Somewhere(c)
    BY DEF PlaceInv, Types, Complete
  <1>3. \A d \in Tasks : Somewhere(d)' <=> Somewhere(d) \/ d = c
    BY <1>1, <1>2 DEF Somewhere
  <1>4. HeldToPush' /\ RunsTask'
    BY DEF PlaceInv, HeldToPush, RunsTask
  <1>5. Apart'
    BY <1>1, <1>2 DEF PlaceInv, Apart, Somewhere
  <1>6. Complete'
    BY <1>2, <1>3 DEF PlaceInv, Complete
  <1> QED
    BY <1>4, <1>5, <1>6

LEMMA SubmitPlace == ASSUME PlaceInv, NEW c \in Tasks, Submit(c) PROVE PlaceInv'
  <1> USE DEF waitVars, timerVars, eventVars, pipeVars
  <1>0. Types /\ Main \in Threads
    BY DEF PlaceInv, Threads
  <1>1. c \in fresh /\ fresh' = fresh \ {c} /\ Push(Main, {c})
        /\ UNCHANGED <<pc, task, got, held, idleTerm, m_timers, due, m_events, ready, finished>>
    BY DEF Submit
  <1>2. m_fibers' = m_fibers \cup {c} /\ m_fibers' \subseteq Tasks
        /\ tickles' \in [Threads -> Nat]
    BY <1>0, <1>1, PushFact
  <1>3. Types' /\ Reported'
    BY <1>0, <1>1, <1>2 DEF Types, PlaceInv, Reported
  <1> QED
    BY <1>1, <1>2, <1>3, EntersPlace DEF PlaceInv

LEMMA BodyPlace ==
    ASSUME PlaceInv, NEW t \in Workers, NEW c \in Tasks, Body(t, c) PROVE PlaceInv'
  <1> USE DEF waitVars, timerVars, eventVars, pipeVars
  <1>0. Types /\ t \in Threads
    BY DEF PlaceInv, Threads
  <1>1. c \in fresh /\ fresh' = fresh \ {c}
        /\ UNCHANGED <<pc, task, got, held, idleTerm, finished>>
    BY DEF Body
  <1>2. /\ \/ m_fibers' = m_fibers \cup {c} /\ UNCHANGED <<m_timers, m_events>>
           \/ m_timers' = m_timers \cup {c} /\ UNCHANGED <<m_fibers, m_events>>
           \/ m_events' = m_events \cup {c} /\ UNCHANGED <<m_fibers, m_timers>>
        /\ UNCHANGED <<due, ready>> /\ tickles' \in [Threads -> Nat]
    <2>1. CASE AddTimer(t, c)
      BY <1>0, <2>1 DEF AddTimer, Types
    <2>2. CASE Spawn(t, c)
      BY <1>0, <2>2, PushFact DEF Spawn
    <2>3. CASE AddEvent(t, c)
      BY <1>0, <2>3 DEF AddEvent, Types
    <2> QED
      BY <2>1, <2>2, <2>3 DEF Body
  <1>3. Types' /\ Reported'
    BY <1>0, <1>1, <1>2 DEF Types, PlaceInv, Reported
  <1> QED
    BY <1>1, <1>2, <1>3, EntersPlace DEF PlaceInv

LEMMA FetchPlace ==
    ASSUME PlaceInv, NEW t \in Workers, NEW c \in Tasks, Fetch(t, c) PROVE PlaceInv'
  <1> USE DEF waitVars, timerVars, eventVars, pipeVars
  <1>0. Types /\ t \in Threads /\ t # Main /\ Workers \subseteq Threads
    BY ThreadsAssumption DEF PlaceInv, Threads
  <1>1. /\ pc[t] = "fetch" /\ c \in m_fibers /\ m_fibers' = m_fibers \ {c}
        /\ task' = [task EXCEPT ![t] = c] /\ Go(t, "body")
        /\ UNCHANGED <<got, held, idleTerm, m_timers, due, m_events, ready, fresh, finished>>
    BY DEF Fetch, At
  <1>2. /\ pc'[t] = "body" /\ \A u \in Workers \ {t} : pc'[u] = pc[u]
        /\ pc' \in [Threads -> PCs \cup MainPCs] /\ pc'[Main] = pc[Main]
    BY <1>0, <1>1, GoFact DEF PCs, ActivePCs
  <1>3. tickles' \in [Threads -> Nat]
    BY <1>0 DEF Fetch, Types
  <1>4. task' \in [Workers -> Tasks \cup {Pipe}]
        /\ \A u \in Workers : task'[u] = IF u = t THEN c ELSE task[u]
    BY <1>0, <1>1 DEF Types
  <1>5. Types' /\ Reported'
    BY <1>0, <1>1, <1>2, <1>3, <1>4 DEF Types, PlaceInv, Reported
  <1>6. held[t] = {}
    BY <1>1 DEF PlaceInv, HeldToPush
  <1>7. \A u \in Workers, d \in Tasks : Has(u, d)' <=> IF u = t THEN d = c ELSE Has(u, d)
    BY <1>1, <1>2, <1>4, <1>6 DEF Has, Running
  <1>8. \A u \in Workers : ~Has(u, c)
    BY <1>1 DEF PlaceInv, Apart
  <1>9. HeldToPush' /\ RunsTask'
    BY <1>1, <1>2, <1>4, <1>6 DEF PlaceInv, HeldToPush, RunsTask
  <1>10. Apart'
    BY <1>1, <1>7, <1>8 DEF PlaceInv, Apart
  <1>11. ASSUME NEW d \in Tasks PROVE Somewhere(d)' <=> Somewhere(d)
    <2>1. \A e \in Tasks : ~Has(t, e)
      BY <1>1, <1>6 DEF Has, Running
    <2> QED
      BY <1>1, <1>7, <2>1 DEF Somewhere
  <1>12. Complete'
    BY <1>1, <1>11 DEF PlaceInv, Complete
  <1> QED
    BY <1>5, <1>9, <1>10, <1>12 DEF PlaceInv

LEMMA ReturnPlace == ASSUME PlaceInv, NEW t \in Workers, Return(t) PROVE PlaceInv'
  <1> USE DEF waitVars, timerVars, eventVars, pipeVars
  <1>0. Types /\ t \in Threads /\ t # Main /\ Workers \subseteq Threads
    BY ThreadsAssumption DEF PlaceInv, Threads
  <1> DEFINE c == task[t]
  <1>1. /\ pc[t] = "body" /\ finished' = finished \cup {c}
        /\ task' = [task EXCEPT ![t] = Pipe] /\ Go(t, "back")
        /\ UNCHANGED <<tickles, got, held, idleTerm, m_fibers, m_timers, due, m_events, ready,
                       fresh>>
    BY DEF Return, At
  <1>2. /\ pc'[t] = "back" /\ \A u \in Workers \ {t} : pc'[u] = pc[u]
        /\ pc' \in [Threads -> PCs \cup MainPCs] /\ pc'[Main] = pc[Main]
    BY <1>0, <1>1, GoFact DEF PCs, ActivePCs
  <1>3. c \in Tasks /\ Has(t, c)
    BY <1>1 DEF PlaceInv, RunsTask, Has, Running
  <1>4. task' \in [Workers -> Tasks \cup {Pipe}]
        /\ task'[t] = Pipe /\ \A u \in Workers \ {t} : task'[u] = task[u]
    BY <1>0, <1>1 DEF Types
  <1>5. Types' /\ Reported'
    BY <1>0, <1>1, <1>2, <1>3, <1>4 DEF Types, PlaceInv, Reported
  <1>6. held[t] = {}
    BY <1>1 DEF PlaceInv, HeldToPush
  <1>7. \A u \in Workers, d \in Tasks : Has(u, d)' <=> (u # t /\ Has(u, d))
    BY <1>1, <1>2, <1>4, <1>6, TasksAssumption DEF Has, Running
  <1>8. \A d \in Tasks : Has(t, d) <=> d = c
    BY <1>1, <1>6 DEF Has, Running
  <1>9. HeldToPush' /\ RunsTask'
    BY <1>1, <1>2, <1>4, <1>6 DEF PlaceInv, HeldToPush, RunsTask
  <1>10. Apart'
    BY <1>1, <1>7 DEF PlaceInv, Apart
  <1>11. ASSUME NEW d \in Tasks PROVE Somewhere(d)' <=> Somewhere(d) /\ d # c
    <2>1. c \notin m_fibers /\ c \notin m_timers /\ c \notin m_events
          /\ \A u \in Workers : Has(u, c) => u = t
      BY <1>3 DEF PlaceInv, Apart
    <2> QED
      BY <1>1, <1>7, <1>8, <2>1 DEF Somewhere
  <1>12. c \notin fresh
    BY <1>3 DEF PlaceInv, Complete, Somewhere
  <1>13. Complete'
    BY <1>1, <1>11, <1>12 DEF PlaceInv, Complete
  <1> QED
    BY <1>5, <1>9, <1>10, <1>13 DEF PlaceInv

LEMMA ReschedulePlace == ASSUME PlaceInv, NEW t \in Workers, Reschedule(t) PROVE PlaceInv'
  <1> USE DEF waitVars, timerVars, eventVars, pipeVars
  <1>0. Types /\ t \in Threads /\ t # Main /\ Workers \subseteq Threads
    BY ThreadsAssumption DEF PlaceInv, Threads
  <1> DEFINE c == task[t]
  <1>1. /\ pc[t] = "ready" /\ Push(t, {c})
        /\ task' = [task EXCEPT ![t] = Pipe] /\ Go(t, "fetch")
        /\ UNCHANGED <<got, held, idleTerm, m_timers, due, m_events, ready, fresh, finished>>
    BY DEF Reschedule, At
  <1>2. /\ pc'[t] = "fetch" /\ \A u \in Workers \ {t} : pc'[u] = pc[u]
        /\ pc' \in [Threads -> PCs \cup MainPCs] /\ pc'[Main] = pc[Main]
    BY <1>0, <1>1, GoFact DEF PCs
  <1>3. c \in Tasks
    BY <1>1 DEF PlaceInv, RunsTask
  <1>4. /\ task' \in [Workers -> Tasks \cup {Pipe}]
        /\ \A u \in Workers \ {t} : task'[u] = task[u]
        /\ m_fibers' = m_fibers \cup {c} /\ m_fibers' \subseteq Tasks
        /\ tickles' \in [Threads -> Nat]
    BY <1>0, <1>1, <1>3, PushFact DEF Types
  <1>5. Types' /\ Reported'
    BY <1>0, <1>1, <1>2, <1>4 DEF Types, PlaceInv, Reported
  <1>6. held[t] = {}
    BY <1>1 DEF PlaceInv, HeldToPush
  <1>7. \A u \in Workers, d \in Tasks : Has(u, d)' <=> (u # t /\ Has(u, d))
    BY <1>1, <1>2, <1>4, <1>6 DEF Has, Running
  <1>8. \A d \in Tasks : Has(t, d) <=> d = c
    BY <1>1, <1>6 DEF Has, Running
  <1>9. HeldToPush' /\ RunsTask'
    BY <1>1, <1>2, <1>4, <1>6 DEF PlaceInv, HeldToPush, RunsTask
  <1>10. Apart'
    BY <1>1, <1>3, <1>4, <1>7, <1>8 DEF PlaceInv, Apart
  <1>11. ASSUME NEW d \in Tasks PROVE Somewhere(d)' <=> Somewhere(d)
    BY <1>1, <1>4, <1>7, <1>8 DEF Somewhere
  <1>12. Complete'
    BY <1>1, <1>11 DEF PlaceInv, Complete
  <1> QED
    BY <1>5, <1>9, <1>10, <1>12 DEF PlaceInv

LEMMA ListExpiredPlace == ASSUME PlaceInv, NEW t \in Workers, ListExpired(t) PROVE PlaceInv'
  <1> USE DEF waitVars, timerVars, eventVars, pipeVars
  <1>0. Types /\ t \in Threads /\ t # Main /\ Workers \subseteq Threads
    BY ThreadsAssumption DEF PlaceInv, Threads
  <1>1. /\ pc[t] = "expired" /\ held' = [held EXCEPT ![t] = due]
        /\ m_timers' = m_timers \ due /\ due' = {}
        /\ Go(t, IF due = {} THEN "handle" ELSE "push")
        /\ UNCHANGED <<tickles, task, got, idleTerm, m_fibers, m_events, ready, fresh, finished>>
    BY DEF ListExpired, At
  <1>2. /\ pc'[t] = IF due = {} THEN "handle" ELSE "push"
        /\ \A u \in Workers \ {t} : pc'[u] = pc[u]
        /\ pc' \in [Threads -> PCs \cup MainPCs] /\ pc'[Main] = pc[Main]
    <2>1. (IF due = {} THEN "handle" ELSE "push") \in PCs \cup MainPCs
      BY DEF PCs, IdlePCs
    <2> QED
      BY <1>0, <1>1, <2>1, GoFact
  <1>3. due \subseteq Tasks /\ due \subseteq m_timers
    BY <1>0 DEF Types
  <1>4. held' \in [Workers -> SUBSET Tasks]
        /\ \A u \in Workers : held'[u] = IF u = t THEN due ELSE held[u]
    BY <1>0, <1>1, <1>3 DEF Types
  <1>5. Types' /\ Reported'
    BY <1>0, <1>1, <1>2, <1>3, <1>4 DEF Types, PlaceInv, Reported
  <1>6. held[t] = {}
    BY <1>1 DEF PlaceInv, HeldToPush
  <1>7. \A u \in Workers, d \in Tasks : Has(u, d)' <=> IF u = t THEN d \in due ELSE Has(u, d)
    BY <1>1, <1>2, <1>4 DEF Has, Running
  <1>8. \A d \in Tasks : ~Has(t, d)
    BY <1>1, <1>6 DEF Has, Running
  <1>9. HeldToPush' /\ RunsTask'
    BY <1>1, <1>2, <1>4 DEF PlaceInv, HeldToPush, RunsTask
  <1>10. Apart'
    BY <1>1, <1>3, <1>7 DEF PlaceInv, Apart
  <1>11. ASSUME NEW d \in Tasks PROVE Somewhere(d)' <=> Somewhere(d)
    BY <1>1, <1>3, <1>7, <1>8 DEF Somewhere
  <1>12. Complete'
    BY <1>1, <1>11 DEF PlaceInv, Complete
  <1> QED
    BY <1>5, <1>9, <1>10, <1>12 DEF PlaceInv

LEMMA PushExpiredPlace == ASSUME PlaceInv, NEW t \in Workers, PushExpired(t) PROVE PlaceInv'
  <1> USE DEF waitVars, timerVars, eventVars, pipeVars
  <1>0. Types /\ t \in Threads /\ t # Main /\ Workers \subseteq Threads
    BY ThreadsAssumption DEF PlaceInv, Threads
  <1>1. /\ pc[t] = "push" /\ held' = [held EXCEPT ![t] = {}]
        /\ Push(t, held[t]) /\ Go(t, "handle")
        /\ UNCHANGED <<task, got, idleTerm, m_timers, due, m_events, ready, fresh, finished>>
    BY DEF PushExpired, At
  <1>2. /\ pc'[t] = "handle" /\ \A u \in Workers \ {t} : pc'[u] = pc[u]
        /\ pc' \in [Threads -> PCs \cup MainPCs] /\ pc'[Main] = pc[Main]
    BY <1>0, <1>1, GoFact DEF PCs, IdlePCs
  <1>3. held[t] \in SUBSET Tasks
    BY <1>0 DEF Types
  <1>4. /\ held' \in [Workers -> SUBSET Tasks]
        /\ \A u \in Workers : held'[u] = IF u = t THEN {} ELSE held[u]
        /\ m_fibers' = m_fibers \cup held[t] /\ m_fibers' \subseteq Tasks
        /\ tickles' \in [Threads -> Nat]
    BY <1>0, <1>1, <1>3, PushFact DEF Types
  <1>5. Types' /\ Reported'
    BY <1>0, <1>1, <1>2, <1>4 DEF Types, PlaceInv, Reported
  <1>6. \A u \in Workers, d \in Tasks : Has(u, d)' <=> (u # t /\ Has(u, d))
    BY <1>1, <1>2, <1>4 DEF Has, Running
  <1>7. \A d \in Tasks : Has(t, d) <=> d \in held[t]
    BY <1>1 DEF Has, Running
  <1>8. HeldToPush' /\ RunsTask'
    BY <1>1, <1>2, <1>4 DEF PlaceInv, HeldToPush, RunsTask
  <1>9. Apart'
    BY <1>1, <1>3, <1>4, <1>6, <1>7 DEF PlaceInv, Apart
  <1>10. ASSUME NEW d \in Tasks PROVE Somewhere(d)' <=> Somewhere(d)
    BY <1>1, <1>4, <1>6, <1>7 DEF Somewhere
  <1>11. Complete'
    BY <1>1, <1>10 DEF PlaceInv, Complete
  <1> QED
    BY <1>5, <1>8, <1>9, <1>11 DEF PlaceInv

LEMMA HandlePlace ==
    ASSUME PlaceInv, NEW t \in Workers, NEW e \in Tasks \cup {Pipe}, Handle(t, e)
    PROVE  PlaceInv'
  <1> USE DEF waitVars, timerVars, eventVars, pipeVars
  <1>0. Types /\ t \in Threads
    BY DEF PlaceInv, Threads
  <1>1. /\ e \in got[t] /\ got' = [got EXCEPT ![t] = @ \ {e}]
        /\ UNCHANGED <<pc, task, held, idleTerm, m_timers, due, ready, fresh, finished>>
    BY DEF Handle
  <1>2. got' \in [Workers -> SUBSET (Tasks \cup {Pipe})]
        /\ \A u \in Workers : got'[u] = IF u = t THEN got[u] \ {e} ELSE got[u]
    BY <1>0, <1>1 DEF Types
  <1>3. CASE e = Pipe
    <2>1. UNCHANGED <<tickles, m_fibers, m_events>>
      BY <1>3 DEF Handle
    <2>2. Types'
      BY <1>0, <1>1, <1>2, <2>1 DEF Types
    <2>4. Quiet
      BY <1>1, <2>1, QuietMoves
    <2>3. Reported'
      BY <1>1, <1>2, <2>1 DEF PlaceInv, Reported
    <2> QED
      BY <2>2, <2>3, <2>4, QuietPlace DEF PlaceInv
  <1>4. CASE e # Pipe
    <2>1. Push(t, {e}) /\ m_events' = m_events \ {e} /\ e \in Tasks
      BY <1>4 DEF Handle
    <2>2. m_fibers' = m_fibers \cup {e} /\ m_fibers' \subseteq Tasks
          /\ tickles' \in [Threads -> Nat]
      BY <1>0, <2>1, PushFact
    <2>3. e \in m_events /\ e \notin ready
      BY <1>1, <1>4 DEF PlaceInv, Reported
    <2>4. Types'
      BY <1>0, <1>1, <1>2, <2>1, <2>2, <2>3 DEF Types
    <2>5. Reported'
      BY <1>1, <1>2, <1>4, <2>1 DEF PlaceInv, Reported
    <2>6. \A u \in Workers : \A d : Has(u, d)' <=> Has(u, d)
      BY <1>1 DEF Has, Running
    <2>7. \A u \in Workers : ~Has(u, e)
      BY <2>1, <2>3 DEF PlaceInv, Apart
    <2>8. HeldToPush' /\ RunsTask'
      BY <1>1 DEF PlaceInv, HeldToPush, RunsTask
    <2>9. Apart'
      BY <1>1, <2>1, <2>2, <2>3, <2>6, <2>7 DEF PlaceInv, Apart
    <2>10. ASSUME NEW d \in Tasks PROVE Somewhere(d)' <=> Somewhere(d)
      BY <1>1, <2>1, <2>2, <2>3, <2>6 DEF Somewhere
    <2>11. Complete'
      BY <1>1, <2>10 DEF PlaceInv, Complete
    <2> QED
      BY <2>4, <2>5, <2>8, <2>9, <2>11 DEF PlaceInv
  <1> QED
    BY <1>3, <1>4

\* Every step keeps PlaceInv.
LEMMA PlaceStep == ASSUME PlaceInv, [Next]_vars PROVE PlaceInv'
  <1>1. CASE UNCHANGED vars
    <2>1. Types' /\ Reported'
      BY <1>1 DEF vars, Types, PlaceInv, Reported
    <2>2. Quiet
      BY <1>1, QuietMoves DEF vars
    <2> QED
      BY <2>1, <2>2, QuietPlace DEF PlaceInv
  <1>2. CASE Next
    BY <1>2, QuietSteps, YieldSteps, OutsideSteps, SubmitPlace, BodyPlace, FetchPlace,
       ReturnPlace, ReschedulePlace, ListExpiredPlace, PushExpiredPlace, HandlePlace
    DEF Next, WorkerStep
  <1> QED
    BY <1>1, <1>2

LEMMA PlaceCorrect == Spec => []PlaceInv
  <1>1. PlaceInv /\ [Next]_vars => PlaceInv'
    BY PlaceStep
  <1> QED
    BY <1>1, InitPlace, PTL DEF Spec

\* Every task that was handed over is in exactly one place until it has run: no
\* interleaving of timers, events, schedule() and the threads drops or doubles it.
THEOREM OnePlaceCorrect == Spec => []TaskInOnePlace
  <1>1. PlaceInv => TaskInOnePlace
    <2> SUFFICES ASSUME PlaceInv, NEW c \in Tasks \ fresh
                 PROVE  Cardinality(Places(c)) = IF c \in finished THEN 0 ELSE 1
      BY DEF TaskInOnePlace
    <2>2. CASE c \in finished
      <3>1. ~Somewhere(c)
        BY <2>2 DEF PlaceInv, Complete
      <3>2. Places(c) = {}
        BY <3>1 DEF Places, Somewhere
      <3> QED
        BY <2>2, <3>2, FS_EmptySet
    <2>3. CASE c \notin finished
      <3>1. Somewhere(c)
        BY <2>3 DEF PlaceInv, Complete
      <3>2. \E p : Places(c) = {p}
        <4>1. CASE c \in m_fibers
          <5>1. Places(c) = {"list"}
            BY <4>1 DEF Places, PlaceInv, Apart
          <5> QED
            BY <5>1
        <4>2. CASE c \in m_timers
          <5>1. Places(c) = {"timer"}
            BY <4>2 DEF Places, PlaceInv, Apart
          <5> QED
            BY <5>1
        <4>3. CASE c \in m_events
          <5>1. Places(c) = {"event"}
            BY <4>3 DEF Places, PlaceInv, Apart
          <5> QED
            BY <5>1
        <4>4. ASSUME NEW t \in Workers, Has(t, c) PROVE \E p : Places(c) = {p}
          <5>1. Places(c) = {t}
            BY <4>4 DEF Places, PlaceInv, Apart
          <5> QED
            BY <5>1
        <4> QED
          BY <3>1, <4>1, <4>2, <4>3, <4>4 DEF Somewhere
      <3> QED
        BY <2>3, <3>2, FS_Singleton
    <2> QED
      BY <2>2, <2>3
  <1> QED
    BY <1>1, PlaceCorrect, PTL
-----------------------------------------------------------------------------
(* stop() empties the list *)

LEMMA InitDrain == Init => DrainInv
  <1> SUFFICES ASSUME Init PROVE DrainInv
    OBVIOUS
  <1>1. PlaceInv
    BY InitPlace
  <1>2. pc[Main] = "running" /\ \A t \in Workers : pc[t] = "fetch" /\ held[t] = {}
    BY ThreadsAssumption DEF Init, Threads
  <1> QED
    BY <1>1, <1>2 DEF DrainInv, TermLate, ListSeen, Joined, Init

\* How a step of thread t moves it.
LEMMA WorkerMoves ==
    ASSUME PlaceInv, NEW t \in Workers, WorkerStep(t)
    PROVE  /\ pc[t] # "exit" /\ pc'[Main] = pc[Main]
           /\ \A u \in Workers \ {t} : pc'[u] = pc[u]
           /\ pc'[t] = "exit" => NoTask(t) /\ t \in idleTerm
           /\ pc'[t] = "noTask" => FetchNothing(t)
  <1>1. t \in Threads /\ t # Main /\ Main \in Threads /\ Workers \subseteq Threads /\ Types
    BY ThreadsAssumption DEF Threads, PlaceInv
  <1>2. pc[t] \notin {"exit"}
    BY DEF WorkerStep, Fetch, Body, FetchNothing, YieldToReady, Return, Deactivate, Reschedule,
           NoTask, ReadTimers, ReadEvents, ReadLists, EpollWait, ListExpired, PushExpired,
           Handle, LeaveIdle, At
  <1>3. \/ pc' = pc /\ pc[t] # "noTask"
        \/ \E p \in {"body", "back", "ready", "fetch", "timers", "events", "lists", "wait",
                     "expired", "push", "handle"} : Go(t, p)
        \/ FetchNothing(t) /\ Go(t, "noTask")
        \/ NoTask(t) /\ t \in idleTerm /\ Go(t, "exit")
    <2>1. CASE \/ \E c \in Tasks : Body(t, c)
               \/ \E e \in Tasks \cup {Pipe} : Handle(t, e)
      BY <2>1 DEF Body, Handle, At
    <2>2. CASE \/ \E c \in Tasks : Fetch(t, c)
               \/ YieldToReady(t) \/ Return(t) \/ Deactivate(t) \/ Reschedule(t)
      BY <2>2 DEF Fetch, YieldToReady, Return, Deactivate, Reschedule
    <2>3. CASE FetchNothing(t) \/ NoTask(t)
      BY <2>3 DEF FetchNothing, NoTask
    <2>4. CASE ReadTimers(t) \/ ReadEvents(t) \/ ReadLists(t)
      BY <2>4 DEF ReadTimers, ReadEvents, ReadLists
    <2>5. CASE EpollWait(t) \/ ListExpired(t) \/ PushExpired(t) \/ LeaveIdle(t)
      BY <2>5 DEF EpollWait, ListExpired, PushExpired, LeaveIdle
    <2> QED
      BY <2>1, <2>2, <2>3, <2>4, <2>5 DEF WorkerStep
  <1> QED
    BY <1>1, <1>2, <1>3, GoFact

\* An idle fiber ends in ReadLists, and nowhere else.
LEMMA WorkerTerm ==
    ASSUME NEW t \in Workers, WorkerStep(t)
    PROVE  \/ idleTerm' = idleTerm
           \/ /\ ReadLists(t) /\ Stopping /\ idleTerm' = idleTerm \cup {t}
              /\ pc[Main] # "running"
  <1>1. CASE ReadLists(t)
    BY <1>1 DEF ReadLists, Stopping
  <1>2. CASE ~ReadLists(t)
    BY <1>2 DEF WorkerStep, Fetch, Body, FetchNothing, YieldToReady, Return, Deactivate,
                Reschedule, NoTask, ReadTimers, EpollWait, ReadEvents, ListExpired,
                PushExpired, Handle, LeaveIdle
  <1> QED
    BY <1>1, <1>2

LEMMA WorkerDrain ==
    ASSUME DrainInv, NEW t \in Workers, WorkerStep(t)
    PROVE  TermLate' /\ ListSeen' /\ Joined'
  <1>1. /\ pc[t] # "exit" /\ pc'[Main] = pc[Main]
        /\ \A u \in Workers \ {t} : pc'[u] = pc[u]
        /\ pc'[t] = "exit" => NoTask(t) /\ t \in idleTerm
        /\ pc'[t] = "noTask" => FetchNothing(t)
    BY WorkerMoves DEF DrainInv
  <1>2. /\ idleTerm' \in {idleTerm, idleTerm \cup {t}}
        /\ idleTerm' # idleTerm => pc[Main] # "running"
    BY WorkerTerm
  <1>3. TermLate'
    BY <1>1, <1>2 DEF DrainInv, TermLate
  <1>4. ListSeen'
    <2> SUFFICES ASSUME m_fibers' # {} PROVE \E u \in Workers : SeesList(u)'
      BY DEF ListSeen
    <2>1. CASE FetchNothing(t)
      BY <2>1 DEF FetchNothing
    <2>2. CASE NoTask(t) /\ t \in idleTerm
      <3>1. m_fibers # {} /\ ~SeesList(t)
        BY <2>2 DEF NoTask, At, SeesList
      <3>2. PICK u \in Workers : u # t /\ SeesList(u)
        BY <3>1 DEF DrainInv, ListSeen
      <3>3. SeesList(u)'
        BY <1>1, <1>2, <3>2 DEF SeesList
      <3> QED
        BY <3>3
    <2>3. CASE ~FetchNothing(t) /\ ~(NoTask(t) /\ t \in idleTerm)
      BY <1>1, <2>3 DEF SeesList
    <2> QED
      BY <2>1, <2>2, <2>3
  <1>5. Joined'
    BY <1>1 DEF DrainInv, Joined
  <1> QED
    BY <1>3, <1>4, <1>5

\* What the program's thread, time, peers and tickle() do to the threads: nothing.
LEMMA OtherMoves ==
    ASSUME PlaceInv,
           \/ \E c \in Tasks : Submit(c) \/ Expire(c) \/ Arrive(c)
           \/ Stop \/ Join \/ \E t \in Threads : Tickle(t)
    PROVE  /\ UNCHANGED <<idleTerm, m_timers, m_events, finished>>
           /\ \A u \in Workers : pc'[u] = pc[u]
           /\ pc[Main] # "running" => pc'[Main] # "running" /\ UNCHANGED <<fresh, m_fibers>>
           /\ pc'[Main] = "stopped" =>
                 pc[Main] = "stopped" \/ \A u \in Workers : pc[u] = "exit"
  <1> USE DEF waitVars, timerVars, eventVars
  <1>0. Types /\ Main \in Threads /\ Main \notin Workers /\ Workers \subseteq Threads
    BY ThreadsAssumption DEF PlaceInv, Threads
  <1>1. UNCHANGED <<idleTerm, m_timers, m_events, finished>>
    BY DEF Submit, Expire, Arrive, Stop, Join, Tickle
  <1>2. /\ \A u \in Workers : pc'[u] = pc[u]
        /\ pc[Main] # "running" => pc'[Main] # "running"
        /\ pc'[Main] = "stopped" => pc[Main] = "stopped" \/ \A u \in Workers : pc[u] = "exit"
    <2>1. CASE Stop
      BY <1>0, <2>1, GoFact DEF Stop, At
    <2>2. CASE Join
      BY <1>0, <2>2, GoFact DEF Join, At
    <2>3. CASE ~Stop /\ ~Join
      BY <2>3 DEF Submit, Expire, Arrive, Tickle
    <2> QED
      BY <2>1, <2>2, <2>3
  <1>3. fresh' # fresh \/ m_fibers' # m_fibers => pc[Main] = "running"
    BY DEF Submit, Expire, Arrive, Stop, Join, Tickle, At
  <1> QED
    BY <1>1, <1>2, <1>3

LEMMA OtherDrain ==
    ASSUME DrainInv,
           \/ \E c \in Tasks : Submit(c) \/ Expire(c) \/ Arrive(c)
           \/ Stop \/ Join \/ \E t \in Threads : Tickle(t)
    PROVE  TermLate' /\ ListSeen' /\ Joined'
  <1>1. /\ UNCHANGED <<idleTerm, m_timers, m_events, finished>>
        /\ \A u \in Workers : pc'[u] = pc[u]
        /\ pc[Main] # "running" => pc'[Main] # "running" /\ UNCHANGED <<fresh, m_fibers>>
        /\ pc'[Main] = "stopped" =>
              pc[Main] = "stopped" \/ \A u \in Workers : pc[u] = "exit"
    BY OtherMoves DEF DrainInv
  <1>2. \A u \in Workers : SeesList(u)' <=> SeesList(u)
    BY <1>1 DEF SeesList
  <1>3. pc[Main] = "running" => \E u \in Workers : SeesList(u)
    BY ThreadsAssumption DEF DrainInv, TermLate, SeesList
  <1>4. ListSeen'
    BY <1>1, <1>2, <1>3 DEF DrainInv, ListSeen
  <1> QED
    BY <1>1, <1>4 DEF DrainInv, TermLate, Joined

LEMMA DrainStep == ASSUME DrainInv, [Next]_vars PROVE DrainInv'
  <1>1. PlaceInv'
    BY PlaceStep DEF DrainInv
  <1>2. CASE UNCHANGED vars
    BY <1>1, <1>2 DEF DrainInv, TermLate, ListSeen, Joined, SeesList, vars
  <1>3. ASSUME NEW t \in Workers, WorkerStep(t) PROVE DrainInv'
    BY <1>1, <1>3, WorkerDrain DEF DrainInv
  <1>4. CASE \/ \E c \in Tasks : Submit(c) \/ Expire(c) \/ Arrive(c)
             \/ Stop \/ Join \/ \E t \in Threads : Tickle(t)
    BY <1>1, <1>4, OtherDrain DEF DrainInv
  <1> QED
    BY <1>2, <1>3, <1>4 DEF Next

LEMMA DrainAlways == Spec => []DrainInv
  <1>1. DrainInv /\ [Next]_vars => DrainInv'
    BY DrainStep
  <1> QED
    BY <1>1, InitDrain, PTL DEF Spec

\* What is left when stop() has returned waits for its timer or its event.
LEMMA LeftBehind ==
    ASSUME DrainInv, pc[Main] = "stopped", NEW c \in Tasks \ fresh, c \notin finished
    PROVE  c \in m_timers \cup m_events
  <1>1. \A t \in Workers : pc[t] = "exit" /\ held[t] = {}
    BY DEF DrainInv, Joined, PlaceInv, HeldToPush
  <1>2. m_fibers = {}
    BY <1>1 DEF DrainInv, ListSeen, SeesList
  <1>3. Somewhere(c)
    BY DEF DrainInv, PlaceInv, Complete
  <1> QED
    BY <1>1, <1>2, <1>3 DEF Somewhere, Has, Running

\* When stop() has returned the list is empty and nobody runs or holds a task, with
\* any number of threads and whatever the tasks do: yield, and hand over others, late
\* or early.  A thread leaves only with the list empty, and what comes into the list
\* after that comes from a thread that will look at it.
THEOREM DrainsListCorrect == Spec => []StopDrainsList
  <1>1. DrainInv => StopDrainsList
    BY LeftBehind DEF StopDrainsList
  <1> QED
    BY <1>1, DrainAlways, PTL
-----------------------------------------------------------------------------
(* stop() is graceful with one thread *)

\* What the only thread has seen of stopping() is still so.
SeenInv ==
    \A t \in Workers :
        /\ pc[t] \in {"events", "lists"} => m_timers = {}
        /\ pc[t] = "lists" => m_events = {}
        /\ t \in idleTerm => /\ pc[t] \in {"fetch", "noTask", "exit"}
                             /\ m_timers = {} /\ m_events = {} /\ m_fibers = {}

LEMMA SeenWorker ==
    ASSUME DrainInv, SeenInv, NEW t \in Workers, Workers = {t}, WorkerStep(t)
    PROVE  SeenInv'
  <1> USE DEF waitVars, timerVars, eventVars
  <1>0. Types /\ t \in Threads
    BY DEF DrainInv, PlaceInv, Threads
  <1>1. SUFFICES
           /\ pc'[t] \in {"events", "lists"} => m_timers' = {}
           /\ pc'[t] = "lists" => m_events' = {}
           /\ t \in idleTerm' => /\ pc'[t] \in {"fetch", "noTask", "exit"}
                                 /\ m_timers' = {} /\ m_events' = {} /\ m_fibers' = {}
    BY DEF SeenInv
  <1>2. CASE \/ \E c \in Tasks : Body(t, c)
             \/ \E e \in Tasks \cup {Pipe} : Handle(t, e)
    <2>1. pc[t] \in {"body", "handle"} /\ UNCHANGED <<pc, idleTerm>>
      BY <1>2 DEF Body, Handle, At
    <2> QED
      BY <2>1 DEF SeenInv
  <1>3. CASE YieldToReady(t) \/ Return(t) \/ Deactivate(t) \/ Reschedule(t)
    <2>1. pc[t] \in {"body", "back", "ready"} /\ pc'[t] \in {"back", "ready", "fetch"}
          /\ UNCHANGED idleTerm
      BY <1>0, <1>3, GoFact DEF YieldToReady, Return, Deactivate, Reschedule, At
    <2> QED
      BY <2>1 DEF SeenInv
  <1>4. ASSUME NEW c \in Tasks, Fetch(t, c)
        PROVE  pc'[t] = "body" /\ t \notin idleTerm'
    BY <1>0, <1>4, GoFact DEF Fetch, SeenInv
  <1>5. CASE FetchNothing(t) \/ NoTask(t)
    <2>1. /\ pc'[t] \in {"noTask", "exit", "timers"}
          /\ t \in idleTerm => pc'[t] # "timers"
          /\ UNCHANGED <<idleTerm, m_timers, m_events, m_fibers>>
      BY <1>0, <1>5, GoFact DEF FetchNothing, NoTask
    <2> QED
      BY <2>1 DEF SeenInv
  <1>6. CASE ReadTimers(t)
    <2>1. /\ pc[t] = "timers" /\ pc'[t] = (IF m_timers = {} THEN "events" ELSE "wait")
          /\ UNCHANGED <<idleTerm, m_timers>>
      BY <1>0, <1>6, GoFact DEF ReadTimers, At
    <2> QED
      BY <2>1 DEF SeenInv
  <1>7. CASE ReadEvents(t)
    <2>1. /\ pc[t] = "events" /\ pc'[t] = (IF m_events = {} THEN "lists" ELSE "wait")
          /\ UNCHANGED <<idleTerm, m_timers, m_events>>
      BY <1>0, <1>7, GoFact DEF ReadEvents, At
    <2> QED
      BY <2>1 DEF SeenInv
  <1>8. CASE ReadLists(t)
    <2>1. /\ pc[t] = "lists" /\ pc'[t] = (IF Stopping THEN "fetch" ELSE "wait")
          /\ idleTerm' = (IF Stopping THEN idleTerm \cup {t} ELSE idleTerm)
          /\ UNCHANGED <<m_fibers, m_timers, m_events>>
      BY <1>0, <1>8, GoFact DEF ReadLists, At
    <2> QED
      BY <2>1 DEF SeenInv, Stopping
  <1>9. CASE EpollWait(t) \/ ListExpired(t) \/ PushExpired(t) \/ LeaveIdle(t)
    <2>1. /\ pc[t] \in {"wait", "expired", "push", "handle"} /\ UNCHANGED idleTerm
          /\ pc'[t] \in {"expired", "push", "handle", "fetch"}
      BY <1>0, <1>9, GoFact DEF EpollWait, ListExpired, PushExpired, LeaveIdle, At
    <2> QED
      BY <2>1 DEF SeenInv
  <1> QED
    BY <1>2, <1>3, <1>4, <1>5, <1>6, <1>7, <1>8, <1>9 DEF WorkerStep

LEMMA SeenStep ==
    ASSUME DrainInv, SeenInv, Cardinality(Workers) = 1, [Next]_vars PROVE SeenInv'
  <1>1. CASE UNCHANGED vars
    BY <1>1 DEF SeenInv, vars
  <1>2. ASSUME NEW t \in Workers, WorkerStep(t) PROVE SeenInv'
    <2>1. Workers = {t}
      BY ThreadsAssumption, FS_Singleton
    <2> QED
      BY <1>2, <2>1, SeenWorker
  <1>3. CASE \/ \E c \in Tasks : Submit(c) \/ Expire(c) \/ Arrive(c)
             \/ Stop \/ Join \/ \E t \in Threads : Tickle(t)
    <2>1. /\ UNCHANGED <<idleTerm, m_timers, m_events>>
          /\ \A u \in Workers : pc'[u] = pc[u]
          /\ pc[Main] # "running" => UNCHANGED m_fibers
      BY <1>3, OtherMoves DEF DrainInv
    <2> QED
      BY <2>1 DEF SeenInv, DrainInv, TermLate
  <1> QED
    BY <1>1, <1>2, <1>3 DEF Next

\* With one thread in run() everything that was handed over has run when stop() has
\* returned, whatever the tasks do: nobody is left to change what stopping() has read.
\* With two it is not so: a READY task or an expired callback is for a moment nowhere
\* that stopping() looks.
THEOREM StopGracefulCorrect ==
    ASSUME Cardinality(Workers) = 1 PROVE Spec => []StopIsGraceful
  <1>1. DrainInv /\ SeenInv => StopIsGraceful
    <2> SUFFICES ASSUME DrainInv, SeenInv, pc[Main] = "stopped", NEW c \in Tasks \ fresh
                 PROVE  c \in finished
      BY DEF StopIsGraceful
    <2>1. PICK t \in Workers : t \in idleTerm
      BY ThreadsAssumption DEF DrainInv, Joined, TermLate
    <2> QED
      BY <2>1, LeftBehind DEF SeenInv
  <1>2. Init => SeenInv
    BY ThreadsAssumption DEF Init, SeenInv, Threads
  <1>3. DrainInv /\ SeenInv /\ [Next]_vars => SeenInv'
    BY SeenStep
  <1> QED
    BY <1>1, <1>2, <1>3, DrainAlways, PTL DEF Spec
=============================================================================
