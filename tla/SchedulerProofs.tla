-------------------------- MODULE SchedulerProofs --------------------------
(***************************************************************************)
(* Proofs about Scheduler, for any set of workers, with and without        *)
(* use_caller, any tasks and any bounds.  The first half, about the types  *)
(* and the count of active threads, is about tasks with any operations;    *)
(* the second, about who owns a fiber, about tasks that do not hold        *)
(* (NoHold), since a held fiber may be resumed before it has left its      *)
(* stack.                                                                  *)
(***************************************************************************)
EXTENDS Scheduler, FiniteSetTheorems, TLAPS

\* A thread that has not been started, or has left run().
Off == {"off", "exit"}

\* Before start() and after stop() no worker is in run(); the caller's thread is
\* in run() only while stop() has called m_rootFiber.
MainInv ==
    /\ main \in {"new", "stopped"} => \A t \in Workers : pc[t] \in Off
    /\ main # "inRoot" => \A r \in RootThreads : pc[r] \in Off

\* A thread on its way through a task knows its fiber, in ft or in cb_fiber.
RanOK(t) ==
    /\ pc[t] = "resume" => ft[t].fiber \in Tasks
    /\ pc[t] \in {"body", "armed", "switch"} => cur[t] \in Tasks
    /\ pc[t] \in {"body", "armed", "switch", "back", "settle", "hold"} => Ran(t) \in Tasks
RanInv == \A t \in Threads : RanOK(t)

\* The threads that m_activeThreadCount counts.
ActiveThreads == {t \in Threads : pc[t] \in Active}

\* Types, with a count that might be negative.
TypeInt ==
    /\ main \in MainPCs /\ starts \in Nat
    /\ m_stopping \in BOOLEAN /\ m_autostop \in BOOLEAN
    /\ m_fibers \in Seq(Items)
    /\ m_activeThreadCount \in Int
    /\ rootState \in States
    /\ pc \in [Threads -> PCs]
    /\ ft \in [Threads -> Items]
    /\ cur \in [Threads -> Tasks \cup {None}]
    /\ cb_fiber \in [Threads -> Tasks \cup {None}]
    /\ idleTerm \in [Threads -> BOOLEAN]
    /\ m_state \in [Tasks -> States]
    /\ m_cb \in [Tasks -> Tasks \cup {None}]
    /\ armed \subseteq Tasks /\ submitted \subseteq Tasks
    /\ finished \in [Tasks -> Nat] /\ yields \in [Tasks -> Nat]
    /\ failed \in BOOLEAN

-----------------------------------------------------------------------------
(* Facts about the parts *)

\* ft after reset() and the items schedule() builds are FiberAndThread values.
LEMMA ItemType ==
    /\ Empty \in Items
    /\ \A f \in Tasks, thd \in Threads \cup {AnyThread} :
          FiberItem(f, thd) \in Items /\ CbItem(f, thd) \in Items
  BY DEF Empty, FiberItem, CbItem, Items

\* Erasing an item leaves a list of items, one shorter.
LEMMA WithoutType ==
    ASSUME m_fibers \in Seq(Items), NEW i \in DOMAIN m_fibers
    PROVE  /\ Without(i) \in Seq(Items)
           /\ Len(Without(i)) = Len(m_fibers) - 1
  <1>1. Len(m_fibers) \in Nat /\ DOMAIN m_fibers = 1..Len(m_fibers)
    OBVIOUS
  <1>2. Len(m_fibers) - 1 \in Nat
    BY <1>1
  <1>3. ASSUME NEW j \in 1..(Len(m_fibers) - 1)
        PROVE  (IF j < i THEN m_fibers[j] ELSE m_fibers[j + 1]) \in Items
    <2>1. j \in 1..Len(m_fibers) /\ j + 1 \in 1..Len(m_fibers)
      BY <1>1
    <2>2. m_fibers[j] \in Items /\ m_fibers[j + 1] \in Items
      BY <2>1
    <2> QED
      BY <2>2
  <1>4. Without(i) \in [1..(Len(m_fibers) - 1) -> Items]
    BY <1>3 DEF Without
  <1> QED
    BY <1>2, <1>4

\* Counting a task that is (or is not) one of Tasks.
LEMMA CountType ==
    ASSUME NEW g \in [Tasks -> Nat], NEW x
    PROVE  [g EXCEPT ![x] = @ + 1] \in [Tasks -> Nat]
  <1> DEFINE h == [g EXCEPT ![x] = @ + 1]
  <1>1. h = [c \in Tasks |-> IF c = x THEN g[c] + 1 ELSE g[c]]
    BY Zenon
  <1>2. ASSUME NEW c \in Tasks PROVE (IF c = x THEN g[c] + 1 ELSE g[c]) \in Nat
    OBVIOUS
  <1> QED
    BY <1>1, <1>2

\* The active threads are finitely many; one more or one less counts as such.
LEMMA ActiveCount ==
    ASSUME NEW S \in SUBSET Threads, NEW t \in Threads
    PROVE  /\ Cardinality(S) \in Nat
           /\ t \notin S => Cardinality(S \cup {t}) = Cardinality(S) + 1
           /\ t \in S => Cardinality(S \ {t}) = Cardinality(S) - 1 /\ Cardinality(S) >= 1
  <1>1. IsFiniteSet(S)
    BY ThreadsAssumption, FS_Subset
  <1>2. Cardinality(S) \in Nat
    BY <1>1, FS_CardinalityType
  <1>3. t \notin S => Cardinality(S \cup {t}) = Cardinality(S) + 1
    BY <1>1, FS_AddElement
  <1>4. t \in S => Cardinality(S \ {t}) = Cardinality(S) - 1
    BY <1>1, FS_RemoveElement
  <1>5. IsFiniteSet(S \ {t})
    BY <1>1, FS_Subset
  <1>6. Cardinality(S \ {t}) \in Nat
    BY <1>5, FS_CardinalityType
  <1> QED
    BY <1>2, <1>3, <1>4, <1>6

-----------------------------------------------------------------------------
(* Types *)

\* The initial state is well typed.
LEMMA InitType == Init => TypeInt
  <1> SUFFICES ASSUME Init PROVE TypeInt
    OBVIOUS
  <1>1. /\ m_stopping \in BOOLEAN /\ m_autostop \in BOOLEAN /\ failed \in BOOLEAN
        /\ idleTerm \in [Threads -> BOOLEAN]
    BY Zenon DEF Init
  <1>2. ft \in [Threads -> Items]
    BY ItemType DEF Init
  <1>3. m_fibers \in Seq(Items)
    BY DEF Init
  <1>4. /\ main \in MainPCs /\ rootState \in States
        /\ pc \in [Threads -> PCs] /\ m_state \in [Tasks -> States]
    BY DEF Init, MainPCs, States, PCs
  <1>5. /\ cur \in [Threads -> Tasks \cup {None}]
        /\ cb_fiber \in [Threads -> Tasks \cup {None}]
        /\ m_cb \in [Tasks -> Tasks \cup {None}]
        /\ finished \in [Tasks -> Nat] /\ yields \in [Tasks -> Nat]
        /\ armed \subseteq Tasks /\ submitted \subseteq Tasks
        /\ starts \in Nat /\ m_activeThreadCount \in Int
    BY DEF Init
  <1> QED
    BY <1>1, <1>2, <1>3, <1>4, <1>5 DEF TypeInt

\* The steps of the program's own thread and of wakers keep the types.
LEMMA ProgramType ==
    ASSUME TypeInt, MainStep \/ Submit \/ \E f \in Tasks : Wake(f)
    PROVE  TypeInt'
  <1> USE DEF TypeInt, MainPCs, States, PCs
  <1>1. CASE Start
    <2>1. pc' \in [Threads -> PCs] /\ cb_fiber' \in [Threads -> Tasks \cup {None}]
      BY <1>1 DEF Start
    <2>2. idleTerm' \in [Threads -> BOOLEAN]
      <3>1. \A t \in Threads : (IF t \in Workers THEN FALSE ELSE idleTerm[t]) \in BOOLEAN
        OBVIOUS
      <3> QED
        BY <1>1, <3>1, Zenon DEF Start
    <2>3. /\ main' = "running" /\ starts' = starts + 1
          /\ UNCHANGED <<m_autostop, m_fibers, m_activeThreadCount, rootState, ft, cur,
                         m_state, m_cb, armed, submitted, finished, yields, failed>>
      BY <1>1 DEF Start, fiberVars, taskVars
    <2>4. m_stopping' \in BOOLEAN
      BY <1>1, Zenon DEF Start
    <2> QED
      BY <2>1, <2>2, <2>3, <2>4
  <1>2. CASE BeginStop
    BY <1>2 DEF BeginStop, MainAt, threadVars, fiberVars, taskVars
  <1>3. ASSUME NEW r \in RootThreads, CallRoot(r) PROVE TypeInt'
    <2>1. failed' \in BOOLEAN
      BY <1>3 DEF CallRoot
    <2>2. pc' \in [Threads -> PCs] /\ main' \in MainPCs /\ rootState' \in States
      BY <1>3 DEF CallRoot, Threads
    <2> QED
      BY <1>3, <2>1, <2>2 DEF CallRoot, schedVars, fiberVars, taskVars
  <1>4. ASSUME NEW r \in RootThreads, RootReturns(r) PROVE TypeInt'
    BY <1>4 DEF RootReturns, MainAt, schedVars, threadVars, fiberVars, taskVars
  <1>5. CASE Join
    BY <1>5 DEF Join, MainAt, schedVars, threadVars, fiberVars, taskVars
  <1>6. ASSUME NEW c \in Tasks, NEW thd \in Pins, SubmitCb(c, thd) PROVE TypeInt'
    <2>1. m_fibers' \in Seq(Items)
      BY <1>6, ItemType, ThreadsAssumption DEF SubmitCb, Schedule
    <2> QED
      BY <1>6, <2>1 DEF SubmitCb, MainAt, mainVars, threadVars, fiberVars
  <1>7. ASSUME NEW c \in Tasks, NEW thd \in Pins, SubmitFiber(c, thd) PROVE TypeInt'
    <2>1. m_fibers' \in Seq(Items)
      BY <1>7, ItemType, ThreadsAssumption DEF SubmitFiber, Schedule
    <2> QED
      BY <1>7, <2>1 DEF SubmitFiber, MainAt, mainVars, threadVars
  <1>8. ASSUME NEW c \in Tasks, Resubmit(c) PROVE TypeInt'
    <2>1. m_fibers' \in Seq(Items)
      BY <1>8, ItemType DEF Resubmit, Schedule
    <2> QED
      BY <1>8, <2>1 DEF Resubmit, MainAt, mainVars, threadVars, fiberVars, taskVars
  <1>9. ASSUME NEW f \in Tasks, Wake(f) PROVE TypeInt'
    <2>1. m_fibers' \in Seq(Items)
      BY <1>9, ItemType DEF Wake, Schedule
    <2> QED
      BY <1>9, <2>1 DEF Wake, mainVars, threadVars, fiberVars
  <1> QED
    BY <1>1, <1>2, <1>3, <1>4, <1>5, <1>6, <1>7, <1>8, <1>9 DEF MainStep, Submit

\* What a task does while it runs keeps the types.
LEMMA BodyType ==
    ASSUME TypeInt, NEW t \in Threads, cur[t] \in Tasks, Body(t)
    PROVE  TypeInt'
  <1> USE DEF TypeInt, States, PCs
  <1>1. /\ UNCHANGED <<mainVars, m_stopping, m_autostop, m_activeThreadCount, ft, cur,
                        cb_fiber, idleTerm>>
    BY DEF Body
  <1>2. [yields EXCEPT ![m_cb[cur[t]]] = @ + 1] \in [Tasks -> Nat]
    BY CountType
  <1>3. ASSUME Return(t) \/ Throw(t) PROVE TypeInt'
    <2>1. finished' = [finished EXCEPT ![m_cb[cur[t]]] = @ + 1]
      BY <1>3 DEF Return, Throw
    <2>2. finished' \in [Tasks -> Nat]
      BY <2>1, CountType
    <2> QED
      BY <1>1, <1>3, <2>2 DEF Return, Throw, mainVars
  <1>5. CASE YieldToReady(t)
    <2>1. failed' \in BOOLEAN
      BY <1>5 DEF YieldToReady
    <2>2. yields' \in [Tasks -> Nat]
      BY <1>2, <1>5 DEF YieldToReady, CountYield
    <2> QED
      BY <1>1, <1>5, <2>1, <2>2 DEF YieldToReady, mainVars
  <1>6. CASE Arm(t)
    <2>1. yields' \in [Tasks -> Nat]
      BY <1>2, <1>6 DEF Arm, CountYield
    <2> QED
      BY <1>1, <1>6, <2>1 DEF Arm, mainVars
  <1>7. ASSUME NEW thd \in Pins, SwitchTo(t, thd) PROVE TypeInt'
    <2>1. m_fibers' \in Seq(Items)
      BY <1>7, ItemType, ThreadsAssumption DEF SwitchTo, Schedule
    <2>2. yields' \in [Tasks -> Nat]
      BY <1>2, <1>7 DEF SwitchTo, CountYield
    <2> QED
      BY <1>1, <1>7, <2>1, <2>2 DEF SwitchTo, mainVars
  <1>8. ASSUME NEW c \in Tasks, NEW thd \in Pins, Spawn(t, c, thd) PROVE TypeInt'
    <2>1. m_fibers' \in Seq(Items)
      BY <1>8, ItemType, ThreadsAssumption DEF Spawn, Schedule
    <2> QED
      BY <1>1, <1>8, <2>1 DEF Spawn, mainVars
  <1> QED
    BY <1>3, <1>5, <1>6, <1>7, <1>8 DEF Body

\* The steps of Scheduler::run keep the types.
LEMMA RunType ==
    ASSUME TypeInt, RanInv, NEW t \in Threads, RunStep(t)
    PROVE  TypeInt'
  <1> USE DEF TypeInt, States, PCs
  <1>1. ASSUME NEW i \in DOMAIN m_fibers, Fetch(t, i) PROVE TypeInt'
    <2>1. m_fibers' \in Seq(Items)
      BY <1>1, WithoutType DEF Fetch
    <2>2. m_fibers[i] \in Items
      OBVIOUS
    <2> QED
      BY <1>1, <2>1, <2>2 DEF Fetch, mainVars, fiberVars, taskVars
  <1>2. CASE FetchNothing(t)
    BY <1>2 DEF FetchNothing, mainVars, schedVars, fiberVars, taskVars
  <1>3. CASE ResumeFiber(t)
    <2>1. failed' \in BOOLEAN
      BY <1>3 DEF ResumeFiber
    <2>2. ft[t].fiber \in Tasks
      BY <1>3 DEF ResumeFiber, At, RanInv, RanOK
    <2> QED
      BY <1>3, <2>1, <2>2 DEF ResumeFiber, mainVars, schedVars, taskVars
  <1>4. CASE DropEnded(t)
    BY <1>4, ItemType DEF DropEnded, mainVars, fiberVars, taskVars
  <1>5. CASE ResumeCb(t)
    <2> DEFINE f == IF cb_fiber[t] # None THEN cb_fiber[t] ELSE ft[t].cb
    <2>1. failed' \in BOOLEAN
      BY <1>5 DEF ResumeCb
    <2>2. f \in Tasks /\ ft[t].cb \in Tasks
      BY <1>5 DEF ResumeCb, Items
    <2>3. /\ m_state' = [m_state EXCEPT ![f] = "EXEC"]
          /\ m_cb' = [m_cb EXCEPT ![f] = ft[t].cb]
          /\ cb_fiber' = [cb_fiber EXCEPT ![t] = f]
          /\ cur' = [cur EXCEPT ![t] = f]
      BY <1>5 DEF ResumeCb
    <2>4. ft' \in [Threads -> Items]
      BY <1>5, ItemType DEF ResumeCb
    <2> HIDE DEF f
    <2> QED
      BY <1>5, <2>1, <2>2, <2>3, <2>4 DEF ResumeCb, mainVars, schedVars, taskVars
  <1>6. CASE Body(t)
    BY <1>6, BodyType DEF RanInv, RanOK, Body, At
  <1>7. CASE YieldToHold(t)
    <2>1. failed' \in BOOLEAN
      BY <1>7 DEF YieldToHold
    <2> QED
      BY <1>7, <2>1 DEF YieldToHold, mainVars, schedVars, taskVars
  <1>8. CASE SwapOut(t)
    BY <1>8 DEF SwapOut, mainVars, schedVars, fiberVars, taskVars
  <1>9. CASE Deactivate(t)
    BY <1>9 DEF Deactivate, mainVars, fiberVars, taskVars
  <1>10. CASE SettleReady(t)
    <2>1. Ran(t) \in Tasks
      BY <1>10 DEF SettleReady, At, RanInv, RanOK
    <2>2. m_fibers' \in Seq(Items)
      BY <1>10, <2>1, ItemType DEF SettleReady, Schedule
    <2>3. ft' \in [Threads -> Items] /\ cb_fiber' \in [Threads -> Tasks \cup {None}]
      BY <1>10, ItemType DEF SettleReady
    <2> QED
      BY <1>10, <2>2, <2>3 DEF SettleReady, mainVars, fiberVars, taskVars
  <1>11. CASE SettleEnded(t)
    <2>1. ft' \in [Threads -> Items]
      BY <1>11, ItemType DEF SettleEnded
    <2>2. m_state' \in [Tasks -> States] /\ m_cb' \in [Tasks -> Tasks \cup {None}]
      BY <1>11 DEF SettleEnded, fiberVars
    <2> QED
      BY <1>11, <2>1, <2>2 DEF SettleEnded, mainVars, schedVars, taskVars
  <1>12. CASE SettleHeld(t)
    BY <1>12 DEF SettleHeld, mainVars, schedVars, fiberVars, taskVars
  <1>13. CASE SetHold(t)
    <2>1. ft' \in [Threads -> Items] /\ cb_fiber' \in [Threads -> Tasks \cup {None}]
      BY <1>13, ItemType DEF SetHold
    <2>2. failed' \in BOOLEAN
      BY <1>13 DEF SetHold, LastReference
    <2> QED
      BY <1>13, <2>1, <2>2 DEF SetHold, mainVars, schedVars, taskVars
  <1>14. CASE NoTask(t)
    BY <1>14 DEF NoTask, mainVars, schedVars, fiberVars, taskVars
  <1>15. CASE Idle(t)
    <2>1. idleTerm' \in [Threads -> BOOLEAN]
      BY <1>15 DEF Idle, Stopping
    <2> QED
      BY <1>15, <2>1 DEF Idle, mainVars, schedVars, fiberVars, taskVars
  <1>16. CASE TestFiber(t)
    BY <1>16 DEF TestFiber, mainVars, schedVars, fiberVars, taskVars
  <1> QED
    BY <1>1, <1>2, <1>3, <1>4, <1>5, <1>6, <1>7, <1>8, <1>9, <1>10, <1>11, <1>12,
       <1>13, <1>14, <1>15, <1>16 DEF RunStep

-----------------------------------------------------------------------------
(* The count of active threads *)

\* A thread that becomes active, stays as it is or stops being active changes
\* the set of active threads by itself only.
LEMMA MovePc ==
    ASSUME TypeInt, NEW t \in Threads, NEW p \in PCs, pc' = [pc EXCEPT ![t] = p]
    PROVE  /\ p \in Active => ActiveThreads' = ActiveThreads \cup {t}
           /\ p \notin Active => ActiveThreads' = ActiveThreads \ {t}
  BY DEF TypeInt, ActiveThreads

\* Every step of run() keeps the count exact.
LEMMA RunActive ==
    ASSUME TypeInt, ActiveExact, NEW t \in Threads, RunStep(t)
    PROVE  ActiveExact'
  <1> USE DEF TypeInt
  <1>0. /\ ActiveThreads \in SUBSET Threads
        /\ m_activeThreadCount = Cardinality(ActiveThreads)
        /\ ActiveExact' <=> m_activeThreadCount' = Cardinality(ActiveThreads')
    BY DEF ActiveThreads, ActiveExact
  <1>1. ASSUME NEW i \in DOMAIN m_fibers, Fetch(t, i) PROVE ActiveExact'
    <2>1. pc' = [pc EXCEPT ![t] = "dispatch"] /\ pc[t] = "fetch"
      BY <1>1 DEF Fetch, At
    <2>2. ActiveThreads' = ActiveThreads \cup {t}
      BY <2>1, MovePc DEF Active, PCs
    <2>3. t \notin ActiveThreads
      BY <2>1 DEF ActiveThreads, Active
    <2>4. m_activeThreadCount' = m_activeThreadCount + 1
      BY <1>1 DEF Fetch
    <2> QED
      BY <1>0, <2>2, <2>3, <2>4, ActiveCount
  <1>2. CASE DropEnded(t) \/ Deactivate(t)
    <2>1. PICK p \in PCs : p \notin Active /\ pc' = [pc EXCEPT ![t] = p]
      BY <1>2 DEF DropEnded, Deactivate, PCs, Active
    <2>2. ActiveThreads' = ActiveThreads \ {t}
      BY <2>1, MovePc
    <2>3. t \in ActiveThreads
      BY <1>2 DEF DropEnded, Deactivate, At, ActiveThreads, Active
    <2>4. m_activeThreadCount' = m_activeThreadCount - 1
      BY <1>2 DEF DropEnded, Deactivate
    <2> QED
      BY <1>0, <2>2, <2>3, <2>4, ActiveCount
  <1>3. CASE TestFiber(t) \/ ResumeFiber(t) \/ ResumeCb(t) \/ Body(t) \/ YieldToHold(t) \/ SwapOut(t)
    <2>1. t \in ActiveThreads
      BY <1>3 DEF TestFiber, ResumeFiber, ResumeCb, Body, YieldToHold, SwapOut, At, ActiveThreads,
                  Active
    <2>2. m_activeThreadCount' = m_activeThreadCount
      BY <1>3 DEF TestFiber, ResumeFiber, ResumeCb, Body, YieldToHold, SwapOut, schedVars
    <2>3. ActiveThreads' = ActiveThreads
      <3>1. CASE pc' = pc
        BY <3>1 DEF ActiveThreads
      <3>2. CASE \E p \in PCs : p \in Active /\ pc' = [pc EXCEPT ![t] = p]
        <4>1. PICK p \in PCs : p \in Active /\ pc' = [pc EXCEPT ![t] = p]
          BY <3>2
        <4>2. ActiveThreads' = ActiveThreads \cup {t}
          BY <4>1, MovePc
        <4> QED
          BY <2>1, <4>2
      <3>3. pc' = pc \/ \E p \in PCs : p \in Active /\ pc' = [pc EXCEPT ![t] = p]
        BY <1>3 DEF TestFiber, ResumeFiber, ResumeCb, Body, Return, Throw, YieldToReady, Arm,
                    SwitchTo, Spawn, YieldToHold, SwapOut, PCs, Active
      <3> QED
        BY <3>1, <3>2, <3>3
    <2> QED
      BY <1>0, <2>2, <2>3
  <1>4. CASE FetchNothing(t) \/ SettleReady(t) \/ SettleEnded(t) \/ SettleHeld(t)
             \/ SetHold(t) \/ NoTask(t) \/ Idle(t)
    <2>1. t \notin ActiveThreads
      BY <1>4 DEF FetchNothing, SettleReady, SettleEnded, SettleHeld, SetHold, NoTask,
                  Idle, At, ActiveThreads, Active
    <2>2. m_activeThreadCount' = m_activeThreadCount
      BY <1>4 DEF FetchNothing, SettleReady, SettleEnded, SettleHeld, SetHold, NoTask,
                  Idle, schedVars
    <2>3. PICK p \in PCs : p \notin Active /\ pc' = [pc EXCEPT ![t] = p]
      BY <1>4 DEF FetchNothing, SettleReady, SettleEnded, SettleHeld, SetHold, NoTask,
                  Idle, PCs, Active
    <2>4. ActiveThreads' = ActiveThreads
      <3>1. ActiveThreads' = ActiveThreads \ {t}
        BY <2>3, MovePc
      <3> QED
        BY <2>1, <3>1
    <2> QED
      BY <1>0, <2>2, <2>4
  <1> QED
    BY <1>1, <1>2, <1>3, <1>4 DEF RunStep

\* The program's thread starts and resumes only threads that are not in run(),
\* and nothing else it does touches the count.
LEMMA ProgramActive ==
    ASSUME TypeInt, MainInv, ActiveExact, MainStep \/ Submit \/ \E f \in Tasks : Wake(f)
    PROVE  ActiveExact'
  <1> USE DEF TypeInt
  <1>1. m_activeThreadCount' = m_activeThreadCount
    BY DEF MainStep, Start, BeginStop, CallRoot, RootReturns, Join, Submit, SubmitCb,
           SubmitFiber, Resubmit, Wake, schedVars
  <1>2. ActiveThreads' = ActiveThreads
    <2>1. CASE Start
      BY <2>1 DEF Start, MainAt, MainInv, Off, ActiveThreads, Active
    <2>2. ASSUME NEW r \in RootThreads, CallRoot(r) PROVE ActiveThreads' = ActiveThreads
      BY <2>2 DEF CallRoot, MainAt, MainInv, Off, ActiveThreads, Active
    <2>3. CASE pc' = pc
      BY <2>3 DEF ActiveThreads
    <2> QED
      BY <2>1, <2>2, <2>3 DEF MainStep, BeginStop, RootReturns, Join, Submit, SubmitCb,
           SubmitFiber, Resubmit, Wake, threadVars
  <1> QED
    BY <1>1, <1>2 DEF ActiveExact, ActiveThreads

-----------------------------------------------------------------------------
(* The inductive invariant *)

IInv == TypeInt /\ RanInv /\ MainInv /\ ActiveExact

\* Every step keeps what a thread knows of its fiber.
LEMMA NextRan == ASSUME TypeInt, RanInv, Next PROVE RanInv'
  <1> SUFFICES ASSUME NEW u \in Threads PROVE RanOK(u)'
    BY DEF RanInv
  <1>0. RanOK(u)
    BY DEF RanInv
  <1> USE DEF TypeInt, RanOK, Ran
  <1>1. CASE MainStep
    <2>1. CASE Start
      BY <1>0, <2>1 DEF Start
    <2>2. ASSUME NEW r \in RootThreads, CallRoot(r) PROVE RanOK(u)'
      BY <1>0, <2>2 DEF CallRoot, Threads
    <2> QED
      BY <1>0, <1>1, <2>1, <2>2 DEF MainStep, BeginStop, RootReturns, Join, threadVars
  <1>2. CASE Submit \/ \E f \in Tasks : Wake(f)
    BY <1>0, <1>2 DEF Submit, SubmitCb, SubmitFiber, Resubmit, Wake, threadVars
  <1>3. ASSUME NEW t \in Threads, RunStep(t) PROVE RanOK(u)'
    <2>1. ASSUME NEW i \in DOMAIN m_fibers, Fetch(t, i) PROVE RanOK(u)'
      BY <1>0, <2>1 DEF Fetch
    <2>2. CASE FetchNothing(t) \/ SettleHeld(t) \/ NoTask(t) \/ Idle(t)
      BY <1>0, <2>2 DEF FetchNothing, SettleHeld, NoTask, Idle, At
    <2>3. CASE ResumeFiber(t)
      <3>1. ft[t].fiber \in Tasks
        BY <2>3 DEF ResumeFiber, At, RanInv
      <3> QED
        BY <1>0, <2>3, <3>1, TasksAssumption DEF ResumeFiber
    <2>4. CASE DropEnded(t)
      BY <1>0, <2>4 DEF DropEnded
    <2>5. CASE ResumeCb(t)
      <3> DEFINE f == IF cb_fiber[t] # None THEN cb_fiber[t] ELSE ft[t].cb
      <3>1. f \in Tasks
        BY <2>5 DEF ResumeCb, Items
      <3>2. /\ pc' = [pc EXCEPT ![t] = "body"] /\ ft' = [ft EXCEPT ![t] = Empty]
            /\ cb_fiber' = [cb_fiber EXCEPT ![t] = f] /\ cur' = [cur EXCEPT ![t] = f]
        BY <2>5 DEF ResumeCb
      <3>3. Empty.fiber = None
        BY DEF Empty
      <3> HIDE DEF f
      <3> QED
        BY <1>0, <3>1, <3>2, <3>3
    <2>6. CASE Body(t)
      BY <1>0, <2>6 DEF Body, At, Return, Throw, YieldToReady, Arm, SwitchTo, Spawn
    <2>7. CASE YieldToHold(t) \/ SwapOut(t) \/ Deactivate(t)
      BY <1>0, <2>7 DEF YieldToHold, SwapOut, Deactivate, At
    <2>8. CASE SettleReady(t) \/ SettleEnded(t) \/ SetHold(t)
      BY <1>0, <2>8 DEF SettleReady, SettleEnded, SetHold
    <2>9. CASE TestFiber(t)
      BY <1>0, <2>9 DEF TestFiber, Items
    <2> QED
      BY <1>3, <2>1, <2>2, <2>3, <2>4, <2>5, <2>6, <2>7, <2>8, <2>9 DEF RunStep
  <1> QED
    BY <1>1, <1>2, <1>3 DEF Next

\* Every step keeps the program's thread and the others in step.
LEMMA NextMain == ASSUME TypeInt, MainInv, Next PROVE MainInv'
  <1> USE DEF TypeInt, MainInv, Off
  <1>1. CASE MainStep
    <2>1. CASE Start
      BY <2>1, ThreadsAssumption DEF Start, MainAt, Threads
    <2>2. CASE BeginStop
      BY <2>2 DEF BeginStop, MainAt, threadVars
    <2>3. ASSUME NEW r \in RootThreads, CallRoot(r) PROVE MainInv'
      BY <2>3 DEF CallRoot, MainAt
    <2>4. ASSUME NEW r \in RootThreads, RootReturns(r) PROVE MainInv'
      BY <2>4, ThreadsAssumption DEF RootReturns, MainAt, threadVars
    <2>5. CASE Join
      BY <2>5 DEF Join, MainAt, threadVars
    <2> QED
      BY <1>1, <2>1, <2>2, <2>3, <2>4, <2>5 DEF MainStep
  <1>2. CASE Submit \/ \E f \in Tasks : Wake(f)
    BY <1>2 DEF Submit, SubmitCb, SubmitFiber, Resubmit, Wake, threadVars, mainVars
  <1>3. ASSUME NEW t \in Threads, RunStep(t) PROVE MainInv'
    <2>1. main' = main /\ pc[t] \notin Off
      BY <1>3 DEF RunStep, Fetch, FetchNothing, TestFiber, ResumeFiber, DropEnded, ResumeCb, Body,
           YieldToHold, SwapOut, Deactivate, SettleReady, SettleEnded, SettleHeld, SetHold,
           NoTask, Idle, At, mainVars
    <2>2. \A u \in Threads : u # t => pc'[u] = pc[u]
      BY <1>3 DEF RunStep, Fetch, FetchNothing, TestFiber, ResumeFiber, DropEnded, ResumeCb, Body,
           Return, Throw, YieldToReady, Arm, SwitchTo, Spawn,
           YieldToHold, SwapOut, Deactivate, SettleReady, SettleEnded, SettleHeld, SetHold,
           NoTask, Idle
    <2>3. CASE t \in Workers
      BY <2>1, <2>2, <2>3, ThreadsAssumption DEF Threads
    <2>4. CASE t \in RootThreads
      BY <2>1, <2>2, <2>4, ThreadsAssumption DEF Threads
    <2> QED
      BY <2>3, <2>4 DEF Threads
  <1> QED
    BY <1>1, <1>2, <1>3 DEF Next

\* The invariant holds initially and is kept by every step.
THEOREM Invariant == Spec => []IInv
  <1>1. Init => IInv
    <2> SUFFICES ASSUME Init PROVE IInv
      OBVIOUS
    <2>1. TypeInt
      BY InitType
    <2>2. RanInv
      BY DEF Init, RanInv, RanOK
    <2>3. MainInv
      BY DEF Init, MainInv, Off, Threads
    <2>4. ActiveExact
      <3>1. {t \in Threads : pc[t] \in Active} = {}
        BY DEF Init, Active
      <3>2. Cardinality({}) = 0
        BY FS_EmptySet
      <3> QED
        BY <3>1, <3>2 DEF Init, ActiveExact
    <2> QED
      BY <2>1, <2>2, <2>3, <2>4 DEF IInv
  <1>2. IInv /\ [Next]_vars => IInv'
    <2> SUFFICES ASSUME IInv, [Next]_vars PROVE IInv'
      OBVIOUS
    <2>1. CASE Next
      <3>1. TypeInt'
        BY <2>1, ProgramType, RunType DEF IInv, Next
      <3>2. RanInv' /\ MainInv'
        BY <2>1, NextRan, NextMain DEF IInv
      <3>3. ActiveExact'
        BY <2>1, RunActive, ProgramActive DEF IInv, Next
      <3> QED
        BY <3>1, <3>2, <3>3 DEF IInv
    <2>2. CASE UNCHANGED vars
      BY <2>2 DEF vars, IInv, TypeInt, RanInv, RanOK, Ran, MainInv, ActiveExact
    <2> QED
      BY <2>1, <2>2
  <1> QED
    BY <1>1, <1>2, PTL DEF Spec

\* m_activeThreadCount is exact in every reachable state, with any mix of
\* yields, holds, exceptions, migrations and double scheduling.
THEOREM ActiveCorrect == Spec => []ActiveExact
  <1>1. IInv => ActiveExact
    BY DEF IInv
  <1> QED
    BY <1>1, Invariant, PTL

\* Type correctness; in particular the unsigned m_activeThreadCount is never
\* decremented below zero.
THEOREM TypeCorrect == Spec => []TypeOK
  <1>1. IInv => TypeOK
    <2> SUFFICES ASSUME IInv PROVE TypeOK
      OBVIOUS
    <2>1. m_activeThreadCount \in Nat
      <3>1. {t \in Threads : pc[t] \in Active} \in SUBSET Threads
        OBVIOUS
      <3>2. Threads # {}
        BY ThreadsAssumption
      <3> QED
        BY <3>1, <3>2, ActiveCount DEF IInv, ActiveExact
    <2> QED
      BY <2>1 DEF IInv, TypeInt, TypeOK
  <1> QED
    BY <1>1, Invariant, PTL
-----------------------------------------------------------------------------
(* One owner for every fiber *)

\* The program schedules no Fiber twice and its tasks do not hand their own fiber
\* to others before they go on HOLD; and stop() resumes m_rootFiber at most once.
NoHold == UserOps \cap {"hold", "switchTo"} = {} /\ Twice = {}
OneRootRun == RootThreads = {} \/ MaxStarts <= 1

\* Places of run() from swapIn to the end of the branch behind it.
Holding == {"body", "switch", "back", "settle"}
\* Places of run() from taking an item to resuming its fiber.
Handed == {"dispatch", "resume"}

\* A task that is in the list or in ft as a callback: it has not run, no fiber has
\* it, and a fiber of that name has not been constructed.
NotRun(c) ==
    /\ c \in submitted /\ finished[c] = 0 /\ m_state[c] = "none"
    /\ \A f \in Tasks : m_cb[f] # c

\* An item that may be taken: a fiber ready to be resumed, or a new callback.
ItemOK(x) ==
    \/ /\ x.fiber \in Tasks /\ x.cb = None
       /\ m_state[x.fiber] \in {"INIT", "READY"} /\ m_cb[x.fiber] \in Tasks
    \/ x.fiber = None /\ x.cb \in Tasks /\ NotRun(x.cb)

ListOK == \A i \in DOMAIN m_fibers : ItemOK(m_fibers[i])

\* A thread at each place of run().
ThreadOK(t) ==
    /\ pc[t] \notin {"armed", "hold"}
    /\ pc[t] \in Handed => ItemOK(ft[t])
    /\ pc[t] = "resume" => ft[t].fiber # None
    /\ pc[t] \in Holding => ft[t].cb = None
    /\ pc[t] \notin Holding \cup Handed => ft[t] = Empty
    /\ cur[t] = IF pc[t] \in {"body", "switch"} THEN Ran(t) ELSE None
    /\ pc[t] = "body" => m_state[Ran(t)] = "EXEC" /\ m_cb[Ran(t)] \in Tasks
    /\ pc[t] \in {"switch", "back", "settle"} =>
          m_state[Ran(t)] \in Ended \/ (m_state[Ran(t)] = "READY" /\ m_cb[Ran(t)] \in Tasks)
\* A cb_fiber that is not in use waits for the next callback.
SpareOK(t) ==
    cb_fiber[t] # None /\ (pc[t] \in Holding => ft[t].fiber # None) =>
        m_state[cb_fiber[t]] = "INIT" /\ m_cb[cb_fiber[t]] = None

\* Two items have neither a fiber nor a callback in common.
Distinct(x, y) == /\ x.fiber # None => x.fiber # y.fiber
                  /\ x.cb # None => x.cb # y.cb
\* No fiber is in two items, with two threads, or both in use and spare.
ListApart == \A i, j \in DOMAIN m_fibers : i # j => Distinct(m_fibers[i], m_fibers[j])
ListThreadsApart ==
    \A i \in DOMAIN m_fibers, t \in Threads :
        /\ Distinct(m_fibers[i], ft[t])
        /\ m_fibers[i].fiber # None => m_fibers[i].fiber # cb_fiber[t]
ThreadsApart ==
    \A t, u \in Threads :
        /\ t # u => Distinct(ft[t], ft[u]) /\ (cb_fiber[t] # None => cb_fiber[t] # cb_fiber[u])
        /\ ft[t].fiber # None => ft[t].fiber # cb_fiber[u]

\* A fiber with a function either has an owner or has thrown.
Owned(f) == \/ \E i \in DOMAIN m_fibers : m_fibers[i].fiber = f
            \/ \E t \in Threads : Carries(t, f)
FiberOK(f) ==
    m_cb[f] # None =>
        /\ m_cb[f] \in submitted
        /\ \/ m_state[f] \in {"INIT", "READY", "EXEC"} /\ finished[m_cb[f]] = 0 /\ Owned(f)
           \/ m_state[f] = "EXCEPT" /\ finished[m_cb[f]] = 1
OneFiber == \A f, g \in Tasks : m_cb[f] # None /\ m_cb[f] = m_cb[g] => f = g

\* A task is new, or it has run, or an item or a fiber has it.
TaskOK(c) ==
    /\ c \notin submitted => m_state[c] = "none" /\ finished[c] = 0
    /\ c \in submitted =>
          \/ finished[c] = 1
          \/ finished[c] = 0 /\ \/ \E i \in DOMAIN m_fibers : m_fibers[i].cb = c
                                \/ \E t \in Threads : ft[t].cb = c
                                \/ \E f \in Tasks : m_cb[f] = c

\* m_rootFiber has ended only after the last start().
RootOK == /\ RootThreads # {} => (main # "new" => starts >= 1)
          /\ RootThreads # {} /\ rootState = "TERM" => main \in {"join", "stopped"}

\* Every fiber that will run again is in one place: the inductive invariant.
OwnInv ==
    /\ ~failed /\ armed = {}
    /\ ListOK /\ ListApart /\ ListThreadsApart /\ ThreadsApart
    /\ \A t \in Threads : ThreadOK(t) /\ SpareOK(t)
    /\ \A f \in Tasks : FiberOK(f) /\ TaskOK(f)
    /\ OneFiber /\ RootOK

-----------------------------------------------------------------------------
(* Every step keeps the owners *)

\* Places of run() outside of any task.
Loose == {"off", "fetch", "noTask", "idle", "exit"}

LEMMA PlacesApart == /\ PCs = Loose \cup Holding \cup Handed \cup {"armed", "hold"}
                     /\ Loose \cap (Holding \cup Handed) = {}
  BY DEF PCs, Loose, Holding, Handed

\* The fields of the items that run() and schedule() build.
LEMMA ItemFields ==
    /\ Empty.fiber = None /\ Empty.cb = None
    /\ \A f, thd : FiberItem(f, thd).fiber = f /\ FiberItem(f, thd).cb = None
    /\ \A c, thd : CbItem(c, thd).fiber = None /\ CbItem(c, thd).cb = c
  BY DEF Empty, FiberItem, CbItem

\* A thread that keeps its task, or goes from one place outside of any task to
\* another, perhaps with a new cb_fiber.
Calm(t) ==
    \/ UNCHANGED <<pc[t], cur[t], cb_fiber[t]>>
    \/ /\ pc[t] \in Loose /\ pc'[t] \in Loose /\ cur'[t] = cur[t]
       /\ cb_fiber'[t] \in {cb_fiber[t], None}
    \/ /\ pc[t] = "dispatch" /\ pc'[t] = "resume" /\ ft[t].fiber # None
       /\ cur'[t] = cur[t] /\ cb_fiber'[t] = cb_fiber[t]
    \/ /\ <<pc[t], pc'[t]>> \in {<<"switch", "back">>, <<"back", "settle">>}
       /\ cur'[t] = None /\ cb_fiber'[t] = cb_fiber[t]

LEMMA CalmStep ==
    ASSUME TypeInt, OwnInv, ~failed', RootOK', \A t \in Threads : Calm(t),
           UNCHANGED <<m_fibers, ft, m_state, m_cb, armed, submitted, finished>>
    PROVE  OwnInv'
  <1> USE DEF OwnInv
  <1>1. \A x : ItemOK(x)' <=> ItemOK(x)
    BY DEF ItemOK, NotRun
  <1>2. ASSUME NEW t \in Threads
        PROVE  /\ pc'[t] \in Holding <=> pc[t] \in Holding
               /\ pc'[t] \in Handed <=> pc[t] \in Handed
               /\ pc[t] \in Holding => Ran(t)' = Ran(t)
               /\ cb_fiber'[t] \in {cb_fiber[t], None}
    BY <1>2 DEF Calm, Loose, Holding, Handed, Ran
  <1>3. ASSUME NEW t \in Threads PROVE ThreadOK(t)' /\ SpareOK(t)'
    <2>1. ThreadOK(t) /\ SpareOK(t) /\ Calm(t)
      OBVIOUS
    <2>2. SpareOK(t)'
      BY <1>2, <2>1 DEF SpareOK
    <2>3. ThreadOK(t)'
      BY <1>1, <1>2, <2>1 DEF ThreadOK, Calm, Loose, Holding, Handed
    <2> QED
      BY <2>2, <2>3
  <1>4. ASSUME NEW t \in Threads, NEW f \in Tasks, Carries(t, f) PROVE Carries(t, f)'
    <2>1. ThreadOK(t) /\ Calm(t)
      OBVIOUS
    <2> QED
      BY <1>2, <1>4, <2>1 DEF Carries, Calm, Loose, Holding, Handed
  <1>5. ASSUME NEW f \in Tasks PROVE FiberOK(f)' /\ TaskOK(f)'
    <2>1. FiberOK(f) /\ TaskOK(f)
      OBVIOUS
    <2>2. Owned(f) => Owned(f)'
      BY <1>4 DEF Owned
    <2> QED
      BY <2>1, <2>2 DEF FiberOK, TaskOK
  <1>6. ListOK' /\ ListApart' /\ OneFiber'
    BY <1>1 DEF ListOK, ListApart, OneFiber, Distinct
  <1>7. ListThreadsApart'
    BY <1>2 DEF ListThreadsApart, Distinct
  <1>8. ThreadsApart'
    BY <1>2 DEF ThreadsApart, Distinct
  <1> QED
    BY <1>3, <1>5, <1>6, <1>7, <1>8

\* The program's own steps; m_rootFiber is resumed once.
LEMMA MainOwn ==
    ASSUME IInv, OwnInv, OneRootRun, MainStep PROVE OwnInv'
  <1> USE DEF IInv
  <1>0. TypeInt /\ Sane
    BY DEF MainStep, Start, BeginStop, CallRoot, RootReturns, Join, MainAt
  <1>1. UNCHANGED <<m_fibers, ft, m_state, m_cb, armed, submitted, finished>>
    BY DEF MainStep, Start, BeginStop, CallRoot, RootReturns, Join, schedVars, threadVars,
           fiberVars, taskVars
  <1>2. RootOK'
    <2>1. CASE Start
      BY <1>0, <2>1, BoundsAssumption DEF Start, MainAt, OwnInv, RootOK, OneRootRun, TypeInt
    <2>2. ASSUME NEW r \in RootThreads, CallRoot(r) PROVE RootOK'
      BY <2>2 DEF CallRoot, MainAt, OwnInv, RootOK
    <2> QED
      BY <2>1, <2>2 DEF MainStep, BeginStop, RootReturns, Join, MainAt, OwnInv, RootOK
  <1>3. ~failed'
    <2>1. ASSUME NEW r \in RootThreads, CallRoot(r) PROVE ~failed'
      <3>1. rootState # "TERM"
        BY <2>1 DEF CallRoot, MainAt, OwnInv, RootOK
      <3> QED
        BY <2>1, <3>1 DEF CallRoot, OwnInv
    <2> QED
      BY <2>1 DEF MainStep, Start, BeginStop, RootReturns, Join, OwnInv
  <1>4. ASSUME NEW t \in Threads PROVE Calm(t)
    <2>1. CASE Start
      BY <1>0, <2>1 DEF Start, MainAt, MainInv, Off, Calm, Loose, TypeInt
    <2>2. ASSUME NEW r \in RootThreads, CallRoot(r) PROVE Calm(t)
      BY <1>0, <2>2 DEF CallRoot, MainAt, MainInv, Off, Calm, Loose, TypeInt
    <2> QED
      BY <2>1, <2>2 DEF MainStep, BeginStop, RootReturns, Join, threadVars, Calm
  <1> QED
    BY <1>0, <1>1, <1>2, <1>3, <1>4, CalmStep

\* run() outside of any task, and the switch back from a fiber.
LEMMA CalmRun ==
    ASSUME IInv, OwnInv, NEW t \in Threads,
           \/ FetchNothing(t) \/ TestFiber(t) \/ NoTask(t) \/ Idle(t) \/ SwapOut(t)
           \/ Deactivate(t)
    PROVE  OwnInv'
  <1> USE DEF mainVars, schedVars, fiberVars, taskVars
  <1>0. TypeInt
    BY DEF IInv
  <1>1. UNCHANGED <<m_fibers, ft, cb_fiber, m_state, m_cb, armed, submitted, finished, failed,
                    main, starts, rootState>>
    BY DEF FetchNothing, TestFiber, NoTask, Idle, SwapOut, Deactivate
  <1>2. RootOK' /\ ~failed'
    BY <1>1 DEF OwnInv, RootOK
  <1>3. ASSUME NEW u \in Threads PROVE Calm(u)
    <2>0. ThreadOK(u)
      BY DEF OwnInv
    <2>1. CASE FetchNothing(t)
      BY <1>0, <1>1, <2>1 DEF FetchNothing, At, Calm, Loose, TypeInt
    <2>2. CASE NoTask(t)
      BY <1>0, <1>1, <2>2 DEF NoTask, At, Calm, Loose, TypeInt
    <2>3. CASE Idle(t)
      BY <1>0, <1>1, <2>3 DEF Idle, At, Calm, Loose, TypeInt
    <2>4. CASE SwapOut(t)
      BY <1>0, <1>1, <2>4 DEF SwapOut, At, Calm, TypeInt
    <2>5. CASE Deactivate(t)
      BY <1>0, <1>1, <2>0, <2>5 DEF Deactivate, At, Calm, TypeInt, ThreadOK
    <2>6. CASE TestFiber(t)
      BY <1>0, <1>1, <2>6 DEF TestFiber, At, Calm, TypeInt
    <2> QED
      BY <2>1, <2>2, <2>3, <2>4, <2>5, <2>6
  <1> QED
    BY <1>0, <1>1, <1>2, <1>3, CalmStep

\* schedule() adds one item at the end.
LEMMA ListGrows ==
    ASSUME TypeInt, NEW x \in Items, Schedule(x)
    PROVE  \E n : /\ n \notin DOMAIN m_fibers /\ DOMAIN m_fibers' = DOMAIN m_fibers \cup {n}
                  /\ m_fibers'[n] = x
                  /\ \A i \in DOMAIN m_fibers : m_fibers'[i] = m_fibers[i]
  <1> DEFINE n == Len(m_fibers) + 1
  <1>1. m_fibers \in Seq(Items) /\ m_fibers' = Append(m_fibers, x)
    BY DEF TypeInt, Schedule
  <1>2. n \notin DOMAIN m_fibers /\ DOMAIN m_fibers' = DOMAIN m_fibers \cup {n}
    BY <1>1
  <1>3. m_fibers'[n] = x /\ \A i \in DOMAIN m_fibers : m_fibers'[i] = m_fibers[i]
    BY <1>1
  <1> QED
    BY <1>2, <1>3

\* What a thread has in ft is in no state of its own: an item, a fiber it runs, or
\* nothing.
LEMMA HandOK ==
    ASSUME OwnInv, NEW t \in Threads
    PROVE  /\ ft[t].cb # None => pc[t] = "dispatch" /\ ft[t].fiber = None /\ NotRun(ft[t].cb)
           /\ ft[t].fiber # None => pc[t] \in Holding \cup Handed
  BY ItemFields DEF OwnInv, ThreadOK, ItemOK, Holding, Handed

\* A fiber that someone has was constructed.
LEMMA Constructed ==
    ASSUME TypeInt, RanInv, OwnInv
    PROVE  /\ \A i \in DOMAIN m_fibers :
                 m_fibers[i].fiber # None => m_state[m_fibers[i].fiber] \in {"INIT", "READY"}
           /\ \A t \in Threads :
                 /\ ft[t].fiber # None => m_state[ft[t].fiber] # "none"
                 /\ cb_fiber[t] # None => m_state[cb_fiber[t]] # "none"
  <1>1. ASSUME NEW i \in DOMAIN m_fibers, m_fibers[i].fiber # None
        PROVE  m_state[m_fibers[i].fiber] \in {"INIT", "READY"}
    BY <1>1 DEF OwnInv, ListOK, ItemOK
  <1>2. ASSUME NEW t \in Threads
        PROVE  /\ ft[t].fiber # None => m_state[ft[t].fiber] # "none"
               /\ cb_fiber[t] # None => m_state[cb_fiber[t]] # "none"
    <2>1. ThreadOK(t) /\ SpareOK(t)
      BY DEF OwnInv
    <2>2. pc[t] \in Holding => m_state[Ran(t)] # "none"
      BY <2>1 DEF ThreadOK, Holding, Handed, Ended
    <2>3. ft[t].fiber # None => m_state[ft[t].fiber] # "none"
      BY <2>1, <2>2, HandOK DEF ThreadOK, ItemOK, Ran
    <2>4. cb_fiber[t] # None => m_state[cb_fiber[t]] # "none"
      BY <2>1, <2>2 DEF SpareOK, Ran
    <2> QED
      BY <2>3, <2>4
  <1> QED
    BY <1>1, <1>2

\* A new task goes into the list as a callback.
LEMMA AddCb ==
    ASSUME TypeInt, OwnInv, NEW c \in Tasks \ submitted, NEW thd \in Pins,
           Schedule(CbItem(c, thd)), submitted' = submitted \cup {c}, RootOK',
           UNCHANGED <<pc, ft, cur, cb_fiber, m_state, m_cb, armed, finished, failed>>
    PROVE  OwnInv'
  <1> DEFINE x == CbItem(c, thd)
  <1>0. x \in Items /\ x.fiber = None /\ x.cb = c /\ c # None
    BY ItemType, ItemFields, ThreadsAssumption, TasksAssumption
  <1>1. PICK n : /\ n \notin DOMAIN m_fibers /\ DOMAIN m_fibers' = DOMAIN m_fibers \cup {n}
                 /\ m_fibers'[n] = x
                 /\ \A i \in DOMAIN m_fibers : m_fibers'[i] = m_fibers[i]
    BY <1>0, ListGrows
  <1> HIDE DEF x
  <1>2. NotRun(c)' /\ \A d \in Tasks : NotRun(d) => NotRun(d)'
    <2>1. TaskOK(c) /\ \A f \in Tasks : FiberOK(f)
      BY DEF OwnInv
    <2> QED
      BY <1>0, <2>1 DEF NotRun, TaskOK, FiberOK
  <1>3. ItemOK(x)' /\ \A y : ItemOK(y) => ItemOK(y)'
    BY <1>0, <1>2 DEF ItemOK
  <1>4. /\ \A i \in DOMAIN m_fibers : Distinct(x, m_fibers[i]) /\ Distinct(m_fibers[i], x)
        /\ \A t \in Threads : Distinct(x, ft[t])
    <2>1. \A i \in DOMAIN m_fibers : m_fibers[i].cb # c
      BY <1>0 DEF OwnInv, ListOK, ItemOK, NotRun
    <2>2. \A t \in Threads : ft[t].cb # c
      BY <1>0, HandOK DEF NotRun
    <2> QED
      BY <1>0, <2>1, <2>2 DEF Distinct
  <1>5. ListOK' /\ ListApart' /\ ListThreadsApart'
    <2>1. ListOK'
      BY <1>1, <1>3 DEF OwnInv, ListOK
    <2>2. ListApart'
      BY <1>1, <1>4 DEF OwnInv, ListApart, Distinct
    <2>3. ListThreadsApart'
      BY <1>0, <1>1, <1>4 DEF OwnInv, ListThreadsApart, Distinct
    <2> QED
      BY <2>1, <2>2, <2>3
  <1>6. ASSUME NEW t \in Threads PROVE ThreadOK(t)' /\ SpareOK(t)'
    <2>1. ThreadOK(t) /\ SpareOK(t) /\ Ran(t)' = Ran(t)
      BY DEF OwnInv, Ran
    <2> QED
      BY <1>3, <2>1 DEF ThreadOK, SpareOK
  <1>7. ASSUME NEW f \in Tasks PROVE FiberOK(f)' /\ TaskOK(f)'
    <2>1. FiberOK(f) /\ TaskOK(f)
      BY DEF OwnInv
    <2>2. Owned(f) => Owned(f)'
      BY <1>1 DEF Owned, Carries, Ran
    <2>3. FiberOK(f)'
      BY <2>1, <2>2 DEF FiberOK
    <2>4. TaskOK(f)'
      BY <1>0, <1>1, <2>1 DEF TaskOK
    <2> QED
      BY <2>3, <2>4
  <1>8. ThreadsApart' /\ OneFiber' /\ ~failed' /\ armed' = {}
    BY DEF OwnInv, ThreadsApart, OneFiber, Distinct
  <1> QED
    BY <1>5, <1>6, <1>7, <1>8 DEF OwnInv

\* A Fiber the program has constructed goes into the list.
LEMMA AddFiber ==
    ASSUME TypeInt, RanInv, OwnInv, NEW c \in Tasks, NEW thd \in Pins, SubmitFiber(c, thd)
    PROVE  OwnInv'
  <1> DEFINE x == FiberItem(c, thd)
  <1>0. x \in Items /\ x.fiber = c /\ x.cb = None /\ c # None
    BY ItemType, ItemFields, ThreadsAssumption, TasksAssumption
  <1>a. /\ c \notin submitted /\ submitted' = submitted \cup {c} /\ Schedule(x)
        /\ m_state' = [m_state EXCEPT ![c] = "INIT"] /\ m_cb' = [m_cb EXCEPT ![c] = c]
        /\ UNCHANGED <<pc, ft, cur, cb_fiber, armed, finished, failed, main, starts, rootState>>
    BY DEF SubmitFiber, mainVars, threadVars
  <1>b. /\ m_state[c] = "none" /\ finished[c] = 0 /\ m_cb[c] = None
        /\ \A f \in Tasks : m_cb[f] # c
    <2>1. TaskOK(c) /\ \A f \in Tasks : FiberOK(f)
      BY DEF OwnInv
    <2> QED
      BY <1>0, <1>a, <2>1 DEF TaskOK, FiberOK
  <1>c. \A f \in Tasks : /\ m_state'[f] = IF f = c THEN "INIT" ELSE m_state[f]
                         /\ m_cb'[f] = IF f = c THEN c ELSE m_cb[f]
    BY <1>a DEF TypeInt
  <1>1. PICK n : /\ n \notin DOMAIN m_fibers /\ DOMAIN m_fibers' = DOMAIN m_fibers \cup {n}
                 /\ m_fibers'[n] = x
                 /\ \A i \in DOMAIN m_fibers : m_fibers'[i] = m_fibers[i]
    BY <1>0, <1>a, ListGrows
  <1> HIDE DEF x
  <1>2. \A d \in Tasks : NotRun(d) => NotRun(d)'
    BY <1>a, <1>b, <1>c DEF NotRun
  <1>3. /\ \A i \in DOMAIN m_fibers : m_fibers[i].fiber # c
        /\ \A t \in Threads : ft[t].fiber # c /\ cb_fiber[t] # c
    BY <1>0, <1>b, Constructed
  <1>4. ItemOK(x)' /\ \A y \in Items : ItemOK(y) => ItemOK(y)'
    BY <1>0, <1>b, <1>c, <1>2 DEF ItemOK
  <1>5. ListOK' /\ ListApart' /\ ListThreadsApart'
    <2>0. \A i \in DOMAIN m_fibers : m_fibers[i] \in Items
      BY DEF TypeInt
    <2>1. ListOK'
      BY <1>1, <1>4, <2>0 DEF OwnInv, ListOK
    <2>2. ListApart'
      BY <1>0, <1>1, <1>3 DEF OwnInv, ListApart, Distinct
    <2>3. ListThreadsApart'
      BY <1>0, <1>1, <1>3, <1>a DEF OwnInv, ListThreadsApart, Distinct
    <2> QED
      BY <2>1, <2>2, <2>3
  <1>6. ASSUME NEW t \in Threads PROVE ThreadOK(t)' /\ SpareOK(t)'
    <2>1. ThreadOK(t) /\ SpareOK(t) /\ Ran(t)' = Ran(t) /\ ft[t] \in Items
      BY <1>a DEF OwnInv, Ran, TypeInt
    <2>2. pc[t] \in Holding => Ran(t) # c /\ Ran(t) \in Tasks
      BY <1>3 DEF Ran, RanInv, RanOK, Holding
    <2>3. SpareOK(t)'
      BY <1>3, <1>a, <1>c, <2>1 DEF SpareOK, TypeInt
    <2>4. ThreadOK(t)'
      BY <1>4, <1>a, <1>c, <2>1, <2>2 DEF ThreadOK, Holding, Handed
    <2> QED
      BY <2>3, <2>4
  <1>7. ASSUME NEW f \in Tasks PROVE FiberOK(f)' /\ TaskOK(f)'
    <2>1. FiberOK(f) /\ TaskOK(f)
      BY DEF OwnInv
    <2>2. Owned(c)' /\ (f # c /\ Owned(f) => Owned(f)')
      BY <1>0, <1>1, <1>a, <1>c DEF Owned, Carries, Ran
    <2>3. FiberOK(f)'
      BY <1>a, <1>b, <1>c, <2>1, <2>2 DEF FiberOK
    <2>4. TaskOK(f)'
      BY <1>1, <1>a, <1>b, <1>c, <2>1, TasksAssumption DEF TaskOK
    <2> QED
      BY <2>3, <2>4
  <1>8. ThreadsApart' /\ ~failed' /\ armed' = {} /\ RootOK'
    BY <1>a DEF OwnInv, ThreadsApart, Distinct, RootOK
  <1>9. OneFiber'
    BY <1>b, <1>c DEF OwnInv, OneFiber
  <1> QED
    BY <1>5, <1>6, <1>7, <1>8, <1>9 DEF OwnInv

\* run() takes an item out of the list.
LEMMA ListShrinks ==
    ASSUME TypeInt, NEW i \in DOMAIN m_fibers, m_fibers' = Without(i)
    PROVE  \E s : /\ \A j \in DOMAIN m_fibers' : s[j] \in DOMAIN m_fibers \ {i}
                                                 /\ m_fibers'[j] = m_fibers[s[j]]
                  /\ \A j, k \in DOMAIN m_fibers' : j # k => s[j] # s[k]
                  /\ \A k \in DOMAIN m_fibers \ {i} : \E j \in DOMAIN m_fibers' : s[j] = k
  <1> DEFINE n == Len(m_fibers)
             s == [j \in 1..(n - 1) |-> IF j < i THEN j ELSE j + 1]
  <1>1. n \in Nat /\ DOMAIN m_fibers = 1..n /\ i \in 1..n
    BY DEF TypeInt
  <1>2. DOMAIN m_fibers' = 1..(n - 1)
        /\ \A j \in 1..(n - 1) : m_fibers'[j] = IF j < i THEN m_fibers[j] ELSE m_fibers[j + 1]
    BY DEF Without
  <1>3. \A j \in 1..(n - 1) : s[j] = IF j < i THEN j ELSE j + 1
    OBVIOUS
  <1> HIDE DEF n, s
  <1>4. \A j \in 1..(n - 1) : s[j] \in 1..n /\ s[j] # i /\ m_fibers'[j] = m_fibers[s[j]]
    BY <1>1, <1>2, <1>3
  <1>5. \A j, k \in 1..(n - 1) : j # k => s[j] # s[k]
    BY <1>1, <1>3
  <1>6. ASSUME NEW k \in 1..n, k # i PROVE \E j \in 1..(n - 1) : s[j] = k
    <2>1. CASE k < i
      <3>1. k \in 1..(n - 1) /\ s[k] = k
        BY <1>1, <1>3, <2>1
      <3> QED
        BY <3>1
    <2>2. CASE k > i
      <3>1. k - 1 \in 1..(n - 1) /\ s[k - 1] = k
        BY <1>1, <1>3, <2>2
      <3> QED
        BY <3>1
    <2> QED
      BY <1>1, <1>6, <2>1, <2>2
  <1>7. /\ \A j \in DOMAIN m_fibers' : s[j] \in DOMAIN m_fibers \ {i}
                                      /\ m_fibers'[j] = m_fibers[s[j]]
        /\ \A j, k \in DOMAIN m_fibers' : j # k => s[j] # s[k]
        /\ \A k \in DOMAIN m_fibers \ {i} : \E j \in DOMAIN m_fibers' : s[j] = k
    BY <1>1, <1>2, <1>4, <1>5, <1>6
  <1> QED
    BY <1>7

LEMMA FetchOwn ==
    ASSUME TypeInt, RanInv, OwnInv, NEW t \in Threads, NEW i \in DOMAIN m_fibers, Fetch(t, i)
    PROVE  OwnInv'
  <1> DEFINE x == m_fibers[i]
  <1>0. x \in Items /\ ItemOK(x)
    BY DEF TypeInt, OwnInv, ListOK
  <1>a. /\ pc[t] = "fetch" /\ ft' = [ft EXCEPT ![t] = x] /\ m_fibers' = Without(i)
        /\ pc' = [pc EXCEPT ![t] = "dispatch"]
        /\ UNCHANGED <<cur, cb_fiber, m_state, m_cb, armed, submitted, finished, failed, main,
                       starts, rootState>>
    BY DEF Fetch, At, mainVars, fiberVars, taskVars
  <1>1. PICK s : /\ \A j \in DOMAIN m_fibers' : s[j] \in DOMAIN m_fibers \ {i}
                                                /\ m_fibers'[j] = m_fibers[s[j]]
                 /\ \A j, k \in DOMAIN m_fibers' : j # k => s[j] # s[k]
                 /\ \A k \in DOMAIN m_fibers \ {i} : \E j \in DOMAIN m_fibers' : s[j] = k
    BY <1>a, ListShrinks
  <1>2. /\ \A u \in Threads : pc'[u] = IF u = t THEN "dispatch" ELSE pc[u]
        /\ \A u \in Threads : ft'[u] = IF u = t THEN x ELSE ft[u]
    BY <1>a DEF TypeInt
  <1>3. ThreadOK(t) /\ SpareOK(t) /\ ft[t].fiber = None /\ ft[t].cb = None /\ cur[t] = None
    BY <1>a, ItemFields DEF OwnInv, ThreadOK, Holding, Handed
  <1>4. /\ \A j \in DOMAIN m_fibers \ {i} : Distinct(x, m_fibers[j]) /\ Distinct(m_fibers[j], x)
        /\ \A u \in Threads : /\ Distinct(x, ft[u]) /\ Distinct(ft[u], x)
                              /\ x.fiber # None => x.fiber # cb_fiber[u]
    BY DEF OwnInv, ListApart, ListThreadsApart, Distinct
  <1> HIDE DEF x
  <1>5. \A y : ItemOK(y)' <=> ItemOK(y)
    BY <1>a DEF ItemOK, NotRun
  <1>6. ListOK' /\ ListApart'
    BY <1>1, <1>5 DEF OwnInv, ListOK, ListApart, Distinct
  <1>7. ListThreadsApart'
    BY <1>1, <1>2, <1>4, <1>a DEF OwnInv, ListThreadsApart, Distinct
  <1>8. ThreadsApart'
    <2>1. ThreadsApart
      BY DEF OwnInv
    <2> SUFFICES ASSUME NEW u \in Threads, NEW v \in Threads
                 PROVE  /\ u # v => Distinct(ft'[u], ft'[v])
                                    /\ (cb_fiber[u] # None => cb_fiber[u] # cb_fiber[v])
                        /\ ft'[u].fiber # None => ft'[u].fiber # cb_fiber[v]
      BY <1>a DEF ThreadsApart, Distinct
    <2> QED
      BY <1>2, <1>4, <2>1 DEF ThreadsApart
  <1>9. ASSUME NEW u \in Threads PROVE ThreadOK(u)' /\ SpareOK(u)'
    <2>1. ThreadOK(u) /\ SpareOK(u)
      BY DEF OwnInv
    <2>2. CASE u = t
      <3>1. ThreadOK(t)'
        BY <1>0, <1>2, <1>3, <1>5, <1>a, <2>2 DEF ThreadOK, Holding, Handed
      <3>2. SpareOK(t)'
        BY <1>2, <1>3, <1>a, <2>2 DEF SpareOK, Holding
      <3> QED
        BY <2>2, <3>1, <3>2
    <2>3. CASE u # t
      BY <1>2, <1>5, <1>a, <2>1, <2>3 DEF ThreadOK, SpareOK, Ran
    <2> QED
      BY <2>2, <2>3
  <1>10. ASSUME NEW f \in Tasks PROVE FiberOK(f)' /\ TaskOK(f)'
    <2>1. FiberOK(f) /\ TaskOK(f) /\ f # None
      BY TasksAssumption DEF OwnInv
    <2>2. \A u \in Threads : Carries(u, f) => Carries(u, f)'
      BY <1>2, <1>a DEF Carries, Ran
    <2>3. x.fiber = f => Carries(t, f)'
      BY <1>2 DEF Carries
    <2>4. Owned(f) => Owned(f)'
      BY <1>1, <2>2, <2>3 DEF Owned, x
    <2>5. FiberOK(f)'
      BY <1>a, <2>1, <2>4 DEF FiberOK
    <2>6. (\E j \in DOMAIN m_fibers : m_fibers[j].cb = f) \/ (\E u \in Threads : ft[u].cb = f)
          => (\E j \in DOMAIN m_fibers' : m_fibers'[j].cb = f) \/ (\E u \in Threads : ft'[u].cb = f)
      BY <1>1, <1>2, <1>3, <2>1 DEF x
    <2>7. TaskOK(f)'
      BY <1>a, <2>1, <2>6 DEF TaskOK
    <2> QED
      BY <2>5, <2>7
  <1>11. OneFiber' /\ RootOK' /\ ~failed' /\ armed' = {}
    BY <1>a DEF OwnInv, OneFiber, RootOK
  <1> QED
    BY <1>6, <1>7, <1>8, <1>9, <1>10, <1>11 DEF OwnInv

\* A fiber that nobody but thread t has.
Private(t, f) ==
    /\ \A i \in DOMAIN m_fibers : m_fibers[i].fiber # f
    /\ \A u \in Threads \ {t} : ft[u].fiber # f /\ cb_fiber[u] # f

LEMMA PrivateFact ==
    ASSUME OwnInv, NEW t \in Threads, NEW f \in Tasks, f = ft[t].fiber \/ f = cb_fiber[t]
    PROVE  Private(t, f)
  BY TasksAssumption DEF OwnInv, Private, ListThreadsApart, ThreadsApart, Distinct

\* Thread t works on its own fiber f: what others have is not touched.
LEMMA Others ==
    ASSUME TypeInt, RanInv, OwnInv, NEW t \in Threads, NEW f \in Tasks, Private(t, f),
           f \in submitted, \A g \in Tasks : Carries(t, g) => g = f,
           \A g \in Tasks \ {f} : m_state'[g] = m_state[g] /\ m_cb'[g] = m_cb[g],
           \A u \in Threads \ {t} : /\ pc'[u] = pc[u] /\ ft'[u] = ft[u]
                                    /\ cur'[u] = cur[u] /\ cb_fiber'[u] = cb_fiber[u],
           m_fibers' = m_fibers, submitted' = submitted,
           \A d \in Tasks : d # m_cb[f] => finished'[d] = finished[d],
           \A d \in Tasks : NotRun(d) /\ d # ft[t].cb => NotRun(d)'
    PROVE  /\ ListOK'
           /\ \A u \in Threads \ {t} : ThreadOK(u)' /\ SpareOK(u)'
           /\ \A g \in Tasks \ {f} : FiberOK(g)'
           /\ \A d \in Tasks : d # m_cb[f] /\ d # ft[t].cb => TaskOK(d)'
  <1>1. ASSUME NEW y \in Items, ItemOK(y), y.fiber # f, y.cb # None => y.cb # ft[t].cb
        PROVE  ItemOK(y)'
    <2>1. CASE y.fiber \in Tasks /\ y.cb = None
      BY <1>1, <2>1, TasksAssumption DEF ItemOK
    <2>2. CASE y.fiber = None /\ y.cb \in Tasks /\ NotRun(y.cb)
      BY <1>1, <2>2, TasksAssumption DEF ItemOK
    <2> QED
      BY <1>1, <2>1, <2>2 DEF ItemOK
  <1>2. ListOK'
    <2> SUFFICES ASSUME NEW i \in DOMAIN m_fibers PROVE ItemOK(m_fibers[i])'
      BY DEF ListOK
    <2>1. m_fibers[i] \in Items /\ ItemOK(m_fibers[i]) /\ m_fibers[i].fiber # f
      BY DEF TypeInt, OwnInv, ListOK, Private
    <2>2. m_fibers[i].cb # None => m_fibers[i].cb # ft[t].cb
      BY DEF OwnInv, ListThreadsApart, Distinct
    <2> QED
      BY <1>1, <2>1, <2>2
  <1>3. ASSUME NEW u \in Threads \ {t} PROVE ThreadOK(u)' /\ SpareOK(u)'
    <2>1. /\ ThreadOK(u) /\ SpareOK(u) /\ ft[u] \in Items /\ Ran(u)' = Ran(u)
          /\ ft[u].fiber # f /\ cb_fiber[u] # f /\ cb_fiber[u] \in Tasks \cup {None}
      BY DEF OwnInv, TypeInt, Ran, Private
    <2>2. pc[u] \in Holding => Ran(u) # f /\ Ran(u) \in Tasks
      BY <2>1 DEF Ran, RanInv, RanOK, Holding
    <2>3. ft[u].cb # None => ft[u].cb # ft[t].cb
      BY DEF OwnInv, ThreadsApart, Distinct
    <2>4. pc[u] \in Handed => ItemOK(ft[u])'
      BY <1>1, <2>1, <2>3 DEF ThreadOK
    <2>5. ThreadOK(u)'
      BY <2>1, <2>2, <2>4 DEF ThreadOK, Holding, Handed
    <2>6. SpareOK(u)'
      BY <2>1 DEF SpareOK
    <2> QED
      BY <2>5, <2>6
  <1>4. ASSUME NEW g \in Tasks \ {f} PROVE FiberOK(g)'
    <2>1. FiberOK(g) /\ m_cb[g] \in Tasks \cup {None} /\ (m_cb[g] # None => m_cb[g] # m_cb[f])
      BY DEF OwnInv, OneFiber, TypeInt
    <2>2. \A u \in Threads : Carries(u, g) => u # t /\ Carries(u, g)'
      BY DEF Carries, Ran
    <2>3. Owned(g) => Owned(g)'
      BY <2>2 DEF Owned
    <2> QED
      BY <2>1, <2>3 DEF FiberOK
  <1>5. ASSUME NEW d \in Tasks, d # m_cb[f], d # ft[t].cb PROVE TaskOK(d)'
    <2>1. TaskOK(d)
      BY DEF OwnInv
    <2>2. (\E u \in Threads : ft[u].cb = d) => \E u \in Threads : ft'[u].cb = d
      BY <1>5
    <2>3. (\E g \in Tasks : m_cb[g] = d) => \E g \in Tasks : m_cb'[g] = d
      BY <1>5
    <2> QED
      BY <1>5, <2>1, <2>2, <2>3 DEF TaskOK
  <1> QED
    BY <1>2, <1>3, <1>4, <1>5

\* A fiber that was constructed belongs to a task that was scheduled.
LEMMA InUse == ASSUME OwnInv, NEW f \in Tasks, m_state[f] # "none" PROVE f \in submitted
  BY DEF OwnInv, TaskOK

LEMMA ResumeFiberOwn ==
    ASSUME TypeInt, RanInv, OwnInv, NEW t \in Threads, ResumeFiber(t) PROVE OwnInv'
  <1>0. PICK f : f = ft[t].fiber
    OBVIOUS
  <1>a. /\ pc[t] = "resume"
        /\ failed' = (m_state[f] = "EXEC" \/ HasEnded(f))
        /\ m_state' = [m_state EXCEPT ![f] = "EXEC"] /\ cur' = [cur EXCEPT ![t] = f]
        /\ pc' = [pc EXCEPT ![t] = "body"]
        /\ UNCHANGED <<m_fibers, ft, cb_fiber, m_cb, armed, submitted, finished, main, starts,
                       rootState>>
    BY <1>0 DEF ResumeFiber, At, mainVars, schedVars, taskVars
  <1>b. ThreadOK(t) /\ SpareOK(t) /\ ItemOK(ft[t]) /\ ft[t] \in Items /\ f # None
    BY <1>0, <1>a DEF OwnInv, ThreadOK, Handed, TypeInt
  <1>c. f \in Tasks /\ ft[t].cb = None /\ m_state[f] \in {"INIT", "READY"} /\ m_cb[f] \in Tasks
    BY <1>0, <1>a, <1>b DEF ItemOK
  <1>d. FiberOK(f) /\ f \in submitted /\ Private(t, f) /\ m_cb[f] # None /\ f # cb_fiber[t]
    BY <1>0, <1>a, <1>c, InUse, PrivateFact, TasksAssumption DEF OwnInv, ThreadsApart
  <1>1. /\ \A g \in Tasks : m_state'[g] = IF g = f THEN "EXEC" ELSE m_state[g]
        /\ \A u \in Threads : /\ pc'[u] = IF u = t THEN "body" ELSE pc[u]
                              /\ cur'[u] = IF u = t THEN f ELSE cur[u]
    BY <1>a, <1>c DEF TypeInt
  <1>2. ~failed'
    <2>1. m_state[f] # "EXEC" /\ finished[m_cb[f]] = 0
      BY <1>c, <1>d DEF FiberOK
    <2>2. ~HasEnded(f)
      BY <1>d, <2>1 DEF HasEnded
    <2> QED
      BY <1>a, <2>1, <2>2
  <1>3. \A d \in Tasks : NotRun(d) => NotRun(d)'
    BY <1>1, <1>a, <1>c DEF NotRun
  <1>4. \A g \in Tasks : Carries(t, g) => g = f
    BY <1>0, <1>a DEF Carries
  <1>5. /\ ListOK' /\ \A u \in Threads \ {t} : ThreadOK(u)' /\ SpareOK(u)'
        /\ \A g \in Tasks \ {f} : FiberOK(g)'
        /\ \A d \in Tasks : d # m_cb[f] /\ d # ft[t].cb => TaskOK(d)'
    BY <1>1, <1>3, <1>4, <1>a, <1>c, <1>d, Others
  <1>6. Ran(t)' = f
    BY <1>0, <1>a, <1>b DEF Ran
  <1>7. ThreadOK(t)'
    BY <1>1, <1>6, <1>a, <1>b, <1>c DEF ThreadOK, Holding, Handed
  <1>8. SpareOK(t)'
    BY <1>1, <1>a, <1>b, <1>d DEF SpareOK, Holding, TypeInt
  <1>9. FiberOK(f)'
    <2>1. Carries(t, f)'
      BY <1>1 DEF Carries
    <2> QED
      BY <1>1, <1>a, <1>c, <1>d, <2>1 DEF FiberOK, Owned
  <1>10. ASSUME NEW c \in Tasks, c = m_cb[f] PROVE TaskOK(c)'
    <2>1. m_cb'[f] = c /\ c \in submitted /\ finished[c] = 0
      BY <1>10, <1>a, <1>c, <1>d DEF FiberOK
    <2> QED
      BY <1>a, <1>c, <2>1 DEF TaskOK
  <1>11. ListApart' /\ ListThreadsApart' /\ ThreadsApart' /\ OneFiber' /\ RootOK' /\ armed' = {}
    BY <1>a DEF OwnInv, ListApart, ListThreadsApart, ThreadsApart, Distinct, OneFiber, RootOK
  <1>12. \A g \in Tasks : FiberOK(g)' /\ TaskOK(g)'
    BY <1>5, <1>9, <1>10, <1>c, TasksAssumption
  <1> QED
    BY <1>2, <1>5, <1>7, <1>8, <1>11, <1>12 DEF OwnInv

LEMMA ResumeCbOwn ==
    ASSUME TypeInt, RanInv, OwnInv, NEW t \in Threads, ResumeCb(t) PROVE OwnInv'
  <1>0. PICK c, f : c = ft[t].cb /\ f = IF cb_fiber[t] # None THEN cb_fiber[t] ELSE c
    OBVIOUS
  <1>a. /\ pc[t] = "dispatch" /\ c # None
        /\ failed' = (m_state[f] \notin Ended \cup {"INIT", "none"})
        /\ m_state' = [m_state EXCEPT ![f] = "EXEC"] /\ m_cb' = [m_cb EXCEPT ![f] = c]
        /\ cb_fiber' = [cb_fiber EXCEPT ![t] = f] /\ ft' = [ft EXCEPT ![t] = Empty]
        /\ cur' = [cur EXCEPT ![t] = f] /\ pc' = [pc EXCEPT ![t] = "body"]
        /\ UNCHANGED <<m_fibers, armed, submitted, finished, main, starts, rootState>>
    BY <1>0 DEF ResumeCb, At, mainVars, schedVars, taskVars
  <1>b. ThreadOK(t) /\ SpareOK(t) /\ ft[t] \in Items /\ cb_fiber[t] \in Tasks \cup {None}
    BY DEF OwnInv, TypeInt
  <1>c. ft[t].fiber = None /\ c \in Tasks /\ NotRun(c)
    BY <1>0, <1>a, <1>b DEF ThreadOK, Handed, ItemOK
  <1>d. f \in Tasks /\ m_cb[f] = None /\ (f # c => m_state[f] = "INIT") /\ f \in submitted
        /\ Private(t, f) /\ (f = c => m_state[c] = "none")
    <2>1. CASE cb_fiber[t] # None
      <3>1. f = cb_fiber[t] /\ m_state[f] = "INIT" /\ m_cb[f] = None /\ f \in Tasks
        BY <1>0, <1>a, <1>b, <2>1 DEF SpareOK, Holding
      <3>2. f \in submitted /\ Private(t, f)
        BY <3>1, InUse, PrivateFact
      <3> QED
        BY <1>c, <3>1, <3>2 DEF NotRun
    <2>2. CASE cb_fiber[t] = None
      <3>1. f = c /\ c \in Tasks /\ m_state[c] = "none" /\ c \in submitted
        BY <1>0, <1>c, <2>2 DEF NotRun
      <3>2. FiberOK(c)
        BY <3>1 DEF OwnInv
      <3>3. m_cb[c] = None
        BY <3>1, <3>2 DEF FiberOK
      <3>4. Private(t, c)
        BY <3>1, Constructed, TasksAssumption DEF Private
      <3> QED
        BY <3>1, <3>3, <3>4
    <2> QED
      BY <2>1, <2>2
  <1>e. \A i \in DOMAIN m_fibers : m_fibers[i].cb # c
    BY <1>0, <1>a DEF OwnInv, ListThreadsApart, Distinct
  <1>1. /\ \A g \in Tasks : /\ m_state'[g] = IF g = f THEN "EXEC" ELSE m_state[g]
                            /\ m_cb'[g] = IF g = f THEN c ELSE m_cb[g]
        /\ \A u \in Threads : /\ pc'[u] = IF u = t THEN "body" ELSE pc[u]
                              /\ cur'[u] = IF u = t THEN f ELSE cur[u]
                              /\ cb_fiber'[u] = IF u = t THEN f ELSE cb_fiber[u]
                              /\ ft'[u] = IF u = t THEN Empty ELSE ft[u]
    BY <1>a, <1>c, <1>d DEF TypeInt
  <1>2. ~failed'
    BY <1>a, <1>d
  <1>3. \A d \in Tasks : NotRun(d) /\ d # ft[t].cb => NotRun(d)'
    BY <1>0, <1>1, <1>a, <1>d DEF NotRun
  <1>4. \A g \in Tasks : Carries(t, g) => g = f
    BY <1>a, <1>c, TasksAssumption DEF Carries
  <1>5. /\ ListOK' /\ \A u \in Threads \ {t} : ThreadOK(u)' /\ SpareOK(u)'
        /\ \A g \in Tasks \ {f} : FiberOK(g)'
        /\ \A d \in Tasks : d # m_cb[f] /\ d # ft[t].cb => TaskOK(d)'
    BY <1>1, <1>3, <1>4, <1>a, <1>d, Others
  <1>6. Ran(t)' = f /\ ft'[t].fiber = None /\ ft'[t].cb = None
    BY <1>1, ItemFields DEF Ran
  <1>7. ThreadOK(t)'
    BY <1>1, <1>6, <1>c, <1>d DEF ThreadOK, Holding, Handed
  <1>8. SpareOK(t)'
    BY <1>1, <1>6 DEF SpareOK, Holding
  <1>9. FiberOK(f)'
    <2>1. Carries(t, f)'
      BY <1>1 DEF Carries
    <2> QED
      BY <1>1, <1>a, <1>c, <1>d, <2>1 DEF FiberOK, Owned, NotRun
  <1>10. TaskOK(c)'
    BY <1>1, <1>a, <1>c, <1>d DEF TaskOK, NotRun
  <1>11. ListApart' /\ RootOK' /\ armed' = {}
    BY <1>a DEF OwnInv, ListApart, Distinct, RootOK
  <1>12. ListThreadsApart'
    BY <1>1, <1>6, <1>a, <1>d, TasksAssumption DEF OwnInv, ListThreadsApart, Distinct, Private
  <1>13. ThreadsApart'
    <2>1. ThreadsApart /\ f # None
      BY <1>d, TasksAssumption DEF OwnInv
    <2> SUFFICES ASSUME NEW u \in Threads, NEW v \in Threads
                 PROVE  /\ u # v => Distinct(ft'[u], ft'[v])
                                    /\ (cb_fiber'[u] # None => cb_fiber'[u] # cb_fiber'[v])
                        /\ ft'[u].fiber # None => ft'[u].fiber # cb_fiber'[v]
      BY DEF ThreadsApart, Distinct
    <2> QED
      BY <1>1, <1>6, <1>d, <2>1 DEF ThreadsApart, Private, Distinct
  <1>14. OneFiber'
    BY <1>1, <1>c, <1>d DEF OwnInv, OneFiber, NotRun
  <1>15. \A g \in Tasks : FiberOK(g)' /\ TaskOK(g)'
    BY <1>0, <1>5, <1>9, <1>10, <1>d, TasksAssumption
  <1> QED
    BY <1>2, <1>5, <1>7, <1>8, <1>11, <1>12, <1>13, <1>14, <1>15 DEF OwnInv

\* What a task does last before its thread switches back.
LEMMA BodyOwn ==
    ASSUME IInv, OwnInv, NoHold, NEW t \in Threads, Body(t) PROVE OwnInv'
  <1>t. TypeInt /\ RanInv
    BY DEF IInv
  <1>0. PICK f : f = cur[t]
    OBVIOUS
  <1>a. /\ pc[t] = "body"
        /\ UNCHANGED <<main, starts, rootState, ft, cur, cb_fiber>>
    BY DEF Body, At, mainVars
  <1>b. RootOK' /\ ThreadOK(t) /\ SpareOK(t)
    BY <1>a DEF OwnInv, RootOK
  <1>1. ASSUME NEW c \in Tasks, NEW thd \in Pins, Spawn(t, c, thd) PROVE OwnInv'
    <2>1. /\ c \in Tasks \ submitted /\ submitted' = submitted \cup {c}
          /\ Schedule(CbItem(c, thd))
          /\ UNCHANGED <<pc, m_state, m_cb, armed, finished, failed>>
      BY <1>1 DEF Spawn
    <2> QED
      BY <1>a, <1>b, <1>t, <2>1, AddCb
  <1>2. CASE Return(t) \/ Throw(t) \/ YieldToReady(t)
    <2>1. /\ f = Ran(t) /\ f \in Tasks /\ m_state[f] = "EXEC" /\ m_cb[f] \in Tasks
          /\ f = ft[t].fiber \/ f = cb_fiber[t]
      BY <1>0, <1>a, <1>b, <1>t DEF ThreadOK, RanInv, RanOK, Ran
    <2>2. PICK c : c = m_cb[f]
      OBVIOUS
    <2>3. c \in Tasks /\ c # None /\ c \in submitted /\ finished[c] = 0 /\ ft[t].cb = None
      BY <1>a, <1>b, <2>1, <2>2, TasksAssumption DEF OwnInv, FiberOK, ThreadOK, Holding, Handed
    <2>4. f \in submitted /\ Private(t, f)
      BY <2>1, InUse, PrivateFact
    <2>5. pc' = [pc EXCEPT ![t] = "switch"]
          /\ UNCHANGED <<m_fibers, armed, submitted>> /\ ~failed'
      <3>1. CASE Return(t) \/ Throw(t)
        BY <3>1 DEF Return, Throw, OwnInv
      <3>2. CASE YieldToReady(t)
        <4>1. failed' = (m_state[f] # "EXEC")
          BY <1>0, <3>2 DEF YieldToReady
        <4>2. ~failed'
          BY <2>1, <4>1
        <4> QED
          BY <3>2, <4>2 DEF YieldToReady
      <3> QED
        BY <1>2, <3>1, <3>2
    <2>6. /\ \A g \in Tasks \ {f} : m_state'[g] = m_state[g] /\ m_cb'[g] = m_cb[g]
          /\ \A d \in Tasks \ {c} : finished'[d] = finished[d]
          /\ \/ m_state'[f] = "TERM" /\ m_cb'[f] = None /\ finished'[c] = 1
             \/ m_state'[f] = "EXCEPT" /\ m_cb'[f] = c /\ finished'[c] = 1
             \/ m_state'[f] = "READY" /\ m_cb'[f] = c /\ finished'[c] = 0
      <3>0. finished' = [finished EXCEPT ![c] = @ + 1] =>
               finished'[c] = 1 /\ \A d \in Tasks \ {c} : finished'[d] = finished[d]
        BY <1>t, <2>3 DEF TypeInt
      <3>1. CASE Return(t)
        <4>1. /\ finished' = [finished EXCEPT ![c] = @ + 1]
              /\ m_cb' = [m_cb EXCEPT ![f] = None] /\ m_state' = [m_state EXCEPT ![f] = "TERM"]
          BY <1>0, <2>2, <3>1 DEF Return
        <4> QED
          BY <1>t, <2>1, <3>0, <4>1 DEF TypeInt
      <3>2. CASE Throw(t)
        <4>1. /\ finished' = [finished EXCEPT ![c] = @ + 1]
              /\ m_cb' = m_cb /\ m_state' = [m_state EXCEPT ![f] = "EXCEPT"]
          BY <1>0, <2>2, <3>2 DEF Throw
        <4> QED
          BY <1>t, <2>1, <2>2, <3>0, <4>1 DEF TypeInt
      <3>3. CASE YieldToReady(t)
        BY <1>0, <1>t, <2>1, <2>2, <2>3, <3>3 DEF YieldToReady, TypeInt
      <3> QED
        BY <1>2, <3>1, <3>2, <3>3
    <2>7. \A u \in Threads : pc'[u] = IF u = t THEN "switch" ELSE pc[u]
      BY <1>t, <2>5 DEF TypeInt
    <2>8. \A d \in Tasks : NotRun(d) => NotRun(d)'
      <3> SUFFICES ASSUME NEW d \in Tasks, NotRun(d) PROVE NotRun(d)'
        OBVIOUS
      <3>1. d # c /\ d # f
        BY <2>1, <2>2 DEF NotRun
      <3> QED
        BY <2>1, <2>2, <2>5, <2>6, <3>1, TasksAssumption DEF NotRun
    <2>9. \A g \in Tasks : Carries(t, g) => g = f
      BY <1>0, <1>a DEF Carries
    <2>10. /\ ListOK' /\ \A u \in Threads \ {t} : ThreadOK(u)' /\ SpareOK(u)'
           /\ \A g \in Tasks \ {f} : FiberOK(g)'
           /\ \A d \in Tasks : d # m_cb[f] /\ d # ft[t].cb => TaskOK(d)'
      BY <1>a, <1>t, <2>1, <2>2, <2>4, <2>5, <2>6, <2>7, <2>8, <2>9, Others
    <2>11. Ran(t)' = f
      BY <1>a, <2>1 DEF Ran
    <2>12. ThreadOK(t)'
      BY <1>0, <1>a, <1>b, <2>3, <2>6, <2>7, <2>11 DEF ThreadOK, Holding, Handed, Ended
    <2>13. SpareOK(t)'
      <3>1. ft[t].fiber # None /\ cb_fiber[t] # None => cb_fiber[t] \in Tasks \ {f}
        BY <1>t, <2>1 DEF Ran, TypeInt, OwnInv, ThreadsApart
      <3> QED
        BY <1>a, <1>b, <2>6, <2>7, <3>1 DEF SpareOK, Holding
    <2>14. FiberOK(f)'
      <3>1. m_state'[f] = "READY" => Carries(t, f)'
        BY <2>7, <2>11 DEF Carries
      <3> QED
        BY <2>3, <2>5, <2>6, <3>1 DEF FiberOK, Owned
    <2>15. TaskOK(c)'
      BY <2>1, <2>3, <2>5, <2>6 DEF TaskOK
    <2>16. \A g \in Tasks : FiberOK(g)' /\ TaskOK(g)'
      BY <2>2, <2>3, <2>10, <2>14, <2>15, TasksAssumption
    <2>17. ListApart' /\ ListThreadsApart' /\ ThreadsApart' /\ armed' = {}
      BY <1>a, <2>5 DEF OwnInv, ListApart, ListThreadsApart, ThreadsApart, Distinct
    <2>18. OneFiber'
      BY <2>1, <2>2, <2>3, <2>6 DEF OwnInv, OneFiber
    <2> QED
      BY <1>b, <2>5, <2>10, <2>12, <2>13, <2>16, <2>17, <2>18 DEF OwnInv
  <1> QED
    BY <1>1, <1>2 DEF Body, NoHold, Arm, SwitchTo

\* run() behind swapIn: a fiber that has ended.
LEMMA SettleEndedOwn ==
    ASSUME TypeInt, RanInv, OwnInv, NEW t \in Threads, SettleEnded(t) PROVE OwnInv'
  <1>0. PICK f : f = Ran(t)
    OBVIOUS
  <1>a. /\ pc[t] = "settle" /\ m_state[f] \in Ended
        /\ ft' = [ft EXCEPT ![t] = Empty] /\ pc' = [pc EXCEPT ![t] = "fetch"]
        /\ UNCHANGED <<main, starts, rootState, m_fibers, cur, cb_fiber, armed, submitted,
                       finished, failed>>
    BY <1>0 DEF SettleEnded, At, mainVars, schedVars, taskVars
  <1>b. ThreadOK(t) /\ SpareOK(t) /\ f \in Tasks /\ (f = ft[t].fiber \/ f = cb_fiber[t])
        /\ ft[t].cb = None /\ FiberOK(f)
    BY <1>0, <1>a DEF OwnInv, ThreadOK, RanInv, RanOK, Ran, Holding
  <1>c. f \in submitted /\ Private(t, f)
    BY <1>a, <1>b, InUse, PrivateFact DEF Ended
  <1>d. m_cb[f] # None => m_cb[f] \in submitted /\ finished[m_cb[f]] = 1
    BY <1>a, <1>b DEF FiberOK, Ended
  <1>1. /\ \A g \in Tasks \ {f} : m_state'[g] = m_state[g] /\ m_cb'[g] = m_cb[g]
        /\ IF ft[t].fiber # None THEN m_state'[f] = m_state[f] /\ m_cb'[f] = m_cb[f]
                                 ELSE m_state'[f] = "INIT" /\ m_cb'[f] = None
    BY <1>0, <1>b DEF SettleEnded, fiberVars, TypeInt
  <1>2. /\ \A u \in Threads : pc'[u] = IF u = t THEN "fetch" ELSE pc[u]
        /\ \A u \in Threads : ft'[u] = IF u = t THEN Empty ELSE ft[u]
    BY <1>a DEF TypeInt
  <1>3. \A d \in Tasks : NotRun(d) => NotRun(d)'
    <2> SUFFICES ASSUME NEW d \in Tasks, NotRun(d) PROVE NotRun(d)'
      OBVIOUS
    <2>1. d # f /\ m_cb[f] # d
      BY <1>a, <1>b DEF NotRun, Ended
    <2> QED
      BY <1>1, <1>a, <2>1, TasksAssumption DEF NotRun
  <1>4. \A g \in Tasks : Carries(t, g) => g = f
    BY <1>0, <1>a DEF Carries
  <1>5. /\ ListOK' /\ \A u \in Threads \ {t} : ThreadOK(u)' /\ SpareOK(u)'
        /\ \A g \in Tasks \ {f} : FiberOK(g)'
        /\ \A d \in Tasks : d # m_cb[f] /\ d # ft[t].cb => TaskOK(d)'
    BY <1>1, <1>2, <1>3, <1>4, <1>a, <1>b, <1>c, Others
  <1>6. ThreadOK(t)' /\ ft'[t].fiber = None /\ ft'[t].cb = None
    BY <1>2, <1>a, <1>b, ItemFields DEF ThreadOK, Holding, Handed
  <1>7. SpareOK(t)'
    <2>1. CASE ft[t].fiber = None
      <3>1. f = cb_fiber[t]
        BY <1>0, <2>1 DEF Ran
      <3> QED
        BY <1>1, <1>a, <2>1, <3>1 DEF SpareOK
    <2>2. CASE ft[t].fiber # None
      <3>1. cb_fiber[t] # None => cb_fiber[t] \in Tasks \ {f}
        BY <1>0, <2>2 DEF Ran, TypeInt, OwnInv, ThreadsApart
      <3> QED
        BY <1>1, <1>a, <1>b, <2>2, <3>1 DEF SpareOK, Holding
    <2> QED
      BY <2>1, <2>2
  <1>8. FiberOK(f)'
    BY <1>1, <1>a, <1>b, <1>d DEF FiberOK, Ended
  <1>9. ASSUME NEW c \in Tasks, c = m_cb[f] PROVE TaskOK(c)'
    BY <1>9, <1>a, <1>d, TasksAssumption DEF TaskOK
  <1>10. \A g \in Tasks : FiberOK(g)' /\ TaskOK(g)'
    BY <1>5, <1>8, <1>9, <1>b, TasksAssumption
  <1>11. ListApart' /\ RootOK' /\ ~failed' /\ armed' = {}
    BY <1>a DEF OwnInv, ListApart, Distinct, RootOK
  <1>12. ListThreadsApart'
    BY <1>2, <1>6, <1>a DEF OwnInv, ListThreadsApart, Distinct
  <1>13. ThreadsApart'
    BY <1>2, <1>6, <1>a DEF OwnInv, ThreadsApart, Distinct
  <1>14. OneFiber'
    BY <1>1 DEF OwnInv, OneFiber
  <1> QED
    BY <1>5, <1>6, <1>7, <1>10, <1>11, <1>12, <1>13, <1>14 DEF OwnInv

\* run() behind swapIn: a READY fiber goes back to the list.
LEMMA SettleReadyOwn ==
    ASSUME TypeInt, RanInv, OwnInv, NEW t \in Threads, SettleReady(t) PROVE OwnInv'
  <1>0. PICK f, x : f = Ran(t) /\ x = FiberItem(f, AnyThread)
    OBVIOUS
  <1>a. /\ pc[t] = "settle" /\ m_state[f] = "READY" /\ Schedule(x)
        /\ cb_fiber' = IF KeepsCbFiber(t) THEN cb_fiber ELSE [cb_fiber EXCEPT ![t] = None]
        /\ ft' = [ft EXCEPT ![t] = Empty] /\ pc' = [pc EXCEPT ![t] = "fetch"]
        /\ UNCHANGED <<main, starts, rootState, cur, m_state, m_cb, armed, submitted,
                       finished, failed>>
    BY <1>0 DEF SettleReady, At, mainVars, fiberVars, taskVars
  <1>b. ThreadOK(t) /\ SpareOK(t) /\ f \in Tasks /\ (f = ft[t].fiber \/ f = cb_fiber[t])
        /\ ft[t].cb = None /\ m_cb[f] \in Tasks /\ cur[t] = None
    BY <1>0, <1>a DEF OwnInv, ThreadOK, RanInv, RanOK, Ran, Holding, Ended
  <1>c. Private(t, f) /\ f # None
    BY <1>b, PrivateFact, TasksAssumption
  <1>d. x \in Items /\ x.fiber = f /\ x.cb = None
    BY <1>0, <1>b, ItemType, ItemFields
  <1>1. PICK n : /\ n \notin DOMAIN m_fibers /\ DOMAIN m_fibers' = DOMAIN m_fibers \cup {n}
                 /\ m_fibers'[n] = x
                 /\ \A i \in DOMAIN m_fibers : m_fibers'[i] = m_fibers[i]
    BY <1>a, <1>d, ListGrows
  <1>2. /\ \A u \in Threads : pc'[u] = IF u = t THEN "fetch" ELSE pc[u]
        /\ \A u \in Threads : ft'[u] = IF u = t THEN Empty ELSE ft[u]
        /\ \A u \in Threads : cb_fiber'[u] = IF u = t /\ ft[t].fiber = None THEN None
                                             ELSE cb_fiber[u]
    <2>1. KeepsCbFiber(t) <=> ft[t].fiber # None
      BY <1>0, <1>a DEF KeepsCbFiber, Ended
    <2> QED
      BY <1>a, <2>1 DEF TypeInt
  <1>3. ft'[t].fiber = None /\ ft'[t].cb = None /\ ft'[t] = Empty
        /\ cb_fiber'[t] # f /\ (cb_fiber'[t] # None => ft[t].fiber # None /\ cb_fiber'[t] = cb_fiber[t])
    <2>1. ft[t].fiber # None => ft[t].fiber # cb_fiber[t]
      BY DEF OwnInv, ThreadsApart
    <2> QED
      BY <1>0, <1>2, <1>c, <2>1, ItemFields DEF Ran
  <1>4. \A y : ItemOK(y)' <=> ItemOK(y)
    BY <1>a DEF ItemOK, NotRun
  <1>5. ItemOK(x)
    BY <1>a, <1>b, <1>d DEF ItemOK
  <1>6. ListOK' /\ ListApart'
    BY <1>1, <1>4, <1>5, <1>c, <1>d DEF OwnInv, ListOK, ListApart, Distinct, Private
  <1>7. ListThreadsApart'
    BY <1>1, <1>2, <1>3, <1>c, <1>d DEF OwnInv, ListThreadsApart, Distinct, Private
  <1>8. ThreadsApart'
    BY <1>2, <1>3 DEF OwnInv, ThreadsApart, Distinct
  <1>9. ASSUME NEW u \in Threads PROVE ThreadOK(u)' /\ SpareOK(u)'
    <2>1. ThreadOK(u) /\ SpareOK(u)
      BY DEF OwnInv
    <2>2. CASE u = t
      <3>1. ThreadOK(t)'
        BY <1>2, <1>3, <1>a, <1>b DEF ThreadOK, Holding, Handed
      <3>2. SpareOK(t)'
        BY <1>2, <1>3, <1>a, <1>b DEF SpareOK
      <3> QED
        BY <2>2, <3>1, <3>2
    <2>3. CASE u # t
      BY <1>2, <1>4, <1>a, <2>1, <2>3 DEF ThreadOK, SpareOK, Ran
    <2> QED
      BY <2>2, <2>3
  <1>10. ASSUME NEW g \in Tasks PROVE FiberOK(g)' /\ TaskOK(g)'
    <2>1. FiberOK(g) /\ TaskOK(g) /\ g # None
      BY TasksAssumption DEF OwnInv
    <2>2. \A u \in Threads \ {t} : Carries(u, g) => Carries(u, g)'
      BY <1>2, <1>a DEF Carries, Ran
    <2>3. Carries(t, g) => g = f
      BY <1>0, <1>a DEF Carries
    <2>4. Owned(g) => Owned(g)'
      BY <1>1, <1>d, <2>2, <2>3 DEF Owned
    <2>5. FiberOK(g)'
      BY <1>a, <2>1, <2>4 DEF FiberOK
    <2>6. (\E u \in Threads : ft[u].cb = g) => \E u \in Threads : ft'[u].cb = g
      BY <1>2, <1>b, <2>1
    <2>7. TaskOK(g)'
      BY <1>1, <1>a, <2>1, <2>6 DEF TaskOK
    <2> QED
      BY <2>5, <2>7
  <1>11. OneFiber' /\ RootOK' /\ ~failed' /\ armed' = {}
    BY <1>a DEF OwnInv, OneFiber, RootOK
  <1> QED
    BY <1>6, <1>7, <1>8, <1>9, <1>10, <1>11 DEF OwnInv

LEMMA InitOwn == Init => OwnInv
  <1> SUFFICES ASSUME Init PROVE OwnInv
    OBVIOUS
  <1>1. /\ \A t \in Threads : /\ pc[t] = "off" /\ ft[t] = Empty /\ cur[t] = None
                              /\ cb_fiber[t] = None
        /\ \A f \in Tasks : m_state[f] = "none" /\ m_cb[f] = None /\ finished[f] = 0
        /\ DOMAIN m_fibers = {} /\ submitted = {} /\ armed = {} /\ main = "new"
        /\ rootState = "INIT"
    BY DEF Init
  <1>2. ~failed
    BY DEF Init
  <1>3. ListOK /\ ListApart /\ ListThreadsApart /\ OneFiber /\ RootOK
    BY <1>1 DEF ListOK, ListApart, ListThreadsApart, OneFiber, RootOK
  <1>4. ThreadsApart
    BY <1>1, ItemFields DEF ThreadsApart, Distinct
  <1>5. ASSUME NEW t \in Threads PROVE ThreadOK(t) /\ SpareOK(t)
    BY <1>1, <1>5, ItemFields DEF ThreadOK, SpareOK, Holding, Handed
  <1>6. ASSUME NEW f \in Tasks PROVE FiberOK(f) /\ TaskOK(f)
    BY <1>1, <1>6 DEF FiberOK, TaskOK
  <1> QED
    BY <1>1, <1>2, <1>3, <1>4, <1>5, <1>6 DEF OwnInv

LEMMA RunOwn ==
    ASSUME IInv, OwnInv, NoHold, NEW t \in Threads, RunStep(t) PROVE OwnInv'
  <1>1. TypeInt /\ RanInv /\ ThreadOK(t)
    BY DEF IInv, OwnInv
  <1>2. ~DropEnded(t)
    BY <1>1 DEF DropEnded, At, ThreadOK, Handed, ItemOK, Ended
  <1>3. ~YieldToHold(t) /\ ~SetHold(t)
    BY <1>1 DEF YieldToHold, SetHold, At, ThreadOK
  <1>4. ~SettleHeld(t)
    BY <1>1 DEF SettleHeld, At, ThreadOK
  <1> QED
    BY <1>1, <1>2, <1>3, <1>4, CalmRun, FetchOwn, ResumeFiberOwn, ResumeCbOwn, BodyOwn,
       SettleEndedOwn, SettleReadyOwn
    DEF RunStep

LEMMA OwnStep ==
    ASSUME IInv, OwnInv, NoHold, OneRootRun, [Next]_vars PROVE OwnInv'
  <1>1. TypeInt /\ RanInv
    BY DEF IInv
  <1>2. CASE UNCHANGED vars
    <2>1. /\ RootOK' /\ ~failed' /\ \A t \in Threads : Calm(t)
          /\ UNCHANGED <<m_fibers, ft, m_state, m_cb, armed, submitted, finished>>
      BY <1>2 DEF vars, OwnInv, RootOK, Calm
    <2> QED
      BY <1>1, <2>1, CalmStep
  <1>3. ASSUME NEW c \in Tasks, NEW thd \in Pins, SubmitCb(c, thd) PROVE OwnInv'
    <2>1. /\ c \in Tasks \ submitted /\ submitted' = submitted \cup {c}
          /\ Schedule(CbItem(c, thd)) /\ RootOK'
          /\ UNCHANGED <<pc, ft, cur, cb_fiber, m_state, m_cb, armed, finished, failed>>
      BY <1>3 DEF SubmitCb, mainVars, threadVars, fiberVars, OwnInv, RootOK
    <2> QED
      BY <1>1, <2>1, AddCb
  <1>4. \A f \in Tasks : ~Wake(f) /\ ~Resubmit(f)
    BY DEF Wake, Resubmit, OwnInv, NoHold
  <1> QED
    BY <1>1, <1>2, <1>3, <1>4, MainOwn, AddFiber, RunOwn DEF Next, Submit

\* Every fiber has one owner, for tasks that do not hand their own fiber to others.
THEOREM OwnCorrect ==
    ASSUME NoHold, OneRootRun PROVE Spec => [](IInv /\ OwnInv)
  <1>1. Init => OwnInv
    BY InitOwn
  <1>2. IInv /\ OwnInv /\ [Next]_vars => OwnInv'
    BY OwnStep
  <1> QED
    BY <1>1, <1>2, Invariant, PTL DEF Spec

\* The task c is in item i of the list; thread t has it.
ListHas(i, c) == \/ m_fibers[i].cb = c
                 \/ m_fibers[i].fiber # None /\ m_cb[m_fibers[i].fiber] = c
ThreadHas(t, c) == \/ pc[t] = "dispatch" /\ ft[t].cb = c
                   \/ \E f \in Tasks : m_cb[f] = c /\ Carries(t, f)

LEMMA OnePlace ==
    ASSUME armed = {}, NEW c,
           \/ \E i \in DOMAIN m_fibers : /\ ListHas(i, c)
                                         /\ \A j \in DOMAIN m_fibers : ListHas(j, c) => j = i
                                         /\ \A t \in Threads : ~ThreadHas(t, c)
           \/ \E t \in Threads : /\ ThreadHas(t, c)
                                 /\ \A u \in Threads : ThreadHas(u, c) => u = t
                                 /\ \A i \in DOMAIN m_fibers : ~ListHas(i, c)
    PROVE  Cardinality(Places(c)) = 1
  <1>1. Places(c) = {<<"list", i>> : i \in {j \in DOMAIN m_fibers : ListHas(j, c)}}
                    \cup {<<"thread", t>> : t \in {u \in Threads : ThreadHas(u, c)}}
    BY DEF Places, ListHas, ThreadHas
  <1>2. \E p : Places(c) = {p}
    <2>1. ASSUME NEW i \in DOMAIN m_fibers, ListHas(i, c),
                 \A j \in DOMAIN m_fibers : ListHas(j, c) => j = i,
                 \A t \in Threads : ~ThreadHas(t, c)
          PROVE  \E p : Places(c) = {p}
      <3>1. {j \in DOMAIN m_fibers : ListHas(j, c)} = {i} /\ {u \in Threads : ThreadHas(u, c)} = {}
        BY <2>1
      <3>2. Places(c) = {<<"list", i>>}
        BY <1>1, <3>1
      <3> QED
        BY <3>2
    <2>2. ASSUME NEW t \in Threads, ThreadHas(t, c),
                 \A u \in Threads : ThreadHas(u, c) => u = t,
                 \A i \in DOMAIN m_fibers : ~ListHas(i, c)
          PROVE  \E p : Places(c) = {p}
      <3>1. {j \in DOMAIN m_fibers : ListHas(j, c)} = {} /\ {u \in Threads : ThreadHas(u, c)} = {t}
        BY <2>2
      <3>2. Places(c) = {<<"thread", t>>}
        BY <1>1, <3>1
      <3> QED
        BY <3>2
    <2> QED
      BY <2>1, <2>2
  <1> QED
    BY <1>2, FS_Singleton

\* Who carries a fiber owns it.
LEMMA CarrierOwns ==
    ASSUME OwnInv, NEW t \in Threads, NEW f \in Tasks, Carries(t, f)
    PROVE  f = ft[t].fiber \/ f = cb_fiber[t]
  <1>1. ThreadOK(t)
    BY DEF OwnInv
  <1> QED
    BY <1>1 DEF Carries, ThreadOK, Ran

\* Until a task has run exactly one place holds it, and it runs once: no hand-over
\* between the list, the threads, yields and reused cb_fibers drops or doubles it.
THEOREM OnePlaceCorrect ==
    ASSUME NoHold, OneRootRun PROVE Spec => []TaskInOnePlace
  <1>1. IInv /\ OwnInv => TaskInOnePlace
    <2> SUFFICES ASSUME IInv, OwnInv, NEW c \in submitted \ Twice
                 PROVE  \/ finished[c] = 0 /\ Cardinality(Places(c)) = 1
                        \/ finished[c] = 1 /\ \A t \in Threads : ft[t].cb # c
      BY DEF TaskInOnePlace
    <2>1. c \in Tasks /\ TaskOK(c) /\ c # None /\ armed = {}
      BY TasksAssumption DEF OwnInv, IInv, TypeInt
    <2>2. CASE finished[c] = 1
      BY <2>1, <2>2, HandOK DEF NotRun
    <2>3. CASE finished[c] = 0
      <3>a. \A i \in DOMAIN m_fibers :
               /\ m_fibers[i].cb = c => NotRun(c) /\ m_fibers[i].fiber = None
               /\ m_fibers[i].fiber # None => m_fibers[i].fiber \in Tasks
        BY <2>1 DEF OwnInv, ListOK, ItemOK
      <3>1. ASSUME NEW i \in DOMAIN m_fibers, m_fibers[i].cb = c PROVE Cardinality(Places(c)) = 1
        <4>1. NotRun(c)
          BY <3>1, <3>a
        <4>2. ListHas(i, c) /\ \A j \in DOMAIN m_fibers : ListHas(j, c) => j = i
          BY <2>1, <3>1, <3>a, <4>1 DEF ListHas, NotRun, OwnInv, ListApart, Distinct
        <4>3. \A t \in Threads : ~ThreadHas(t, c)
          BY <2>1, <3>1, <4>1 DEF ThreadHas, NotRun, OwnInv, ListThreadsApart, Distinct
        <4> QED
          BY <2>1, <4>2, <4>3, OnePlace
      <3>2. ASSUME NEW t \in Threads, ft[t].cb = c PROVE Cardinality(Places(c)) = 1
        <4>1. NotRun(c) /\ pc[t] = "dispatch"
          BY <2>1, <3>2, HandOK
        <4>2. ThreadHas(t, c)
          BY <3>2, <4>1 DEF ThreadHas
        <4>3. \A u \in Threads : ThreadHas(u, c) => u = t
          BY <2>1, <3>2, <4>1 DEF ThreadHas, NotRun, OwnInv, ThreadsApart, Distinct
        <4>4. \A i \in DOMAIN m_fibers : ~ListHas(i, c)
          BY <2>1, <3>2, <3>a, <4>1 DEF ListHas, NotRun, OwnInv, ListThreadsApart, Distinct
        <4> QED
          BY <2>1, <4>2, <4>3, <4>4, OnePlace
      <3>3. ASSUME NEW f \in Tasks, m_cb[f] = c PROVE Cardinality(Places(c)) = 1
        <4>0. f # None /\ Owned(f) /\ ~NotRun(c)
          BY <2>1, <2>3, <3>3, TasksAssumption DEF OwnInv, FiberOK, NotRun
        <4>1. \A g \in Tasks : m_cb[g] = c => g = f
          BY <2>1, <3>3 DEF OwnInv, OneFiber
        <4>2. \A i \in DOMAIN m_fibers : ListHas(i, c) <=> m_fibers[i].fiber = f
          BY <3>3, <3>a, <4>0, <4>1 DEF ListHas
        <4>3. \A u \in Threads : ThreadHas(u, c) <=> Carries(u, f)
          BY <2>1, <3>3, <4>0, <4>1, HandOK DEF ThreadHas
        <4>4. ASSUME NEW i \in DOMAIN m_fibers, m_fibers[i].fiber = f
              PROVE  Cardinality(Places(c)) = 1
          <5>1. \A j \in DOMAIN m_fibers : m_fibers[j].fiber = f => j = i
            BY <4>0, <4>4 DEF OwnInv, ListApart, Distinct
          <5>2. \A u \in Threads : ~Carries(u, f)
            BY <4>0, <4>4, CarrierOwns DEF OwnInv, ListThreadsApart, Distinct
          <5> QED
            BY <2>1, <4>2, <4>3, <4>4, <5>1, <5>2, OnePlace
        <4>5. ASSUME NEW t \in Threads, Carries(t, f) PROVE Cardinality(Places(c)) = 1
          <5>0. Private(t, f)
            BY <4>5, CarrierOwns, PrivateFact
          <5>1. \A u \in Threads : Carries(u, f) => u = t
            BY <5>0, CarrierOwns DEF Private
          <5>2. \A i \in DOMAIN m_fibers : m_fibers[i].fiber # f
            BY <5>0 DEF Private
          <5> QED
            BY <2>1, <4>2, <4>3, <4>5, <5>1, <5>2, OnePlace
        <4> QED
          BY <4>0, <4>4, <4>5 DEF Owned
      <3> QED
        BY <2>1, <2>3, <3>1, <3>2, <3>3 DEF TaskOK
    <2> QED
      BY <2>1, <2>2, <2>3 DEF TaskOK
  <1> QED
    BY <1>1, OwnCorrect, PTL
-----------------------------------------------------------------------------
(* stop() is graceful *)

\* A thread that will look at the list again before it leaves run().
SeesList(t) == pc[t] \notin Off /\ (pc[t] = "noTask" => ~idleTerm[t])

\* Every item may be taken by any thread.
Unpinned == \A i \in DOMAIN m_fibers : m_fibers[i].thd = AnyThread

\* While the program is between start() and stop() no worker leaves; and as long as
\* the list is not empty someone will look at it, at last the caller's thread.
ListSeen ==
    /\ main = "running" => ~m_stopping /\ \A t \in Workers : pc[t] \notin Off /\ ~idleTerm[t]
    /\ m_fibers # <<>> => \/ main = "new"
                          \/ RootThreads # {} /\ main \in {"running", "callRoot"}
                          \/ \E t \in Threads : SeesList(t)

\* schedule() without a thread argument; a READY fiber goes to any thread as well.
LEMMA UnpinnedStep ==
    ASSUME IInv, OwnInv, NoHold, Pins \subseteq {AnyThread}, Unpinned, [Next]_vars
    PROVE  Unpinned'
  <1>1. TypeInt /\ RanInv
    BY DEF IInv
  <1>2. ASSUME NEW x \in Items, Schedule(x), x.thd = AnyThread PROVE Unpinned'
    <2>1. PICK n : /\ n \notin DOMAIN m_fibers /\ DOMAIN m_fibers' = DOMAIN m_fibers \cup {n}
                   /\ m_fibers'[n] = x
                   /\ \A i \in DOMAIN m_fibers : m_fibers'[i] = m_fibers[i]
      BY <1>1, <1>2, ListGrows
    <2> QED
      BY <1>2, <2>1 DEF Unpinned
  <1>3. \A f \in Tasks, thd \in Pins \cup {AnyThread} :
           /\ FiberItem(f, thd) \in Items /\ FiberItem(f, thd).thd = AnyThread
           /\ CbItem(f, thd) \in Items /\ CbItem(f, thd).thd = AnyThread
    BY DEF FiberItem, CbItem, Items
  <1>4. ASSUME NEW t \in Threads, NEW i \in DOMAIN m_fibers, Fetch(t, i) PROVE Unpinned'
    <2>1. PICK s : \A j \in DOMAIN m_fibers' : s[j] \in DOMAIN m_fibers \ {i}
                                               /\ m_fibers'[j] = m_fibers[s[j]]
      BY <1>1, <1>4, ListShrinks DEF Fetch
    <2> QED
      BY <2>1 DEF Unpinned
  <1>5. ASSUME NEW t \in Threads, SettleReady(t) PROVE Unpinned'
    <2>1. Ran(t) \in Tasks /\ Schedule(FiberItem(Ran(t), AnyThread))
      BY <1>1, <1>5 DEF SettleReady, At, RanInv, RanOK
    <2> QED
      BY <1>2, <1>3, <2>1
  <1>6. ASSUME NEW t \in Threads, Body(t) PROVE Unpinned'
    <2>1. m_fibers' = m_fibers \/ \E c \in Tasks, thd \in Pins : Schedule(CbItem(c, thd))
      BY <1>6 DEF Body, Return, Throw, YieldToReady, Arm, SwitchTo, Spawn, NoHold
    <2> QED
      BY <1>2, <1>3, <2>1 DEF Unpinned
  <1>7. CASE Submit \/ \E f \in Tasks : Wake(f)
    <2>1. \E c \in Tasks, thd \in Pins \cup {AnyThread} :
             Schedule(CbItem(c, thd)) \/ Schedule(FiberItem(c, thd))
      BY <1>7 DEF Submit, SubmitCb, SubmitFiber, Resubmit, Wake
    <2> QED
      BY <1>2, <1>3, <2>1
  <1>8. CASE UNCHANGED m_fibers
    BY <1>8 DEF Unpinned
  <1>9. MainStep \/ UNCHANGED vars => UNCHANGED m_fibers
    BY DEF MainStep, Start, BeginStop, CallRoot, RootReturns, Join, schedVars, vars
  <1>10. ASSUME NEW t \in Threads, RunStep(t)
         PROVE  \/ UNCHANGED m_fibers \/ Body(t) \/ SettleReady(t)
                \/ \E i \in DOMAIN m_fibers : Fetch(t, i)
    BY <1>10 DEF RunStep, FetchNothing, TestFiber, ResumeFiber, DropEnded, ResumeCb, YieldToHold,
       SwapOut, Deactivate, SettleEnded, SettleHeld, SetHold, NoTask, Idle, schedVars
  <1> QED
    BY <1>4, <1>5, <1>6, <1>7, <1>8, <1>9, <1>10 DEF Next

\* A thread that has taken a step sees the list, unless it has found it empty or has
\* not been seeing it before.
LEMMA RunSees ==
    ASSUME IInv, OwnInv, Unpinned, NEW t \in Threads, RunStep(t)
    PROVE  /\ \A u \in Threads \ {t} : pc'[u] = pc[u] /\ idleTerm'[u] = idleTerm[u]
           /\ \/ SeesList(t)' \/ m_fibers' = <<>>
              \/ ~SeesList(t) /\ m_fibers' = m_fibers
           /\ pc'[t] \in Off => idleTerm[t]
           /\ idleTerm'[t] => idleTerm[t] \/ m_stopping
           /\ main' = main /\ m_stopping' = m_stopping
  <1>0. TypeInt
    BY DEF IInv
  <1>1. \A u \in Threads \ {t} : pc'[u] = pc[u] /\ idleTerm'[u] = idleTerm[u]
    BY <1>0 DEF TypeInt, RunStep, Fetch, FetchNothing, TestFiber, ResumeFiber, DropEnded, ResumeCb, Body,
       Return, Throw, YieldToReady, Arm, SwitchTo, Spawn, YieldToHold, SwapOut, Deactivate,
       SettleReady, SettleEnded, SettleHeld, SetHold, NoTask, Idle
  <1>2. main' = main /\ m_stopping' = m_stopping
    BY DEF RunStep, Fetch, FetchNothing, TestFiber, ResumeFiber, DropEnded, ResumeCb, Body, YieldToHold,
       SwapOut, Deactivate, SettleReady, SettleEnded, SettleHeld, SetHold, NoTask, Idle,
       mainVars, schedVars
  <1>3. CASE FetchNothing(t)
    <2>1. \A i \in DOMAIN m_fibers : Eligible(t, m_fibers[i])
      BY DEF Eligible, Unpinned, OwnInv, ListOK, ItemOK
    <2>2. DOMAIN m_fibers = {}
      BY <1>3, <2>1 DEF FetchNothing
    <2>3. m_fibers = <<>> /\ m_fibers' = m_fibers
      BY <1>0, <1>3, <2>2 DEF TypeInt, FetchNothing, schedVars
    <2>4. pc'[t] = "noTask" /\ idleTerm' = idleTerm
      BY <1>0, <1>3 DEF TypeInt, FetchNothing
    <2> QED
      BY <1>1, <1>2, <2>3, <2>4 DEF Off
  <1>4. CASE NoTask(t)
    <2>1. /\ pc[t] = "noTask" /\ idleTerm' = idleTerm /\ m_fibers' = m_fibers
          /\ pc'[t] = IF idleTerm[t] THEN "exit" ELSE "idle"
      BY <1>0, <1>4 DEF TypeInt, NoTask, At, schedVars
    <2> QED
      BY <1>1, <1>2, <2>1 DEF SeesList, Off
  <1>5. CASE Idle(t)
    <2>1. pc'[t] = "fetch" /\ idleTerm' = [idleTerm EXCEPT ![t] = Stopping]
      BY <1>0, <1>5 DEF TypeInt, Idle
    <2>2. idleTerm'[t] = Stopping
      BY <1>0, <2>1, Zenon DEF TypeInt
    <2>3. idleTerm'[t] => m_stopping
      BY <2>2 DEF Stopping
    <2> QED
      BY <1>1, <1>2, <2>1, <2>3 DEF SeesList, Off
  <1>6. CASE ~FetchNothing(t) /\ ~NoTask(t) /\ ~Idle(t)
    <2>1. idleTerm' = idleTerm
      BY <1>6 DEF RunStep, Fetch, TestFiber, ResumeFiber, DropEnded, ResumeCb, Body, YieldToHold,
         SwapOut, Deactivate, SettleReady, SettleEnded, SettleHeld, SetHold
    <2>2. pc'[t] \in PCs \ (Off \cup {"noTask"})
      BY <1>0, <1>6 DEF TypeInt, RunStep, Fetch, TestFiber, ResumeFiber, DropEnded, ResumeCb, Body,
         Return, Throw, YieldToReady, Arm, SwitchTo, Spawn, YieldToHold, SwapOut, Deactivate,
         SettleReady, SettleEnded, SettleHeld, SetHold, Off, PCs, At
    <2> QED
      BY <1>1, <1>2, <2>1, <2>2 DEF SeesList
  <1> QED
    BY <1>3, <1>4, <1>5, <1>6

LEMMA SeenStep ==
    ASSUME IInv, OwnInv, Unpinned, ListSeen, [Next]_vars PROVE ListSeen'
  <1>0. TypeInt
    BY DEF IInv
  <1>1. CASE Start
    <2>1. /\ main' = "running" /\ ~m_stopping'
          /\ \A t \in Workers : pc'[t] = "fetch" /\ ~idleTerm'[t]
      BY <1>1 DEF Start, Threads
    <2>2. RootThreads = {} => \E t \in Workers : t \in Threads
      BY ThreadsAssumption DEF Threads
    <2> QED
      BY <2>1, <2>2 DEF ListSeen, SeesList, Off
  <1>2. CASE BeginStop
    <2>1. main = "running" /\ UNCHANGED <<m_fibers, pc, idleTerm>>
          /\ main' = IF RootThreads = {} THEN "join"
                     ELSE IF /\ Workers = {} /\ rootState \in {"INIT", "TERM"}
                             /\ m_fibers = <<>> /\ m_activeThreadCount = 0
                          THEN "stopped" ELSE "callRoot"
      BY <1>2 DEF BeginStop, MainAt, threadVars
    <2> QED
      BY <2>1 DEF ListSeen, SeesList
  <1>3. ASSUME NEW r \in RootThreads, CallRoot(r) PROVE ListSeen'
    <2>1. /\ m_fibers' = m_fibers
          /\ \/ main' = "join" /\ m_fibers = <<>>
             \/ main' = "inRoot" /\ pc'[r] = "fetch"
      BY <1>0, <1>3 DEF CallRoot, Stopping, schedVars, TypeInt, Threads
    <2> QED
      BY <2>1 DEF ListSeen, SeesList, Off, Threads
  <1>4. CASE Join \/ \E r \in RootThreads : RootReturns(r)
    <2>1. main \in {"inRoot", "join"} /\ main' \in {"join", "stopped"}
          /\ UNCHANGED <<m_fibers, pc, idleTerm>>
      BY <1>4 DEF Join, RootReturns, MainAt, schedVars, threadVars
    <2> QED
      BY <2>1 DEF ListSeen, SeesList
  <1>5. CASE Submit
    <2>1. main \in {"new", "running"} /\ UNCHANGED <<main, m_stopping, pc, idleTerm>>
      BY <1>5 DEF Submit, SubmitCb, SubmitFiber, Resubmit, MainAt, mainVars, threadVars
    <2>2. RootThreads = {} => \E t \in Workers : t \in Threads
      BY ThreadsAssumption DEF Threads
    <2> QED
      BY <2>1, <2>2 DEF ListSeen, SeesList, Off
  <1>6. ASSUME NEW t \in Threads, RunStep(t) PROVE ListSeen'
    <2>1. /\ \A u \in Threads \ {t} : pc'[u] = pc[u] /\ idleTerm'[u] = idleTerm[u]
          /\ \/ SeesList(t)' \/ m_fibers' = <<>>
             \/ ~SeesList(t) /\ m_fibers' = m_fibers
          /\ pc'[t] \in Off => idleTerm[t]
          /\ idleTerm'[t] => idleTerm[t] \/ m_stopping
          /\ main' = main /\ m_stopping' = m_stopping
      BY <1>6, RunSees
    <2>2. main' = "running" => ~m_stopping'
                               /\ \A u \in Workers : pc'[u] \notin Off /\ ~idleTerm'[u]
      BY <2>1 DEF ListSeen, Threads
    <2>3. \A u \in Threads \ {t} : SeesList(u)' <=> SeesList(u)
      BY <2>1 DEF SeesList
    <2> QED
      BY <2>1, <2>2, <2>3 DEF ListSeen
  <1>7. \A f \in Tasks : ~Wake(f)
    BY DEF Wake, OwnInv
  <1>8. CASE UNCHANGED vars
    BY <1>8 DEF vars, ListSeen, SeesList
  <1> QED
    BY <1>1, <1>2, <1>3, <1>4, <1>5, <1>6, <1>7, <1>8 DEF Next, MainStep

\* When stop() has returned everything scheduled has run to its end, although the
\* count of active threads goes down before a READY fiber is back in the list.  No
\* task is bound to a thread, which might leave before the task comes.
THEOREM StopGracefulCorrect ==
    ASSUME NoHold, OneRootRun, Pins \subseteq {AnyThread} PROVE Spec => []StopIsGraceful
  <1>1. Init => Unpinned /\ ListSeen
    BY DEF Init, Unpinned, ListSeen
  <1>2. IInv /\ OwnInv /\ Unpinned /\ ListSeen /\ [Next]_vars => Unpinned' /\ ListSeen'
    BY UnpinnedStep, SeenStep
  <1>3. IInv /\ OwnInv /\ ListSeen => StopIsGraceful
    <2> SUFFICES ASSUME IInv, OwnInv, ListSeen, main = "stopped", NEW c \in submitted
                 PROVE  finished[c] >= 1
      BY DEF StopIsGraceful
    <2>1. \A t \in Threads : pc[t] \in Off
      BY DEF IInv, MainInv, Threads
    <2>2. DOMAIN m_fibers = {}
      BY <2>1 DEF ListSeen, SeesList
    <2>3. c \in Tasks /\ TaskOK(c) /\ c # None
      BY TasksAssumption DEF IInv, TypeInt, OwnInv
    <2>4. \A t \in Threads : ft[t].cb # c
      BY <2>1, <2>3, HandOK DEF Off
    <2>5. \A f \in Tasks : m_cb[f] = c => finished[c] = 1
      <3>1. \A f \in Tasks : ~Owned(f)
        BY <2>1, <2>2 DEF Owned, Carries, Off
      <3> QED
        BY <2>3, <3>1 DEF OwnInv, FiberOK
    <2>6. finished[c] = 1
      BY <2>2, <2>3, <2>4, <2>5 DEF TaskOK
    <2> QED
      BY <2>6
  <1> QED
    BY <1>1, <1>2, <1>3, OwnCorrect, PTL DEF Spec
=============================================================================
