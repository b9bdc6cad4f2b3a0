# windgent in TLA+

windgent is a C++ server framework built on N:M coroutines: fibers that run on a
few threads, a timer set and an epoll loop that wake them, hooked system calls
that turn blocking reads into waits of a fiber, and an HTTP client and server on
top. These modules model its core, the part in which several threads meet, the
HTTP client and server, the loggers and their configuration, and the byte
buffer. TLC checks them on small instances; for nine of them TLAPS proves safety
properties, and one refinement, for all.

All paths below are relative to `src/windgent/`.

## The system

| part | state | operations | works with |
|---|---|---|---|
| fiber (`fiber.cc`) | `m_state`, `m_cb`, a stack | swapIn, swapOut, YieldToReady, YieldToHold, reset | is resumed by the scheduler and by nobody else |
| scheduler (`scheduler.cc`) | list of tasks, active and idle counts, `m_stopping`, `m_autostop` | schedule, start, run, idle, switchTo, stop | everything that wakes a fiber calls schedule |
| timer (`timer.cc`) | ordered set of timers, `m_tickled`, last clock reading | addTimer, addCondTimer, cancel, refresh, reset, listExpiredCbs | IOManager inherits it; callbacks are scheduled |
| iomanager (`iomanager.cc`) | table of FdContexts, pending count, epoll set, pipe | addEvent, delEvent, cancelEvent, cancelAll, idle, tickle, stopping | is the scheduler whose idle fiber waits in epoll |
| hook, fd_manager (`hook.cc`, `fd_manager.cc`) | FdCtx per descriptor, `timer_cond` per call | do_io and its callers, connect, sleep, socket, close, fcntl, ioctl, setsockopt | timer, event and scheduler in one call |
| bytearray (`bytearray.cc`) | chain of blocks, position, size, capacity, current block | write, read, setPosition, addCapacity, clear, toString, iovecs | sequential; used by streams |
| HTTP client (`http/http_connection.cc`) | list of idle connections, `m_total` | getConnection, releasePtr, doRequest | runs on hooked sockets |
| TCP and HTTP server (`tcp_server.cc`, `http/`) | listening sockets, `m_isStop`, servlet maps | bind, start, stop, handleAccept, handleClient, recvRequest | schedules a fiber per client |
| servlets (`http/servlet.cc`) | a map of paths, a list of globs, a default | add, delete, match | changed while the server runs |
| messages (`http/http.cc`, the parsers, `stream.cc`) | a buffer, a parser's state | dump, execute, readFixedSize | read off a stream in arbitrary pieces |
| config (`config.h`) | map of variables, each with a value and listeners | Lookup, setVal, addListener | the loggers and the connect timeout are listeners |
| log (`log.cc`) | loggers with level, formatter and appenders | log, setFormatter, addAppenders, the listener of "logs" | every thread logs |
| socket, address, uri, mutex, thread, util | | wrappers, conversions | |

What is hard about it:

* a fiber's state is written without a lock by its own thread and tested under
  the list's lock by others, and every waker races with the fiber's way to HOLD;
* three counters (active threads, pending events, timers) decide whether
  `stop()` may end, and each is changed on many paths;
* a wait is ended by the first of event, timeout and close, on three threads;
* notifications are suppressed (`m_tickled`, "no idle thread") by flags that can
  be out of date;
* a descriptor is a number that is closed and given to another socket;
* a message arrives in pieces, or in part, or not at all, and its connection is
  used again for the next one;
* servlets, loggers and variables are changed while others use them.

`PROJECT.json` lists these hazards one by one, at their lines, each with the
properties that would catch it.

What makes each part correct: a scheduled task is run once and by one thread, and
`stop()` returns, after the tasks; a timer fires, once, not early; tables, counts
and the kernel's registrations agree and no waiting fiber becomes unreachable; a
hooked call returns, for a reason of its own, and leaves nothing behind; a buffer
is a string. A pool hands a connection to one user and takes back only clean
ones; an answer is the whole answer to the request; a server accepts, answers
what was asked, and stops; the loggers are in the end what the variable says, and
no event is lost on the way.

## Modules

A step of a module is one critical section of the code, one access to a field
that is written without a lock, or one system call. Names are the source's where
TLA+ allows. A definition whose comment says "Mutant" is no part of the
model: it is a wrong version of the definition that follows it, with which the
property named in `PROJECT.json` must fail.

**Scheduler** (`scheduler.cc`, `fiber.cc`). Threads run `Scheduler::run` as a
program counter: `Fetch`/`FetchNothing` (the locked scan of the list),
`TestFiber`, `ResumeFiber` and `ResumeCb` (swapIn), `DropEnded`, what the task does (`Return`,
`Throw`, `YieldToReady`, `Arm` and `YieldToHold`, `SwitchTo`, `Spawn`), `SwapOut`,
`Deactivate`, and the `Settle` actions for READY, ended and held fibers, with `SetHold`
(the late write of HOLD, and the end of a fiber nobody else refers to). The
program calls `Start`, `SubmitCb`, `SubmitFiber` and stop in three parts
(`BeginStop`, `CallRoot`, `Join`). `YieldToHold` (the write of HOLD) and `SwapOut`
(leaving the stack) are two steps because nothing protects the time between. Stacks are
reduced to "which fiber's stack is this thread on". `Wake` stands for whoever
will schedule a held fiber.

**TimerManager** (`timer.cc`, and `idle()` of `iomanager.cc` as far as it sleeps).
`Build` reads the clock, `AddTimer` inserts under the lock, and
`OnTimerInsertedAtFront` notifies after the unlock; `Cancel`, `Refresh`, `Reset`;
the idle thread's `Sleep`, `WakeUp` (which takes the clock reading) and
`ListExpiredCbs` (which uses it). `Less` breaks ties by the address of the timer,
and the address of the timer that `listExpiredCbs` creates for its lower_bound
may be anything. The wall clock ticks and can be set back.

**IOEvents** (`iomanager.cc`). FdContexts are named <<fd, n>>, so that a context
that has fallen out of the table can be told from its successor. Every operation
is a `Lookup` under the table's lock, a `ContextResize` if needed, and one step
under the context's lock with its `epoll_ctl`. `EpollWait` takes a batch that is
dispatched entry by entry while others go on. The kernel (`CtlOk`, `CtlDo`) refuses what
epoll refuses. Owners add events and close; others only delete and cancel. `UserOps`
says which calls a run's threads make. `torn` records what the code does not know: the
descriptors that `close_f` found with events.

**HookedIO** (`hook.cc`, `fd_manager.cc`). One fiber makes one call after the other
on one descriptor: `Begin`, `Try` (the system call), `AddTimer`, `AddEvent`,
`YieldToHold`, `Resume`, `CancelTimer`, `Check`, and back to `Try`. A wake-up before
the yield leaves the fiber in the list, since run() passes over fibers in EXEC. Against it run the timers
(`Expire`, then the callback in two parts, `CallbackTest` and `CallbackCancel`),
the idle thread (`Report`, `Dispatch`), another thread's `CloseCancel`, `CloseDel`,
`Close`, `Open`, `CreateCtx`, and options. Here the timer set and the event table
are what Scheduler, TimerManager and IOEvents show them to be: a set of timers
each of which fires once, and a registration that is triggered once; and a fiber
is resumed behind its swapOut (it may be before: `FiberOnOneThread`, below).

**IdleThreads** (`iomanager.cc`, `scheduler.cc`, `timer.cc`). Composes the list, the timers, the
events and the tickle pipe, each reduced to what wakes a thread: a worker's
`Fetch`, `FetchNothing`, `NoTask`; inside idle() the three reads of `stopping()`
(`ReadTimers`, `ReadEvents`, `ReadLists`), `EpollWait`, `ListExpired`, `PushExpired`,
`Handle`, `LeaveIdle`; a task's `Spawn`, `AddTimer`, `AddEvent` and `YieldToReady`, after
which `Deactivate` and `Reschedule` are two steps; `Submit`, `Stop` and `Join` of the program. `Tickle` is a step of its own, since it follows the
unlock. Which task of the list comes first, and which timer, is left open.

**HttpMessage** (`http/http.cc`, `http/http_connection.cc`, `http/http_parser.cc`, `stream.cc`).
Messages as sequences of tokens and the receivers of `recvResponse` and
`recvRequest` as a record that each `read()` changes: `ParseHead`, `ParseSize`,
`ReadChunk`, `Content` (with its unsigned subtraction), `ReadFixed`, `ReadError`.

**HttpClient** (`http/http_connection.cc`). Fibers that call `doRequest` of one pool
(`Begin`, `Get` under the lock, `Sweep` and `Connect` outside it, `Send`, `Read`,
`Parse`, `Release`, `PushBack`) or of `HttpConnection`, and a server that answers in
full, in part, or not at all, and closes. Every byte of an answer carries the
name of its request.

**HttpServer** (`tcp_server.cc`, `http/http_server.cc`, `http/http_session.cc`,
`http/servlet.cc`). One `handleAccept` per listening socket on the accept worker
(`TestStop`, `Accept`, `AddEvent`, `Readable`, `Resume`), stop() with the task it schedules
(`BeginClosing`, `CloserCancels`, `CloserCloses`), `RecvRequest` and `Handle` of each
client's session, the clients (`ClientConnect`, `ClientSend`, `ClientLeave`), and the
dispatcher's changes. What a listening fiber does in accept() is HookedIO's read
without a timeout. Its variables and its specification (`ServerSpec`) have names of
their own, so that HttpProofs can extend it together with HttpClient.

**LogPattern**, **LogConfig** (`log.cc`, `config.h`). LogPattern is the parser of
`LogFormatter::init`. LogConfig has the loggers that are configured, the root logger
always among them, `setVal` with the listener's steps
for each logger (`SetLevel`, `SetFormatter`, `ClearAppenders`, `AddAppenders`, then
`WriteVal`), and threads that log: `Log` tests the level, `Write` calls the appenders
or, holding the logger's mutex, hands the event to the root logger (`RootLog`, `RootWrite`).
The program's own loggers hold appenders by name, as the shared pointers they are: one may be
added to two loggers, deleted and added again (`AddOwn`, `DelOwn`), have its formatter
set or taken away (`AppenderChange`), and follow its logger's, which is set by either overload
(`SetOwnFormatter`).

**ByteArray**, **Fields**, **Varint**, **FlatBytes** (`bytearray.cc`, `endian.h`). ByteArray
keeps the blocks and the cursor; `write` and `read` take one step per pass of their
loops (`WritePass`, `ReadPass`), during which no other call happens; the const
`read` behind `toString` changes nothing and is a function (`ReadAt`, pass by pass
`CopyPass`). `ReadField` is what a typed read call does: one `read` after the other on
copies of the cursor (`ReadMore`), an exception or a null block ending it. Fields is what
the typed calls put into the string and make of what they read: fixed integers in either
byte order, signed and not, strings behind their length, and the compressed
integers of Varint, with the group and word sizes as parameters. FlatBytes is
the abstract specification: one string with a position.

**TimerManagerProofs**, **SchedulerProofs**, **IOEventsProofs**, **HookedIOProofs**,
**IdleThreadsProofs**, **LogConfigProofs** and **ByteArrayProofs** hold the theorems
about the module each is named after, **HttpProofs** those about HttpClient and HttpServer.
**MCTimerManager** gives timers their integer addresses, **MCIOEvents** says that threads are
interchangeable, **MCLogConfig** has the YAML nodes of the
configurations; the other modules are checked directly.

## Runs

| run | shows | distinct states |
|---|---|---|
| `sched_base` | two workers, three tasks that yield, throw and spawn: `NoAssertionFails`, `StopIsGraceful`, `TaskInOnePlace` (none lost or doubled between list, threads and reused cb_fibers), and under fairness `EveryTaskRuns` | 170,056 |
| `sched_caller` | a worker and the caller's thread, pinned tasks that hold, yield, move and throw, a fiber scheduled twice, two start/stop cycles: `ActiveExact` | 991,448 |
| `timer` | two timers, all operations, the clock set back once: `ArmedIffCallback`, `OneShotOnce`, `NeverEarly`, `NothingDueLeft`, `DueTimersFire` | 410,075 |
| `idle` | two threads that fall asleep and are woken by tasks, timers and events, tasks that yield, and stop(): `TaskInOnePlace`, `StopDrainsList`, and under fairness `StopReturns`, `EveryTaskRuns` | 165,657 |
| `events` | two descriptors, two threads that add, delete, cancel and close under each other, an idle thread, errors, the table growing and shrinking: `PendingExact`, `EventsAgree` | 3,047,527 |
| `hook_calls` | two calls of every kind against timers, events, close and options: `WokenOnce`, `NothingLeftBehind`, `TimeoutIsOwn`, and under fairness `ReadyEndsCall` | 359,790 |
| `hook_timeout_lost` | violation of `TimedCallReturns` | |
| `http_client` | two fibers with one pool and a third without, three requests, every cut of the answers into reads, timeouts, a peer that closes: `ConnHeldOnce`, `TotalCounts`, `PoolIsClean`, `ResponseIsOwn` | 2,053,935 |
| `http_server` | two listening sockets, a client with two requests, servlets that come and go, stop() at any time: `RequestIsSent`, `RetiredAnswersNothing`, and under fairness `RequestsAreAnswered`, `StopEndsAccept` | 376,380 |
| `server_null` | violation of `ServerSurvives` | |
| `logconf` | configurations of a logger and of the root logger loaded one after the other while a thread logs and the program changes a logger of its own: `LoggersMatchConfig`, `AppendersFollow`, `EventIsWritten`, `PatternReadsBack` | 3,248,000 |
| `bytes` | blocks of two bytes, fields of all types: `ChainIsSound`, `ToStringIsData`, `FieldsReadBack`, `ImplementsFlatBytes` | 678,369 |

Each module states its `TypeOK`; `timer` and `sched_base` check it, and for their
modules it is proved.

### What the violations show

* `hook_timeout_lost` (`hook.cc:143`): the timer of a call is armed before its event is
  registered; if it expires in between, nothing is left to end the wait.
* `server_null` (`http/http_server.cc:21`): `handleClient` logs that `recvRequest` returned null and
  then dereferences it. A keep-alive client that closes, or is silent for
  `m_recvTimeout`, ends the server.

### Properties that are stated and do not hold

These are defined in the modules and, with the constants named, checked by no run, since the code
violates them. TLC finds the counterexample, mostly within seconds, when the property takes the place of those in the cfg named.

| property | of | with | place |
|---|---|---|---|
| `FiberOnOneThread` | Scheduler | `SchedCaller.cfg` | `fiber.cc:175` |
| `TaskInOnePlace`, `NoAssertionFails` | Scheduler | `SchedBase.cfg`, one task, `UserOps` "fiber", "hold" and "ready", two yields | `scheduler.cc:182`, `186`, `206`, `fiber.cc:73` |
| `StopIsGraceful` | IdleThreads | `Idle.cfg` | `scheduler.cc:180`, `iomanager.cc:277` |
| `WaiterIsReachable` | IOEvents | `Events.cfg` | `iomanager.cc:103` |
| `NoAssertionFails` | IOEvents | `Events.cfg` | `iomanager.cc:342` |
| `EmptyStringReadsBack` | ByteArray | `Bytes.cfg` | `bytearray.cc:356` |
| `ReadAtStartsThere` | ByteArray | `Bytes.cfg` | `bytearray.cc:390` |
| `RootStandsIn` | LogConfig | `LogConf.cfg` | `log.cc:708` |
| `DoublePercentIsText` | LogConfig | `LogConf.cfg` | `log.cc:435` |

* `FiberOnOneThread`: `YieldToHold` sets HOLD and then switches stacks. A
  waker that schedules the fiber in between lets a second worker resume it, on a stack
  that is in use: `run()` looks only for EXEC.
* `TaskInOnePlace` of a task that holds: a thread that has come back from a fiber on HOLD
  reads and writes its state while another one may have resumed it. When it has
  yielded there both read READY and it is scheduled twice; in other orders the late
  HOLD overwrites that READY and it is not scheduled at all. The late HOLD may also be written
  to a fiber that has ended elsewhere; if that thread holds the last reference, the
  assertion of `~Fiber` fails (`NoAssertionFails`). The tasks of `sched_base` do not hold.
* `StopIsGraceful` of two threads of an IOManager: between the decrement and `schedule()` a READY
  fiber is counted nowhere; a thread that looks then leaves early, and the other one,
  between its reads of `stopping()`, can
  miss what the fiber registers next: `stop()` returns with a timer or an event pending. The
  framework itself never calls `YieldToReady`; its users may. But the same happens without a yield
  (`Arming` two of three tasks, `MaxYields` 0): the callback of an expired timer, on its way from the timers
  into the list, is in none of the three things that `stopping()` reads. What does hold is `StopDrainsList`.
* `WaiterIsReachable`: two threads past the size test resize the table one
  after the other; the second can make it smaller and lose the context of a waiting fiber,
  which `cancelEvent` and `close` then do not find.
* `NoAssertionFails` of IOEvents: EPOLLERR and EPOLLHUP make `idle()` trigger events
  nobody registered, against the assertion in `triggerEvent`. The build does not define NDEBUG.
* `EmptyStringReadsBack`: an empty string whose length ends with the last block
  makes `readString*` call `read(buf, 0)`, which dereferences the null `m_cur`.
* `ReadAtStartsThere`: `read(buf, size, pos)` starts in the block of the position,
  not in that of `pos`. The framework itself only calls it with `m_position`.
* `RootStandsIn`: while the root logger is reconfigured it has no appenders for a
  moment, and an event that falls back to it is dropped, though both configurations write it.
* `DoublePercentIsText`: of "%%" the first sign becomes text and the second starts
  an item, against the comment at `log.cc:422`. `PatternReadsBack` is about patterns without it.

### What the passing runs leave out

Each of these is a place where the code does not do what one would ask of it.
Modelling met them; the runs stay on the near side of them, by a constant or by
what they ask, and a change of that constant shows them.

* `scheduler.cc:113`: with use_caller a second `start()` and `stop()` may resume `m_rootFiber`,
  which has ended: an ASSERT fails. `sched_base` has no caller's thread.
* `scheduler.cc:215`: a worker that has seen stopping() true while a READY fiber was on
  its way back into the list leaves at its next look at a list without work for it.
  If the fiber then schedules a task bound to that worker, `stop()` returns
  and the task never runs. It takes two yields; the tasks of `sched_base` are
  bound to no thread.
* `timer.cc:118`: `getTimeOfNextTimer` leaves `m_tickled` true when there are no
  timers, and the next timer at the front wakes nobody. It is late, by up to the
  3 s limit of `epoll_wait`; `DueTimersFire` holds all the same.
* `iomanager.cc:303`: a first timer 2^31 ms away makes `epoll_wait` block without
  limit. `Far` is empty, and the timers of `timer` are below `IntHalf`.
* `hook.cc:391`: `close()` cancels the events of a descriptor and closes it in two steps. An event that
  another thread adds in between is neither cancelled nor triggered: its fiber waits for ever.
  `EventsAgree` excepts the descriptors that this happened to (`torn`). With two threads on the
  accept worker an acceptor can register there; `AcceptThreads` is 1.
* `http/http_session.cc:52`, `http/http_connection.cc:235`: bytes behind the body make
  `length -= last_size` wrap. `Pipelining` is FALSE.
* `http/http_parser.cc:212`: a chunk size split over two reads is forgotten.
  `SplitSizes` is FALSE.
* `http/httpclient_parser.rl:198`: the client's parser asserts that a NUL follows the data, which the
  loop of `http/http_connection.cc:148` does not write. The buffer is not initialized; the model
  has the outcome in which that byte is zero, and in the other one the process ends.
* `stream.cc:9`: -1 becomes 2^64 - 1, which is not `<= 0`: `readFixedSize` goes back
  one byte and waits for one more, and `writeFixedSize` tries for ever. `ErrorsAt` lacks
  "fixed", and writes are complete.
* `http/http_connection.cc:306`: `m_maxSize` is compared with nothing.
* `http/servlet.cc:50`: this overload locks the mutex it holds.
* `config.h:280`: two setters call the listeners in one order and store in the
  other. `Setters` has one member.
* `log.cc:229`: an appender that the program adds to a second logger, or deletes and adds again
  after the logger's formatter has changed, keeps the formatter it was first given, with
  `m_hasFormatter` false. `AppendersFollow` is about configured loggers, whose
  appenders the listener makes anew.
* `log.cc:251`, `335`: the overloads that take a `LogFormatter` accept one whose pattern did not
  parse, and an appender in a logger may have its formatter taken away; the
  next event then dereferences null (`log.cc:349`), where the model stops that thread.
* `log.cc:619`: the level of an appender is not read from the configuration; and a
  logger that is redefined without a formatter keeps its old one
  (`log.cc:705`), which `LoggersMatchConfig` allows.
* `bytearray.cc:569`: the iovecs of `getReadBuffers` (and at 604, 633) start at the number of
  bytes left in the block and not at the offset.

After a failed assertion, a null pointer (a read of nothing in ByteArray), or with a fiber
on two threads, a model stops: the program has no defined behaviour from there.

### Bounds

Two of each kind of actor are what a race needs, and the counts are chosen so that every path is
taken: one yield per task sends it through the list again, two starts reuse the
root fiber, two allocations per descriptor give a lost context a successor,
two calls and two sockets let a callback and a registration outlive their call
and their socket, and capacity for three blocks lets a write cross two block
ends. Clock values 0 to 2 hold "before", "at" and "after" a period of one.
`RolloverGap`, `MaxTimeout` and `IntHalf` are the code's one hour, 3 s and 2^31 ms
in units of the model.
Group 2 and Width 5 of Varint stand for 7 and 32: as there, the last group is
not full; a byte then has eight values, and a fixed integer two bytes. Radix 2
gives a chunk of two bytes a size of two digits, and Word 8 is more than any length in a run
can reach. Three requests reuse a connection, meet one that was used up
(`m_maxRequest` is 1) and one that is too old (`m_maxAliveTime` is 0); two connections
at a time make fibers meet. Two changes of servlets replace one or take one
back; two requests of a client are one keep-alive and one after it. Patterns in
LogConfig are one that parses to each of two items and one that does not parse;
`logconf` has two configurable loggers, of which one is the root logger, and one appender that the
program adds, deletes and re-adds;
the parser itself is checked on every pattern of up to three texts and items.
The bounds appear in guards and can be raised; the theorems hold for all of their values.

Deadlock is not checked where a program may come to its end (all calls made, the
scheduler stopped) or crash (`bytes`).

### Fairness

Weak fairness only, per thread: a thread that can go on goes on (`RunStep`,
`IdlerStep`, `FiberStep` inside a call, `CallbackStep`, `CloserStep`), which is
what the operating system gives. Time passes (`Tick`, `Expire`). `Wake` is fair:
whoever holds a fiber schedules it in the end. `Report` and `Dispatch` are fair
because an idle thread always returns to `epoll_wait`. In IdleThreads timers
expire and events arrive (`Expire`, `Arrive`), for stop() is meant to wait for
them, and `Join` is fair. In HttpServer the acceptors, the task of stop() and the
sessions are fair, the clients and the program are not. The program's own calls,
the peer and the user's options are never fair, so that no property rests on
them. That workers are free to run callbacks is assumed in HookedIO; a worker
blocked by a blocking socket is outside it.

## Proofs

Each proof is the invariance of a conjunction, first checked by TLC as an
invariant, then proved action by action; the theorems follow from it. A theorem
with a hypothesis names it in its ASSUME; each hypothesis keeps to the near side of
a place listed under "Properties that are stated and do not hold" or "What the passing runs leave out", as the runs do.

* **TimerManagerProofs**, for every set of timers, threads, periods and clocks:
  `TypeCorrect`, `ArmedCorrect`, `OneShotCorrect`, `NeverEarlyCorrect`,
  `NothingDueLeftCorrect`. `ArmedIffCallback` and `OneShotOnce` are inductive only
  together with `QueuedLive` (what is queued was published). `NeverEarly` needs
  `ClockOrder`: without set-backs, a reading kept by an idle thread is not later than the clock
  nor, if it is older than another thread's, able to expire more than that one.
  `NothingDueLeft` rests on the lemma that `Expired` takes everything due,
  whatever the address `lower_bound` compares.
* **SchedulerProofs**, for every finite set of threads and any tasks. The first half is
  about tasks with any operations: `ActiveCorrect` (`ActiveExact`) and
  `TypeCorrect`. That `m_activeThreadCount` stays a natural number is part of `TypeOK` and
  follows from its being a cardinality, so the type proof is done with integers
  first (`TypeInt`) and strengthened by the count. `RanInv` says that a thread
  behind a swapIn has a fiber it came back from; `MainInv` ties `start()` and
  `stop()` to the threads' places. The second half is about who owns a fiber:
  `OwnInv` says that every fiber that will run again is in one place, an item of
  the list, a thread's task or its spare cb_fiber, and that its state and callback fit
  that place. From it follow `OnePlaceCorrect` (`TaskInOnePlace`), and with `ListSeen` (as long as the list
  is not empty a thread that will look at it again has not left)
  `StopGracefulCorrect` (`StopIsGraceful`).
  Hypotheses: `NoHold`, no task hands its own fiber to others and no fiber is scheduled
  twice (`TaskInOnePlace` is false without it); `OneRootRun`, with
  use_caller there is one start (`scheduler.cc:113`); for `StopIsGraceful` no task is
  bound to a thread (`scheduler.cc:215`).
* **IOEventsProofs**, for any descriptors, threads and sizes: `PendingCorrect`
  (`PendingExact`) and `FilledCorrect` (an EventContext is set exactly while its event is
  registered) hold whatever threads do, closing and shrinking the table included.
  So does `EventsAgreeCorrect` (`EventsAgree`), for all descriptors but those closed with events in a
  context (`torn`), in which context and kernel cannot agree. Its
  `AgreeInv` adds that the kernel has a context of the descriptor itself. The argument for a table
  that shrinks: a descriptor has at most one context with events (`SameContext`), because
  `epoll_ctl(ADD)` refuses the second one, although the first is in the table no more.
* **HookedIOProofs**, for any number of calls, sockets and options:
  `WokenOnceCorrect`, `NothingLeftBehindCorrect`, `TimeoutIsOwnCorrect`. The
  strengthening says that only the current pass has a timer (`TimersCurrent`), that
  callbacks in flight belong to calls with an expired timer and never to a later
  one (`CallbacksExpired`), and that a sleep has one waker at a time: timer, then callback, then
  its place in the list (`SleepWakers`).
* **IdleThreadsProofs**, for any finite set of threads and any tasks: `OnePlaceCorrect`
  (`TaskInOnePlace`), from `PlaceInv`, which adds that what a thread has reported or
  holds is in no other place, READY tasks included; and `DrainsListCorrect` (`StopDrainsList`), from
  `DrainInv`: an idle fiber ends only after stop() has begun (`TermLate`), and while there is a
  task in the list, some thread will look at the list again before it leaves (`ListSeen`).
  `StopGracefulCorrect` (`StopIsGraceful`) is for one thread (with two it is false); its `SeenInv` says that what the only thread has seen of `stopping()` is still so.
* **HttpProofs**, the client, for any fibers and connections. Whatever the messages
  are: `PoolCorrect` (the invariant), `HeldOnceCorrect` (`ConnHeldOnce`), `TotalCorrect`
  (`TotalCounts`). `PlaceInv` says what a fiber holds at each place of its request,
  `HeldInv` that no connection is in two places, batches that await their
  deletion included, and `AliveInv` that a connection somebody has is not free
  to be made anew. `ResponseOwnCorrect` (`ResponseIsOwn`) and `PoolCleanCorrect` (`PoolIsClean`)
  go into the messages, for any lengths and any cut of them into reads. Their
  `NetInv` says of a connection that only the fiber that has it is owed an answer or has
  bytes on it (`ConnOK`), and of a fiber (`FiberOK`) that its request is unanswered, that it
  has read the first k tokens of its answer and the rest of what the server wrote is on the wire
  (`Reading`), that it has the whole answer and nothing is left (`Answered`), or that it gave up
  and closed (`GaveUp`). What a receiver is after k tokens is said in closed form (`Taken` for a body of
  known length, `ChunkAt` for chunks), and the lemmas `FixedReceive`, `ChunkRead` and
  `ChunkParse` show that a read or a parse leads from one k to another. Hypothesis:
  `WholeLines`, no size line in two reads (`http/http_parser.cc:212`), no error inside
  `readFixedSize` (`stream.cc:9`), lengths that `uint64_t` holds.
* **HttpProofs**, the server, for any clients, sockets, requests and servlets: `RequestSentCorrect`
  (`RequestIsSent`) and `RetiredCorrect` (`RetiredAnswersNothing`). `DispatchInv` says that
  every entry of the map and of the list of globs leads to a servlet that was added under
  its name and is not retired, and that no glob is there twice. `SessionInv` says that a session
  waits for a request with nothing on its stream, or has read the first k tokens of the
  one request that is not answered yet and the rest is on the stream (`Underway`); the
  lemmas on messages are the client's. Hypothesis: no `Pipelining` (`http/http_session.cc:52`).
* **LogConfigProofs**, for any loggers and configurations, whatever patterns
  parse: `AppendersCorrect` (`AppendersFollow`), from `FollowInv`, whatever the number of setters;
  `LoggersMatchCorrect` (`LoggersMatchConfig`), for one thread that loads configurations (`OneSetter`,
  `config.h:280`), from `MatchInv`: while the listener works, every logger that it is done with
  matches the new value, and the one in hand matches as far as it has got; and, with it,
  the action property `EventIsWrittenCorrect` (`EventIsWritten`): a root logger that is not being set is as
  the value in force says (`RootMatches`), so that it drops only what that value silences (`RootWrites`).
* **ByteArrayProofs**, for any block size, fields and lengths: `ChainCorrect`
  (`ChainIsSound`) and the refinement `FlatBytesCorrect` (`ImplementsFlatBytes`). `ChainInv` adds to
  `ChainIsSound` what the loops keep: something is left to do (but for a read of nothing), the blocks have room
  for it, and `npos` and `ncap` are the place in the current block. The arithmetic is
  in lemmas (`DivUnique`: a position has one block and one offset;
  `EnoughBlocks`: `ceil()` makes enough room; `SeekEffect`, `PassEffect`). A call is one step of
  FlatBytes when it begins (`WriteFlat` by `Splice`, `ReadFlat`, `SetPositionFlat`,
  `ClearFlat`); a pass of a loop leaves the string as it is, since the bytes
  still to be copied count as copied (`WrittenBytes`, `CopiedBytes`, `DataParts`).
  `ToStringCorrect` (`ToStringIsData`): every pass of the const `read` is at the place of the position
  it has reached and has copied the bytes up to it (`CopyAt`, `PassCopies`), and after as many
  passes as bytes none is left (`ReadAtData`).

Assumptions are those named in the modules: bounds are natural numbers, sets of
threads are finite and disjoint, a period is not negative, `m_blocksize` is not
zero, there is a worker, and the table of contexts starts with at least two
(the code's 32), since one and a half times the descriptor 1 is, as an integer, 1. Two of
them state what a function computes and are evaluated by TLC on the values of the
runs: `CastAssumption` (LexicalCast yields a LogDefine; the provers cannot follow
`SelectSeq`) and `BuffersAssumption` (a typed call writes at least one byte).

Induction over data is done by hand where a proof needs it: the set of
counterexamples would have a least element (`MinOfNats`), and that a recursive function
satisfies its equation is shown by writing one down that does (`PassesExist`,
`SizeOfDigits`).

Only model-checked:

* all liveness properties (fairness and ENABLED are outside the prover);
* `FieldsReadBack` of ByteArray: bytes, words and groups are powers `2^n` with n a
  parameter, and the provers know nothing of exponentiation;
* `PatternReadsBack`: its part about the parser has no parameters, so that
  TLC evaluates all of it, but it speaks of patterns of up to three pieces;
* `NoAssertionFails` of Scheduler, for two workers and tasks that do not hold.

## Left out

* stacks, ucontext, memory management and exceptions other than a task's throw;
* addresses, URIs, YAML, and the grammars of the Ragel parsers apart from what
  decides where a message ends: conversions without state that others read;
* of HttpMessage: a read never ends inside a line of the head; the buffer is larger
  than any message, so that `last_size == buffer_size` does not happen;
* of HttpClient: the kernel takes every request at once, so the two error results of
  sending do not occur (`writeFixedSize` could not return them for an error);
  the pool outlives its connections, as the raw pointer in their deleter needs;
* of HttpServer: `start()` after `stop()`, and a client's address;
* mutex and thread, which the steps of the modules take as given; a reader-writer
  lock is a step like a mutex, since no read section here runs beside a write;
* durations in HookedIO, the files and iovecs of ByteArray, the growth of the
  table of FdCtx, the look-up of variables by name, the output of log items.

## What could follow

That the parser of patterns reads back every pattern, and not only
those of up to three pieces; and a model of the growth of the table of FdCtx.
