------------------------------ MODULE LogConfig ------------------------------
(***************************************************************************)
(* windgent/log.cc and windgent/config.h: loggers and their appenders, the *)
(* variable "logs" of the configuration, its listener that brings the      *)
(* loggers in line with a new value, and threads that log meanwhile.       *)
(*                                                                         *)
(* A formatter is its pattern.  A logger that getLogger has not made yet   *)
(* is shown as it will be made.  The appenders that the listener makes are *)
(* reached only through their logger and are part of it; those that the    *)
(* program makes are objects of their own, which several loggers may hold. *)
(* A step is one critical section of a logger's mutex, or one access to    *)
(* m_level, which has none; the variable's read lock is held for as long   *)
(* as the listener runs.                                                   *)
(***************************************************************************)
EXTENDS LogPattern, FiniteSets

CONSTANTS
    Configured,    \* names of loggers that the configuration may define
    Private,       \* names of loggers that the program sets up itself
    Root,          \* the logger that others without appenders fall back to
    OwnAppenders,  \* appenders that the program makes for its loggers
    Setters,       \* threads that load a configuration
    Threads,       \* threads that log
    LogNodes,      \* the nodes that a logger may have in the configuration
    MaxAppenders   \* bound: appenders of a private logger

Names == Configured \cup {Root}

ASSUME NamesAssumption == Configured \cap Private = {} /\ Root \notin Private
ASSUME AppendersBound == MaxAppenders \in Nat

UNKNOWN == 0
DEBUG == 1
WARN == 3
Levels == {UNKNOWN, DEBUG, WARN}      \* of the five levels above UNKNOWN
Patterns == {<<"%", "m">>, <<"%", "d">>, <<"%", "x">>}
Valid == {p \in Patterns : ~isError(p)}
Default == <<"-", "%", "m">>          \* the pattern of a new Logger
Empty == <<>>                         \* an empty string, a null pointer

VARIABLES
    loggers,       \* level, formatter and appenders of the loggers in Names
    private,       \* level, formatter and appenders (their names) of the program's
    own,           \* the program's appenders
    m_val,         \* the variable's value: a define for each of some names
    setting,       \* per setter: what setVal is doing
    logging        \* per thread: what log() is doing

privateVars == <<private, own>>
vars == <<loggers, privateVars, m_val, setting, logging>>

-----------------------------------------------------------------------------
(* The configuration: YAML nodes and the defines that LexicalCast makes of them *)

Define(level, formatter, appenders) ==
    [level |-> level, formatter |-> formatter, appenders |-> appenders]

\* An appender's node: wrong if it has no type, an invalid one, or no file to write.
Wrong == <<"wrong">>
AppenderNode(formatter) == <<"right", formatter>>

\* LexicalCast<std::string, LogDefine>: nodes that are wrong are left out.
CastLog(node) ==
    LET right == SelectSeq(node.appenders, LAMBDA a : a # Wrong)
    IN Define(node.level, node.formatter, [i \in DOMAIN right |-> right[i][2]])

\* A define: its formatter and those of its appenders may be empty, or not parse.
Defines == [level : Levels, formatter : Patterns \cup {Empty}, appenders : Seq(Patterns \cup {Empty})]
ASSUME CastAssumption == \A node \in LogNodes : CastLog(node) \in Defines

\* The values that fromString hands to setVal: one define per name.
Values == UNION {[names -> {CastLog(n) : n \in LogNodes}] : names \in SUBSET Configured}

Logger(level, formatter, appenders) ==
    [m_level |-> level, m_formatter |-> formatter, m_appenders |-> appenders]
Appender(formatter, has) == [m_formatter |-> formatter, m_hasFormatter |-> has]
Appenders == [m_formatter : Valid \cup {Default}, m_hasFormatter : BOOLEAN]

\* A program's appender may have none, and a formatter that does not parse.
OwnValues == [m_formatter : Patterns \cup {Default, Empty}, m_hasFormatter : BOOLEAN]

TypeOK ==
    /\ \A n \in Names :
          /\ loggers[n].m_level \in Levels
          /\ loggers[n].m_formatter \in Valid \cup {Default}
          /\ loggers[n].m_appenders \in Seq(Appenders)
    /\ \A n \in Private :
          /\ private[n].m_level \in Levels
          /\ private[n].m_formatter \in Patterns \cup {Default}
          /\ private[n].m_appenders \in Seq(OwnAppenders)
    /\ own \in [OwnAppenders -> OwnValues]
    /\ m_val \in Values
    /\ DOMAIN setting = Setters /\ DOMAIN logging = Threads

Idle == [at |-> "idle"]

\* A logger as getLogger makes it, and the root logger as LoggerManager does.
Made(n) == Logger(DEBUG, Default, IF n = Root THEN <<Appender(Default, FALSE)>> ELSE <<>>)

Init ==
    /\ loggers = [n \in Names |-> Made(n)]
    /\ private = [n \in Private |-> Made(n)]
    /\ own = [a \in OwnAppenders |-> Appender(Empty, FALSE)]
    /\ m_val = [n \in {} |-> 0]
    /\ setting = [t \in Setters |-> Idle]
    /\ logging = [t \in Threads |-> Idle]

-----------------------------------------------------------------------------
(* Logger and LogAppender: what each call makes of the logger *)

\* What becomes of an appender that is added to a logger with this formatter: it
\* gets it if it has none, be it its own or one that another logger gave it.
Added(appender, formatter) ==
    IF appender.m_formatter = Empty THEN Appender(formatter, appender.m_hasFormatter)
    ELSE appender

\* What becomes of it when that formatter is replaced.
Follow(appender, formatter) ==
    IF appender.m_hasFormatter THEN appender ELSE Appender(formatter, FALSE)

addAppenders(logger, appender) ==
    Logger(logger.m_level, logger.m_formatter,
           Append(logger.m_appenders, Added(appender, logger.m_formatter)))

clearAppenders(logger) == Logger(logger.m_level, logger.m_formatter, <<>>)

setLevel(logger, level) == Logger(level, logger.m_formatter, logger.m_appenders)

\* Mutant: the appenders keep the formatter that they got when they were added.
setFormatterOnly(logger, pattern) ==
    IF isError(pattern) THEN logger ELSE Logger(logger.m_level, pattern, logger.m_appenders)

\* setFormatter(std::string), the only one that the listener calls: a pattern that
\* does not parse is refused; the appenders without one of their own follow.
setFormatter(logger, pattern) ==
    IF isError(pattern) THEN logger
    ELSE Logger(logger.m_level, pattern,
                [i \in DOMAIN logger.m_appenders |-> Follow(logger.m_appenders[i], pattern)])

\* The appender that the listener makes: an own formatter if it is valid.
NewAppender(pattern) ==
    IF pattern # Empty /\ ~isError(pattern) THEN Appender(pattern, TRUE)
    ELSE Appender(Empty, FALSE)

Put(n, logger) == loggers' = [loggers EXCEPT ![n] = logger]

\* No thread has a logger's mutex, as one does that is in the root's log().
Unlocked(n) ==
    \A t \in Threads : logging[t].at \in {"root", "rootLock"} => logging[t].name # n

-----------------------------------------------------------------------------
(* The program and its own loggers *)

\* addAppenders of an appender, whether it is new, was here before or is held by
\* another logger too.
AddOwn(n, a) ==
    /\ Len(private[n].m_appenders) < MaxAppenders
    /\ private' = [private EXCEPT ![n] =
          Logger(@.m_level, @.m_formatter, Append(@.m_appenders, a))]
    /\ own' = [own EXCEPT ![a] = Added(@, private[n].m_formatter)]

\* delAppenders
DelOwn(n, a) ==
    /\ a \in ToSet(private[n].m_appenders)
    /\ private' = [private EXCEPT ![n] =
          Logger(@.m_level, @.m_formatter, RemoveFirst(@.m_appenders, a))]
    /\ UNCHANGED own

\* setFormatter of a logger: the overload that takes a LogFormatter takes any, also
\* one that does not parse (the one that takes its pattern refuses that).
SetOwnFormatter(n, p) ==
    /\ private' = [private EXCEPT ![n] = Logger(@.m_level, p, @.m_appenders)]
    /\ own' = [a \in OwnAppenders |->
                 IF a \in ToSet(private[n].m_appenders) THEN Follow(own[a], p) ELSE own[a]]

\* The program changes a logger of its own under its mutex.
PrivateChange(n) ==
    /\ Unlocked(n)
    /\ \/ \E a \in OwnAppenders : AddOwn(n, a) \/ DelOwn(n, a)
       \/ \E p \in Patterns : SetOwnFormatter(n, p)
    /\ UNCHANGED <<loggers, m_val, setting, logging>>

\* setLevel, which takes no lock.
PrivateLevel(n, level) ==
    /\ private' = [private EXCEPT ![n] = setLevel(@, level)]
    /\ UNCHANGED <<loggers, own, m_val, setting, logging>>

\* LogAppender::setFormatter, of an appender that is in a logger or not; a null
\* pointer takes the formatter away.
AppenderChange(a, p) ==
    /\ own' = [own EXCEPT ![a] = Appender(p, p # Empty)]
    /\ UNCHANGED <<loggers, private, m_val, setting, logging>>

-----------------------------------------------------------------------------
(* ConfigVar::setVal and the listener *)

\* The listener between two loggers: those left to set and those to be removed; and
\* at work on one of them, with the appenders it has still to add.
Listening(new, left, removed) ==
    [at |-> "level", new |-> new, left |-> left, removed |-> removed]
Working(at, new, left, removed, n, todo) ==
    [at |-> at, new |-> new, left |-> left, removed |-> removed, name |-> n, todo |-> todo]

\* fromString on a YAML text: setVal of what LexicalCast makes of it takes the read
\* lock and calls the listener, unless the value is the one there is.  A text with
\* a nameless node throws before that.
SetVal(t, new) ==
    /\ setting[t] = Idle
    /\ new # m_val
    /\ setting' = [setting EXCEPT ![t] =
          Listening(new, {n \in DOMAIN new : n \in DOMAIN m_val => new[n] # m_val[n]},
                    DOMAIN m_val \ DOMAIN new)]
    /\ UNCHANGED <<loggers, privateVars, m_val, logging>>

\* setLevel of the next logger that is new or changed; after these, of the next one
\* that was deleted; then the listener returns.
SetLevel(t) ==
    LET s == setting[t] IN
    /\ s.at = "level"
    /\ \/ \E n \in s.left :
             /\ Put(n, setLevel(loggers[n], s.new[n].level))
             /\ setting' = [setting EXCEPT ![t] =
                   Working("formatter", s.new, s.left \ {n}, s.removed, n, s.new[n].appenders)]
       \/ /\ s.left = {}
          /\ \E n \in s.removed :
                /\ Put(n, setLevel(loggers[n], UNKNOWN))
                /\ setting' = [setting EXCEPT ![t] =
                      Working("clear", s.new, {}, s.removed \ {n}, n, <<>>)]
       \/ /\ s.left = {} /\ s.removed = {}
          /\ setting' = [setting EXCEPT ![t] = [at |-> "write", new |-> s.new]]
          /\ UNCHANGED loggers
    /\ UNCHANGED <<privateVars, m_val, logging>>

SetFormatter(t) ==
    LET s == setting[t] IN
    /\ s.at = "formatter" /\ Unlocked(s.name)
    /\ IF s.new[s.name].formatter = Empty THEN UNCHANGED loggers
       ELSE Put(s.name, setFormatter(loggers[s.name], s.new[s.name].formatter))
    /\ setting' = [setting EXCEPT ![t] =
          Working("clear", s.new, s.left, s.removed, s.name, s.todo)]
    /\ UNCHANGED <<privateVars, m_val, logging>>

\* Mutant: the appenders of the last configuration stay.
KeepAppenders(t) ==
    LET s == setting[t] IN
    /\ s.at = "clear" /\ Unlocked(s.name)
    /\ setting' = [setting EXCEPT ![t] =
          Working("add", s.new, s.left, s.removed, s.name, s.todo)]
    /\ UNCHANGED <<loggers, privateVars, m_val, logging>>

ClearAppenders(t) ==
    LET s == setting[t] IN
    /\ s.at = "clear" /\ Unlocked(s.name)
    /\ Put(s.name, clearAppenders(loggers[s.name]))
    /\ setting' = [setting EXCEPT ![t] =
          Working("add", s.new, s.left, s.removed, s.name, s.todo)]
    /\ UNCHANGED <<privateVars, m_val, logging>>

AddAppenders(t) ==
    LET s == setting[t] IN
    /\ s.at = "add" /\ Unlocked(s.name)
    /\ IF s.todo = <<>>
       THEN /\ setting' = [setting EXCEPT ![t] = Listening(s.new, s.left, s.removed)]
            /\ UNCHANGED loggers
       ELSE /\ Put(s.name, addAppenders(loggers[s.name], NewAppender(Head(s.todo))))
            /\ setting' = [setting EXCEPT ![t] =
                  Working("add", s.new, s.left, s.removed, s.name, Tail(s.todo))]
    /\ UNCHANGED <<privateVars, m_val, logging>>

\* The write lock, which waits until no other setter holds the read lock.
WriteVal(t) ==
    /\ setting[t].at = "write"
    /\ \A u \in Setters : setting[u].at \in {"idle", "write"}
    /\ m_val' = setting[t].new
    /\ setting' = [setting EXCEPT ![t] = Idle]
    /\ UNCHANGED <<loggers, privateVars, logging>>

-----------------------------------------------------------------------------
(* Logger::log *)

\* A logger, and the appenders it has.
LoggerOf(n) == IF n \in Private THEN private[n] ELSE loggers[n]

\* A program's appender whose formatter was taken away while it was in a logger
\* is dereferenced by the next event: the thread goes no further.
NullFormatter(n) ==
    n \in Private /\ \E a \in ToSet(private[n].m_appenders) : own[a].m_formatter = Empty

\* The place of a thread in log(), and the end of it.
Place(at, n, level) == [at |-> at, name |-> n, level |-> level]
Done(written) == [at |-> "done", written |-> written]

\* The test of the level, without the lock.
Log(t, n, level) ==
    /\ logging[t].at \in {"idle", "done"}
    /\ level >= LoggerOf(n).m_level
    /\ logging' = [logging EXCEPT ![t] = Place("lock", n, level)]
    /\ UNCHANGED <<loggers, privateVars, m_val, setting>>

\* Mutant: a logger without appenders drops the event.
WriteNoRoot(t) ==
    /\ logging[t].at = "lock"
    /\ logging' = [logging EXCEPT ![t] = Done(LoggerOf(logging[t].name).m_appenders # <<>>)]
    /\ UNCHANGED <<loggers, privateVars, m_val, setting>>

\* Under the logger's mutex: its appenders write the event.  If there are none it is
\* handed to the root logger, which itself has no other to hand it to.
Write(t) ==
    LET n == logging[t].name IN
    /\ logging[t].at = "lock" /\ Unlocked(n) /\ ~NullFormatter(n)
    /\ logging' = [logging EXCEPT ![t] =
          IF LoggerOf(n).m_appenders # <<>> THEN Done(TRUE)
          ELSE IF n = Root THEN Done(FALSE)
          ELSE Place("root", n, logging[t].level)]
    /\ UNCHANGED <<loggers, privateVars, m_val, setting>>

\* m_root->log(), with the mutex of the other logger held: the test of the level ...
RootLog(t) ==
    /\ logging[t].at = "root"
    /\ logging' = [logging EXCEPT ![t] =
          IF logging[t].level >= loggers[Root].m_level
          THEN Place("rootLock", logging[t].name, logging[t].level) ELSE Done(FALSE)]
    /\ UNCHANGED <<loggers, privateVars, m_val, setting>>

\* ... and the appenders.
RootWrite(t) ==
    /\ logging[t].at = "rootLock"
    /\ logging' = [logging EXCEPT ![t] = Done(loggers[Root].m_appenders # <<>>)]
    /\ UNCHANGED <<loggers, privateVars, m_val, setting>>

-----------------------------------------------------------------------------
Next ==
    \/ \E n \in Private : PrivateChange(n) \/ \E level \in {DEBUG, WARN} : PrivateLevel(n, level)
    \/ \E a \in OwnAppenders, p \in Patterns \cup {Empty} : AppenderChange(a, p)
    \/ \E t \in Setters :
          \/ \E new \in Values : SetVal(t, new)
          \/ SetLevel(t) \/ SetFormatter(t) \/ ClearAppenders(t) \/ AddAppenders(t)
          \/ WriteVal(t)
    \/ \E t \in Threads :
          \/ \E n \in Names \cup Private, level \in {DEBUG, WARN} : Log(t, n, level)
          \/ Write(t) \/ RootLog(t) \/ RootWrite(t)

Spec == Init /\ [][Next]_vars

-----------------------------------------------------------------------------
(* Properties *)

\* The formatter in force for an appender's pattern from the configuration.
Expected(logger, pattern) ==
    IF pattern # Empty /\ ~isError(pattern) THEN Appender(pattern, TRUE)
    ELSE Appender(logger.m_formatter, FALSE)

\* What a logger is when the configuration in force is v.  One that v does not
\* define was never configured, or has been deleted.
Matches(logger, n, v) ==
    IF n \notin DOMAIN v
    THEN logger = Made(n) \/ (logger.m_level = UNKNOWN /\ logger.m_appenders = <<>>)
    ELSE /\ logger.m_level = v[n].level
         /\ v[n].formatter \in Valid => logger.m_formatter = v[n].formatter
         /\ logger.m_appenders = [i \in DOMAIN v[n].appenders |->
                                    Expected(logger, v[n].appenders[i])]

\* Whenever no setVal is under way, the loggers are as the variable says, the root
\* logger too: level, formatter (if one is given that parses) and appenders, each
\* with its own formatter or the logger's; a logger that was deleted has none.
LoggersMatchConfig ==
    (\A t \in Setters : setting[t] = Idle) =>
        \A n \in Names : Matches(loggers[n], n, m_val)

\* Also while the listener is at work on a logger, an appender of it that has no
\* formatter of its own writes with the logger's.
AppendersFollow ==
    \A n \in Names : \A i \in DOMAIN loggers[n].m_appenders :
        LET a == loggers[n].m_appenders[i] IN
        ~a.m_hasFormatter => a.m_formatter = loggers[n].m_formatter

\* Does a configuration that is being set define the root logger, or delete it?
RootIsBeingSet ==
    \E t \in Setters : setting[t] # Idle /\ Root \in DOMAIN setting[t].new \cup DOMAIN m_val

\* Does the configuration in force keep the root logger from writing this event?
RootIsSilent(level) ==
    IF Root \in DOMAIN m_val
    THEN m_val[Root].level > level \/ m_val[Root].appenders = <<>>
    ELSE loggers[Root].m_level = UNKNOWN      \* it was deleted

\* An event that is at its logger's level is lost only if the configuration in force
\* silences the root logger, or if just then the root logger is being configured;
\* that the event's own logger is being configured loses none.
EventIsWritten ==
    [][\A t \in Threads :
          logging[t].at # "done" /\ logging'[t] = Done(FALSE) =>
              RootIsBeingSet \/ RootIsSilent(logging[t].level)]_vars

\* log.cc, Logger::log: a logger without appenders writes with the root logger.  So an
\* event of another logger is not lost while neither the configuration in force nor
\* one that is being set silences the root logger.
RootStandsIn ==
    [][\A t \in Threads :
          logging[t].at \in {"root", "rootLock"} /\ logging'[t] = Done(FALSE) =>
              \/ RootIsSilent(logging[t].level)
              \/ \E s \in Setters : setting[s] # Idle /\
                    (Root \in DOMAIN setting[s].new =>
                        \/ setting[s].new[Root].level > logging[t].level
                        \/ setting[s].new[Root].appenders = <<>>)]_vars

\* What init() parses is what was written: of a pattern without "%%" nothing is
\* lost, merged or refused.  And a logger that the configuration sets never has a
\* formatter that did not parse, whatever the configuration says.
PatternReadsBack == ReadsBack /\ \A n \in Names : ~isError(loggers[n].m_formatter)

\* log.cc, LogFormatter::init: "%%" is one of the things a pattern is made of, a
\* percent sign in the text.
DoublePercentIsText == PercentReadsBack
=============================================================================
