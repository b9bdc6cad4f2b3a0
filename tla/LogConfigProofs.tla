--------------------------- MODULE LogConfigProofs ---------------------------
(***************************************************************************)
(* Proofs about LogConfig, for any names of loggers, any threads that log  *)
(* or load configurations, any nodes and any sequence of configurations.   *)
(* What the parser makes of a pattern is not looked into: isError is any   *)
(* predicate.                                                              *)
(***************************************************************************)
EXTENDS LogConfig, SequenceTheorems, TLAPS

MaybePattern == Patterns \cup {Empty}
LoggerValues == [m_level : Levels, m_formatter : Valid \cup {Default}, m_appenders : Seq(Appenders)]

\* What AppendersFollow says of one logger.
Follows(logger) ==
    \A i \in DOMAIN logger.m_appenders :
        ~logger.m_appenders[i].m_hasFormatter =>
            logger.m_appenders[i].m_formatter = logger.m_formatter

\* A value of the variable: defines for some of the names.
ValueOK(v) == DOMAIN v \subseteq Configured /\ \A n \in DOMAIN v : v[n] \in Defines

\* Where a setter is, the rest of the names it has to see to, and the logger it
\* is at work on.
Settling == {"level", "formatter", "clear", "add"}
AtWork == {"formatter", "clear", "add"}
SetterOK(s) ==
    /\ s.at \in Settling \cup {"idle", "write"}
    /\ s.at = "idle" => s = Idle
    /\ s.at # "idle" => ValueOK(s.new)
    /\ s.at \in Settling => s.left \subseteq DOMAIN s.new /\ s.removed \subseteq Configured \ DOMAIN s.new
    /\ s.at \in AtWork => s.name \in Configured /\ s.todo \in Seq(MaybePattern)
    /\ s.at = "formatter" => s.name \in DOMAIN s.new

TypeInv ==
    /\ loggers \in [Names -> LoggerValues]
    /\ ValueOK(m_val)
    /\ DOMAIN setting = Setters /\ \A t \in Setters : SetterOK(setting[t])
    /\ DOMAIN logging = Threads
FollowInv == TypeInv /\ \A n \in Names : Follows(loggers[n])

\* An event on its way is at some level.
EventInv ==
    \A t \in Threads :
        logging[t].at \in {"lock", "root", "rootLock"} => logging[t].level \in {DEBUG, WARN}

-----------------------------------------------------------------------------
(* The loggers match the value that is being set, but for those to come *)

\* A logger has the appenders of a define, except those still to be added.
AddedBut(logger, appenders, todo) ==
    LET k == Len(logger.m_appenders) IN
    /\ Len(appenders) = k + Len(todo)
    /\ \A i \in 1..k : logger.m_appenders[i] = Expected(logger, appenders[i])
    /\ \A i \in 1..Len(todo) : todo[i] = appenders[k + i]

\* The logger that a setter is at work on: what has been set of it so far.
HalfMatches(logger, s) ==
    IF s.name \notin DOMAIN s.new
    THEN /\ s.todo = <<>> /\ logger.m_level = UNKNOWN
         /\ s.at = "add" => logger.m_appenders = <<>>
    ELSE LET def == s.new[s.name] IN
         /\ logger.m_level = def.level
         /\ s.at # "formatter" /\ def.formatter \in Valid => logger.m_formatter = def.formatter
         /\ s.at # "add" => s.todo = def.appenders
         /\ s.at = "add" => AddedBut(logger, def.appenders, s.todo)

SetterMatch(s) ==
    /\ s.at = "idle" => \A n \in Names : Matches(loggers[n], n, m_val)
    /\ s.at = "level" => \A n \in Names \ (s.left \cup s.removed) : Matches(loggers[n], n, s.new)
    /\ s.at \in Settling => s.removed \subseteq DOMAIN m_val
    /\ s.at \in AtWork =>
          /\ \A n \in Names \ ({s.name} \cup s.left \cup s.removed) : Matches(loggers[n], n, s.new)
          /\ HalfMatches(loggers[s.name], s)
          /\ s.name \notin s.left \cup s.removed
          /\ s.name \in DOMAIN s.new \cup DOMAIN m_val
    /\ s.at = "write" => \A n \in Names : Matches(loggers[n], n, s.new)

MatchInv == \A t \in Setters : SetterMatch(setting[t])

-----------------------------------------------------------------------------
(* What the calls of a Logger make of it *)

LEMMA LoggerFields ==
    ASSUME NEW level, NEW formatter, NEW appenders
    PROVE  /\ Logger(level, formatter, appenders).m_level = level
           /\ Logger(level, formatter, appenders).m_formatter = formatter
           /\ Logger(level, formatter, appenders).m_appenders = appenders
  BY DEF Logger

LEMMA LoggerType ==
    ASSUME NEW level \in Levels, NEW formatter \in Valid \cup {Default},
           NEW appenders \in Seq(Appenders)
    PROVE  Logger(level, formatter, appenders) \in LoggerValues
  BY DEF Logger, LoggerValues

LEMMA EmptyIsNoPattern == Empty \notin Patterns /\ Valid \subseteq Patterns
  BY DEF Empty, Patterns, Valid

\* addAppenders of what the listener makes of a pattern.
LEMMA AddEffect ==
    ASSUME NEW l \in LoggerValues, NEW p \in MaybePattern
    PROVE  /\ addAppenders(l, NewAppender(p)) =
                  Logger(l.m_level, l.m_formatter, Append(l.m_appenders, Expected(l, p)))
           /\ Expected(l, p) \in Appenders
           /\ Expected(l, p).m_hasFormatter \/ Expected(l, p).m_formatter = l.m_formatter
  <1>1. CASE p # Empty /\ ~isError(p)
    <2>1. NewAppender(p) = Appender(p, TRUE) /\ Expected(l, p) = Appender(p, TRUE)
      BY <1>1 DEF NewAppender, Expected
    <2>2. Appender(p, TRUE).m_formatter = p /\ Appender(p, TRUE).m_hasFormatter = TRUE
      BY DEF Appender
    <2>3. p \in Valid
      BY <1>1 DEF MaybePattern, Valid
    <2>4. Appender(p, TRUE) \in Appenders
      BY <2>3 DEF Appender, Appenders
    <2> QED
      BY <1>1, <2>1, <2>2, <2>4 DEF addAppenders, Added
  <1>2. CASE ~(p # Empty /\ ~isError(p))
    <2>1. NewAppender(p) = Appender(Empty, FALSE) /\ Expected(l, p) = Appender(l.m_formatter, FALSE)
      BY <1>2 DEF NewAppender, Expected
    <2>2. /\ Appender(Empty, FALSE).m_formatter = Empty
          /\ Appender(Empty, FALSE).m_hasFormatter = FALSE
          /\ Appender(l.m_formatter, FALSE).m_formatter = l.m_formatter
      BY DEF Appender
    <2>3. l.m_formatter \in Valid \cup {Default}
      BY DEF LoggerValues
    <2>4. Appender(l.m_formatter, FALSE) \in Appenders
      BY <2>3 DEF Appender, Appenders
    <2> QED
      BY <2>1, <2>2, <2>4 DEF addAppenders, Added
  <1> QED
    BY <1>1, <1>2

LEMMA AddKeeps ==
    ASSUME NEW l \in LoggerValues, NEW p \in MaybePattern, Follows(l)
    PROVE  /\ addAppenders(l, NewAppender(p)) \in LoggerValues
           /\ Follows(addAppenders(l, NewAppender(p)))
  <1>1. PICK a \in Appenders : a = Expected(l, p) /\ (a.m_hasFormatter \/ a.m_formatter = l.m_formatter)
    BY AddEffect
  <1>2. PICK q : q = l.m_appenders
    OBVIOUS
  <1>3. q \in Seq(Appenders) /\ l.m_level \in Levels /\ l.m_formatter \in Valid \cup {Default}
    BY <1>2 DEF LoggerValues
  <1>4. PICK r : r = Append(q, a)
    OBVIOUS
  <1>5. /\ r \in Seq(Appenders) /\ Len(q) \in Nat /\ DOMAIN r = 1..(Len(q) + 1)
        /\ r[Len(q) + 1] = a /\ \A i \in 1..Len(q) : r[i] = q[i] /\ i \in DOMAIN q
    BY <1>3, <1>4
  <1>6. \A i \in DOMAIN r : i \in 1..Len(q) \/ i = Len(q) + 1
    BY <1>5
  <1>7. addAppenders(l, NewAppender(p)) = Logger(l.m_level, l.m_formatter, r)
    BY <1>1, <1>2, <1>4, AddEffect
  <1>8. Follows(Logger(l.m_level, l.m_formatter, r))
    BY <1>1, <1>2, <1>5, <1>6, LoggerFields DEF Follows
  <1> QED
    BY <1>3, <1>5, <1>7, <1>8, LoggerType

LEMMA ClearKeeps ==
    ASSUME NEW l \in LoggerValues
    PROVE  clearAppenders(l) \in LoggerValues /\ Follows(clearAppenders(l))
  <1>1. l.m_level \in Levels /\ l.m_formatter \in Valid \cup {Default} /\ <<>> \in Seq(Appenders)
    BY DEF LoggerValues
  <1>2. clearAppenders(l) = Logger(l.m_level, l.m_formatter, <<>>)
    BY DEF clearAppenders
  <1>3. Follows(Logger(l.m_level, l.m_formatter, <<>>))
    BY LoggerFields DEF Follows
  <1> QED
    BY <1>1, <1>2, <1>3, LoggerType

LEMMA LevelKeeps ==
    ASSUME NEW l \in LoggerValues, NEW level \in Levels, Follows(l)
    PROVE  setLevel(l, level) \in LoggerValues /\ Follows(setLevel(l, level))
  <1>1. l.m_formatter \in Valid \cup {Default} /\ l.m_appenders \in Seq(Appenders)
    BY DEF LoggerValues
  <1>2. setLevel(l, level) = Logger(level, l.m_formatter, l.m_appenders)
    BY DEF setLevel
  <1>3. Follows(Logger(level, l.m_formatter, l.m_appenders))
    BY LoggerFields DEF Follows
  <1> QED
    BY <1>1, <1>2, <1>3, LoggerType

LEMMA FormatterKeeps ==
    ASSUME NEW l \in LoggerValues, NEW p \in Patterns, Follows(l)
    PROVE  setFormatter(l, p) \in LoggerValues /\ Follows(setFormatter(l, p))
  <1>1. CASE isError(p)
    BY <1>1 DEF setFormatter
  <1>2. CASE ~isError(p)
    <2>1. PICK q : q = l.m_appenders
      OBVIOUS
    <2>2. q \in Seq(Appenders) /\ l.m_level \in Levels
      BY <2>1 DEF LoggerValues
    <2>3. p \in Valid
      BY <1>2 DEF Valid
    <2>4. PICK r : r = [i \in DOMAIN q |-> IF q[i].m_hasFormatter THEN q[i] ELSE Appender(p, FALSE)]
      OBVIOUS
    <2>5. Appender(p, FALSE) \in Appenders /\ Appender(p, FALSE).m_formatter = p
      BY <2>3 DEF Appender, Appenders
    <2>6. \A i \in DOMAIN q : r[i] = (IF q[i].m_hasFormatter THEN q[i] ELSE Appender(p, FALSE))
      BY <2>4
    <2>7. r \in Seq(Appenders) /\ DOMAIN r = DOMAIN q
      <3>1. Len(q) \in Nat /\ DOMAIN q = 1..Len(q) /\ \A i \in 1..Len(q) : q[i] \in Appenders
        BY <2>2
      <3>2. \A i \in 1..Len(q) : r[i] \in Appenders
        BY <2>5, <2>6, <3>1
      <3>3. r \in [1..Len(q) -> Appenders]
        BY <2>4, <3>1, <3>2
      <3>4. r \in Seq(Appenders)
        BY <3>1, <3>3, SeqDef
      <3> QED
        BY <2>4, <3>4
    <2>8. setFormatter(l, p) = Logger(l.m_level, p, r)
      BY <1>2, <2>1, <2>4 DEF setFormatter, Follow
    <2>9. Follows(Logger(l.m_level, p, r))
      <3>1. \A i \in DOMAIN r : ~r[i].m_hasFormatter => r[i].m_formatter = p
        <4> SUFFICES ASSUME NEW i \in DOMAIN r, ~r[i].m_hasFormatter PROVE r[i].m_formatter = p
          OBVIOUS
        <4>1. CASE q[i].m_hasFormatter
          BY <2>6, <2>7, <4>1
        <4>2. CASE ~q[i].m_hasFormatter
          BY <2>5, <2>6, <2>7, <4>2
        <4> QED
          BY <4>1, <4>2
      <3> QED
        BY <3>1, LoggerFields DEF Follows
    <2> QED
      BY <2>2, <2>3, <2>7, <2>8, <2>9, LoggerType
  <1> QED
    BY <1>1, <1>2

-----------------------------------------------------------------------------
(* The steps *)

\* One logger changes, into one that is as it should be.
LEMMA PutKeeps ==
    ASSUME FollowInv, NEW n \in Names, NEW l \in LoggerValues, Follows(l), Put(n, l)
    PROVE  loggers' \in [Names -> LoggerValues] /\ \A m \in Names : Follows(loggers'[m])
  <1>1. loggers' \in [Names -> LoggerValues]
    BY DEF FollowInv, TypeInv, Put
  <1>2. \A m \in Names : loggers'[m] = IF m = n THEN l ELSE loggers[m]
    BY DEF FollowInv, TypeInv, Put
  <1> QED
    BY <1>1, <1>2 DEF FollowInv

\* One setter moves on.
LEMMA MoveKeeps ==
    ASSUME FollowInv, NEW t \in Setters, NEW s, SetterOK(s), setting' = [setting EXCEPT ![t] = s]
    PROVE  DOMAIN setting' = Setters /\ \A u \in Setters : SetterOK(setting'[u])
  <1>1. DOMAIN setting' = Setters /\ \A u \in Setters : setting'[u] = IF u = t THEN s ELSE setting[u]
    BY DEF FollowInv, TypeInv
  <1> QED
    BY <1>1 DEF FollowInv, TypeInv

LEMMA ListeningOK ==
    ASSUME NEW new, NEW left, NEW removed,
           ValueOK(new), left \subseteq DOMAIN new, removed \subseteq Configured \ DOMAIN new
    PROVE  SetterOK(Listening(new, left, removed))
  BY DEF Listening, SetterOK, Settling, AtWork

LEMMA WorkingOK ==
    ASSUME NEW new, NEW left, NEW removed, NEW n \in Configured, NEW todo \in Seq(MaybePattern),
           ValueOK(new), left \subseteq DOMAIN new, removed \subseteq Configured \ DOMAIN new,
           NEW at \in AtWork, at = "formatter" => n \in DOMAIN new
    PROVE  SetterOK(Working(at, new, left, removed, n, todo))
  <1>1. PICK s : s = Working(at, new, left, removed, n, todo)
    OBVIOUS
  <1>2. s.at = at /\ s.new = new /\ s.left = left /\ s.removed = removed /\ s.name = n /\ s.todo = todo
    BY <1>1 DEF Working
  <1>3. SetterOK(s)
    BY <1>2 DEF SetterOK, Settling, AtWork
  <1> QED
    BY <1>1, <1>3

\* What fromString hands to setVal.
LEMMA ValuesOK == \A v \in Values : ValueOK(v)
  <1> SUFFICES ASSUME NEW v \in Values PROVE ValueOK(v)
    OBVIOUS
  <1>1. PICK names \in SUBSET Configured : v \in [names -> {CastLog(node) : node \in LogNodes}]
    BY DEF Values
  <1>2. \A n \in names : \E node \in LogNodes : v[n] = CastLog(node)
    BY <1>1
  <1>3. \A n \in names : v[n] \in Defines
    BY <1>2, CastAssumption
  <1> QED
    BY <1>1, <1>3 DEF ValueOK

\* What a step of a setter makes of its record, and of a logger.
LEMMA SetLevelEffect ==
    ASSUME NEW t, SetLevel(t), NEW s, s = setting[t]
    PROVE  /\ s.at = "level" /\ UNCHANGED <<m_val, logging>>
           /\ \/ \E n \in s.left :
                    /\ Put(n, setLevel(loggers[n], s.new[n].level))
                    /\ setting' = [setting EXCEPT ![t] =
                          Working("formatter", s.new, s.left \ {n}, s.removed, n, s.new[n].appenders)]
              \/ /\ s.left = {}
                 /\ \E n \in s.removed :
                       /\ Put(n, setLevel(loggers[n], UNKNOWN))
                       /\ setting' = [setting EXCEPT ![t] =
                             Working("clear", s.new, {}, s.removed \ {n}, n, <<>>)]
              \/ /\ s.left = {} /\ s.removed = {}
                 /\ setting' = [setting EXCEPT ![t] = [at |-> "write", new |-> s.new]]
                 /\ UNCHANGED loggers
  BY DEF SetLevel

LEMMA SetterStep ==
    ASSUME FollowInv, NEW t \in Setters,
           \/ \E new \in Values : SetVal(t, new)
           \/ SetLevel(t) \/ SetFormatter(t) \/ ClearAppenders(t) \/ AddAppenders(t)
           \/ WriteVal(t)
    PROVE  FollowInv'
  <1> USE DEF FollowInv, TypeInv
  <1>a. PICK s : s = setting[t]
    OBVIOUS
  <1>b. SetterOK(s) /\ Configured \subseteq Names
    BY <1>a DEF Names
  <1>c. \A n \in Configured : loggers[n] \in LoggerValues /\ Follows(loggers[n])
    BY <1>b
  <1>d. ASSUME ValueOK(m_val'), DOMAIN logging' = Threads,
               UNCHANGED loggers \/ (\E n \in Names, l \in LoggerValues : Follows(l) /\ Put(n, l)),
               NEW r, SetterOK(r), setting' = [setting EXCEPT ![t] = r]
        PROVE  FollowInv'
    BY <1>d, PutKeeps, MoveKeeps
  <1>1. ASSUME NEW new \in Values, SetVal(t, new) PROVE FollowInv'
    <2>1. PICK left : left = {n \in DOMAIN new : n \in DOMAIN m_val => new[n] # m_val[n]}
      OBVIOUS
    <2>2. PICK removed : removed = DOMAIN m_val \ DOMAIN new
      OBVIOUS
    <2>3. setting' = [setting EXCEPT ![t] = Listening(new, left, removed)]
          /\ UNCHANGED <<loggers, m_val, logging>>
      BY <1>1, <2>1, <2>2 DEF SetVal
    <2>4. left \subseteq DOMAIN new /\ removed \subseteq Configured \ DOMAIN new
      BY <2>1, <2>2 DEF ValueOK
    <2>5. SetterOK(Listening(new, left, removed))
      BY <2>4, ValuesOK, ListeningOK
    <2> QED
      BY <2>3, <2>5, <1>d
  <1>2. ASSUME SetLevel(t) PROVE FollowInv'
    <2>1. s.at = "level" /\ UNCHANGED <<m_val, logging>>
      BY <1>a, <1>2, SetLevelEffect
    <2>2. ValueOK(s.new) /\ s.left \subseteq DOMAIN s.new /\ s.removed \subseteq Configured \ DOMAIN s.new
      BY <1>b, <2>1 DEF SetterOK, Settling
    <2>3. ASSUME NEW n \in s.left,
                 Put(n, setLevel(loggers[n], s.new[n].level)),
                 setting' = [setting EXCEPT ![t] =
                     Working("formatter", s.new, s.left \ {n}, s.removed, n, s.new[n].appenders)]
          PROVE  FollowInv'
      <3>1. n \in Configured /\ s.new[n] \in Defines
        BY <2>2 DEF ValueOK
      <3>2. s.new[n].level \in Levels /\ s.new[n].appenders \in Seq(MaybePattern)
        BY <3>1 DEF Defines, MaybePattern
      <3>3. SetterOK(Working("formatter", s.new, s.left \ {n}, s.removed, n, s.new[n].appenders))
        BY <2>2, <3>1, <3>2, WorkingOK DEF AtWork
      <3>4. \E m \in Names, l \in LoggerValues : Follows(l) /\ Put(m, l)
        BY <1>b, <1>c, <2>3, <3>1, <3>2, LevelKeeps
      <3> QED
        BY <1>d, <2>1, <2>3, <3>3, <3>4
    <2>4. ASSUME NEW n \in s.removed,
                 Put(n, setLevel(loggers[n], UNKNOWN)),
                 setting' = [setting EXCEPT ![t] =
                     Working("clear", s.new, {}, s.removed \ {n}, n, <<>>)]
          PROVE  FollowInv'
      <3>1. n \in Configured /\ UNKNOWN \in Levels /\ <<>> \in Seq(MaybePattern)
        BY <2>2 DEF Levels
      <3>2. SetterOK(Working("clear", s.new, {}, s.removed \ {n}, n, <<>>))
        BY <2>2, <3>1, WorkingOK DEF AtWork
      <3>3. \E m \in Names, l \in LoggerValues : Follows(l) /\ Put(m, l)
        BY <1>b, <1>c, <2>4, <3>1, LevelKeeps
      <3> QED
        BY <1>d, <2>1, <2>4, <3>2, <3>3
    <2>5. ASSUME setting' = [setting EXCEPT ![t] = [at |-> "write", new |-> s.new]], UNCHANGED loggers
          PROVE  FollowInv'
      <3>1. SetterOK([at |-> "write", new |-> s.new])
        BY <2>2 DEF SetterOK, Settling, AtWork
      <3> QED
        BY <1>d, <2>1, <2>5, <3>1
    <2> QED
      BY <1>a, <1>2, <2>3, <2>4, <2>5, SetLevelEffect
  <1>3. ASSUME SetFormatter(t) PROVE FollowInv'
    <2>1. /\ s.at = "formatter" /\ UNCHANGED <<m_val, logging>>
          /\ IF s.new[s.name].formatter = Empty THEN UNCHANGED loggers
             ELSE Put(s.name, setFormatter(loggers[s.name], s.new[s.name].formatter))
          /\ setting' = [setting EXCEPT ![t] =
                Working("clear", s.new, s.left, s.removed, s.name, s.todo)]
      BY <1>a, <1>3 DEF SetFormatter
    <2>2. /\ ValueOK(s.new) /\ s.left \subseteq DOMAIN s.new /\ s.removed \subseteq Configured \ DOMAIN s.new
          /\ s.name \in Configured /\ s.name \in DOMAIN s.new /\ s.todo \in Seq(MaybePattern)
      BY <1>b, <2>1 DEF SetterOK, Settling, AtWork
    <2>3. SetterOK(Working("clear", s.new, s.left, s.removed, s.name, s.todo))
      BY <2>2, WorkingOK DEF AtWork
    <2>4. s.new[s.name].formatter \in Patterns \cup {Empty}
      BY <2>2 DEF ValueOK, Defines
    <2>5. UNCHANGED loggers \/ (\E m \in Names, l \in LoggerValues : Follows(l) /\ Put(m, l))
      BY <1>b, <1>c, <2>1, <2>2, <2>4, FormatterKeeps
    <2> QED
      BY <1>d, <2>1, <2>3, <2>5
  <1>4. ASSUME ClearAppenders(t) PROVE FollowInv'
    <2>1. /\ s.at = "clear" /\ UNCHANGED <<m_val, logging>>
          /\ Put(s.name, clearAppenders(loggers[s.name]))
          /\ setting' = [setting EXCEPT ![t] = Working("add", s.new, s.left, s.removed, s.name, s.todo)]
      BY <1>a, <1>4 DEF ClearAppenders
    <2>2. /\ ValueOK(s.new) /\ s.left \subseteq DOMAIN s.new /\ s.removed \subseteq Configured \ DOMAIN s.new
          /\ s.name \in Configured /\ s.todo \in Seq(MaybePattern)
      BY <1>b, <2>1 DEF SetterOK, Settling, AtWork
    <2>3. SetterOK(Working("add", s.new, s.left, s.removed, s.name, s.todo))
      BY <2>2, WorkingOK DEF AtWork
    <2>4. \E m \in Names, l \in LoggerValues : Follows(l) /\ Put(m, l)
      BY <1>b, <1>c, <2>1, <2>2, ClearKeeps
    <2> QED
      BY <1>d, <2>1, <2>3, <2>4
  <1>5. ASSUME AddAppenders(t) PROVE FollowInv'
    <2>1. /\ s.at = "add" /\ UNCHANGED <<m_val, logging>>
          /\ IF s.todo = <<>>
             THEN /\ setting' = [setting EXCEPT ![t] = Listening(s.new, s.left, s.removed)]
                  /\ UNCHANGED loggers
             ELSE /\ Put(s.name, addAppenders(loggers[s.name], NewAppender(Head(s.todo))))
                  /\ setting' = [setting EXCEPT ![t] =
                        Working("add", s.new, s.left, s.removed, s.name, Tail(s.todo))]
      BY <1>a, <1>5 DEF AddAppenders
    <2>2. /\ ValueOK(s.new) /\ s.left \subseteq DOMAIN s.new /\ s.removed \subseteq Configured \ DOMAIN s.new
          /\ s.name \in Configured /\ s.todo \in Seq(MaybePattern)
      BY <1>b, <2>1 DEF SetterOK, Settling, AtWork
    <2>3. CASE s.todo = <<>>
      <3>1. SetterOK(Listening(s.new, s.left, s.removed))
        BY <2>2, ListeningOK
      <3> QED
        BY <1>d, <2>1, <2>3, <3>1
    <2>4. CASE s.todo # <<>>
      <3>1. Head(s.todo) \in MaybePattern /\ Tail(s.todo) \in Seq(MaybePattern)
        BY <2>2, <2>4
      <3>2. SetterOK(Working("add", s.new, s.left, s.removed, s.name, Tail(s.todo)))
        BY <2>2, <3>1, WorkingOK DEF AtWork
      <3>3. \E m \in Names, l \in LoggerValues : Follows(l) /\ Put(m, l)
        BY <1>b, <1>c, <2>1, <2>2, <2>4, <3>1, AddKeeps
      <3> QED
        BY <1>d, <2>1, <2>4, <3>2, <3>3
    <2> QED
      BY <2>3, <2>4
  <1>6. ASSUME WriteVal(t) PROVE FollowInv'
    <2>1. /\ s.at = "write" /\ m_val' = s.new /\ setting' = [setting EXCEPT ![t] = Idle]
          /\ UNCHANGED <<loggers, logging>>
      BY <1>a, <1>6 DEF WriteVal
    <2>2. ValueOK(s.new)
      BY <1>b, <2>1 DEF SetterOK
    <2>3. SetterOK(Idle)
      BY DEF Idle, SetterOK, Settling, AtWork
    <2> QED
      BY <1>d, <2>1, <2>2, <2>3
  <1> QED
    BY <1>1, <1>2, <1>3, <1>4, <1>5, <1>6

\* The program's own loggers and appenders are no others'.
LEMMA PrivateStep ==
    ASSUME \/ \E n \in Private : PrivateChange(n) \/ \E level \in {DEBUG, WARN} : PrivateLevel(n, level)
           \/ \E a \in OwnAppenders, p \in Patterns \cup {Empty} : AppenderChange(a, p)
    PROVE  UNCHANGED <<loggers, m_val, setting, logging>>
  BY DEF PrivateChange, PrivateLevel, AppenderChange

LEMMA InitFollow == Init => FollowInv
  <1> SUFFICES ASSUME Init PROVE FollowInv
    OBVIOUS
  <1>1. Appender(Default, FALSE) \in Appenders /\ Appender(Default, FALSE).m_formatter = Default
    BY DEF Appender, Appenders
  <1>2. \A n \in Names : loggers[n] = Logger(DEBUG, Default, IF n = Root THEN <<Appender(Default, FALSE)>> ELSE <<>>)
    BY DEF Init, Made
  <1>3. \A q \in {<<>>, <<Appender(Default, FALSE)>>} :
            Logger(DEBUG, Default, q) \in LoggerValues /\ Follows(Logger(DEBUG, Default, q))
    <2>1. <<>> \in Seq(Appenders) /\ <<Appender(Default, FALSE)>> \in Seq(Appenders) /\ DEBUG \in Levels
      <3>1. PICK a \in Appenders : a = Appender(Default, FALSE)
        BY <1>1
      <3>2. <<a>> \in Seq(Appenders) /\ <<>> \in Seq(Appenders)
        OBVIOUS
      <3>3. DEBUG \in Levels
        BY DEF Levels
      <3> QED
        BY <3>1, <3>2, <3>3
    <2>2. Follows(Logger(DEBUG, Default, <<>>))
      BY LoggerFields DEF Follows
    <2>3. Follows(Logger(DEBUG, Default, <<Appender(Default, FALSE)>>))
      <3>1. PICK a : a = Appender(Default, FALSE)
        OBVIOUS
      <3>2. a.m_formatter = Default
        BY <1>1, <3>1
      <3>3. Follows(Logger(DEBUG, Default, <<a>>))
        <4>1. PICK l : l = Logger(DEBUG, Default, <<a>>)
          OBVIOUS
        <4>2. l.m_appenders = <<a>> /\ l.m_formatter = Default
          BY <4>1, LoggerFields
        <4>3. \A i \in DOMAIN l.m_appenders : l.m_appenders[i] = a
          BY <4>2
        <4>4. Follows(l)
          BY <3>2, <4>2, <4>3 DEF Follows
        <4> QED
          BY <4>1, <4>4
      <3> QED
        BY <3>1, <3>3
    <2> QED
      BY <2>1, <2>2, <2>3, LoggerType
  <1>4. loggers \in [Names -> LoggerValues] /\ \A n \in Names : Follows(loggers[n])
    <2>1. \A n \in Names : loggers[n] \in LoggerValues /\ Follows(loggers[n])
      BY <1>2, <1>3
    <2>2. loggers = [n \in Names |-> loggers[n]]
      BY DEF Init
    <2> QED
      BY <2>1, <2>2
  <1>5. ValueOK(m_val)
    BY DEF Init, ValueOK
  <1>6. DOMAIN setting = Setters /\ \A t \in Setters : SetterOK(setting[t])
    BY DEF Init, Idle, SetterOK, Settling, AtWork
  <1> QED
    BY <1>4, <1>5, <1>6 DEF Init, FollowInv, TypeInv

\* The threads that log.
LogsStep(t) ==
    \/ \E n \in Names \cup Private, level \in {DEBUG, WARN} : Log(t, n, level)
    \/ Write(t) \/ RootLog(t) \/ RootWrite(t)

LEMMA LogStep ==
    ASSUME FollowInv, NEW t \in Threads, LogsStep(t)
    PROVE  FollowInv' /\ UNCHANGED <<loggers, m_val, setting>>
  <1>1. UNCHANGED <<loggers, m_val, setting>> /\ DOMAIN logging' = DOMAIN logging
    BY DEF LogsStep, Log, Write, RootLog, RootWrite
  <1> QED
    BY <1>1 DEF FollowInv, TypeInv

LEMMA NextFollow == FollowInv /\ [Next]_vars => FollowInv'
  <1> SUFFICES ASSUME FollowInv, [Next]_vars PROVE FollowInv'
    OBVIOUS
  <1>1. ASSUME UNCHANGED <<loggers, m_val, setting, logging>> PROVE FollowInv'
    BY <1>1 DEF FollowInv, TypeInv
  <1> QED
    BY <1>1, PrivateStep, SetterStep, LogStep DEF Next, LogsStep, vars

LEMMA FollowCorrect == Spec => []FollowInv
  BY InitFollow, NextFollow, PTL DEF Spec

\* At every step of the listener and after any sequence of configurations, an
\* appender of a configured logger without a formatter of its own has its logger's.
THEOREM AppendersCorrect == Spec => []AppendersFollow
  <1>1. FollowInv => AppendersFollow
    BY DEF FollowInv, Follows, AppendersFollow
  <1> QED
    BY <1>1, FollowCorrect, PTL

-----------------------------------------------------------------------------
(* The loggers are what the variable says *)

\* One thread loads configurations.
OneSetter == Setters # {} /\ \A t, u \in Setters : t = u

\* setFormatter leaves the level alone and takes a pattern that parses.
LEMMA FormatterEffect ==
    ASSUME NEW l, NEW p
    PROVE  /\ setFormatter(l, p).m_level = l.m_level
           /\ p \in Valid => setFormatter(l, p).m_formatter = p
  <1>1. CASE isError(p)
    BY <1>1 DEF setFormatter, Valid
  <1>2. CASE ~isError(p)
    BY <1>2, LoggerFields DEF setFormatter
  <1> QED
    BY <1>1, <1>2

\* The expected formatter of an appender depends on its logger's only.
LEMMA ExpectedSame ==
    ASSUME NEW l, NEW m, l.m_formatter = m.m_formatter
    PROVE  \A p : Expected(l, p) = Expected(m, p)
  BY DEF Expected

\* A logger that has just been cleared has all its appenders to come.
LEMMA ClearAdds ==
    ASSUME NEW l, NEW todo \in Seq(MaybePattern)
    PROVE  AddedBut(clearAppenders(l), todo, todo)
  <1>1. clearAppenders(l).m_appenders = <<>>
    BY LoggerFields DEF clearAppenders
  <1>2. Len(<<>>) = 0 /\ Len(todo) \in Nat
    OBVIOUS
  <1>3. Len(todo) = 0 + Len(todo) /\ \A i \in 1..Len(todo) : 0 + i = i
    BY <1>2
  <1>4. 1..0 = {}
    OBVIOUS
  <1> QED
    BY <1>1, <1>2, <1>3, <1>4 DEF AddedBut

\* One more appender is there and one less to come.
LEMMA AddAdds ==
    ASSUME NEW l \in LoggerValues, NEW todo \in Seq(MaybePattern), todo # <<>>,
           NEW d \in Seq(MaybePattern), AddedBut(l, d, todo)
    PROVE  AddedBut(addAppenders(l, NewAppender(Head(todo))), d, Tail(todo))
  <1>1. PICK a : a = Expected(l, Head(todo))
    OBVIOUS
  <1>2. PICK q : q = l.m_appenders
    OBVIOUS
  <1>3. q \in Seq(Appenders)
    BY <1>2 DEF LoggerValues
  <1>4. Head(todo) \in MaybePattern /\ Head(todo) = todo[1] /\ Len(todo) \in Nat \ {0}
    BY SMT
  <1>5. a \in Appenders
    BY <1>1, <1>4, AddEffect
  <1>6. PICK r : r = Append(q, a)
    OBVIOUS
  <1>7. PICK m : m = addAppenders(l, NewAppender(Head(todo)))
    OBVIOUS
  <1>8. m = Logger(l.m_level, l.m_formatter, r)
    BY <1>1, <1>2, <1>4, <1>6, <1>7, AddEffect
  <1>9. m.m_formatter = l.m_formatter /\ m.m_appenders = r
    BY <1>8, LoggerFields
  <1>10. PICK k \in Nat : k = Len(q)
    BY <1>3
  <1>11. Len(r) = k + 1 /\ r[k + 1] = a /\ \A i \in 1..k : r[i] = q[i]
    BY <1>3, <1>5, <1>6, <1>10
  <1>12. /\ Len(d) = k + Len(todo)
         /\ \A i \in 1..k : q[i] = Expected(l, d[i])
         /\ \A i \in 1..Len(todo) : todo[i] = d[k + i]
    BY <1>2, <1>10 DEF AddedBut
  <1>13. Len(Tail(todo)) = Len(todo) - 1 /\ \A i \in 1..(Len(todo) - 1) : Tail(todo)[i] = todo[i + 1]
    OBVIOUS
  <1>14. Len(d) = (k + 1) + Len(Tail(todo))
    BY <1>4, <1>12, <1>13
  <1>15. \A i \in 1..(k + 1) : r[i] = Expected(m, d[i])
    <2>1. \A p : Expected(m, p) = Expected(l, p)
      BY <1>9, ExpectedSame
    <2>2. 1 \in 1..Len(todo) /\ d[k + 1] = Head(todo)
      BY <1>4, <1>12
    <2>3. \A i \in 1..(k + 1) : i \in 1..k \/ i = k + 1
      OBVIOUS
    <2> QED
      BY <1>1, <1>11, <1>12, <2>1, <2>2, <2>3
  <1>16. \A i \in 1..Len(Tail(todo)) : Tail(todo)[i] = d[(k + 1) + i]
    <2> SUFFICES ASSUME NEW i \in 1..Len(Tail(todo)) PROVE Tail(todo)[i] = d[(k + 1) + i]
      OBVIOUS
    <2>1. i + 1 \in 1..Len(todo) /\ i \in 1..(Len(todo) - 1) /\ k + (i + 1) = (k + 1) + i
      BY <1>4, <1>13
    <2> QED
      BY <1>12, <1>13, <2>1
  <1>17. Len(m.m_appenders) = k + 1
    BY <1>9, <1>11
  <1>18. AddedBut(m, d, Tail(todo))
    BY <1>9, <1>14, <1>15, <1>16, <1>17 DEF AddedBut
  <1> QED
    BY <1>7, <1>18

\* When none is to come the logger's appenders are those of the define.
LEMMA AllAdded ==
    ASSUME NEW l \in LoggerValues, NEW d \in Seq(MaybePattern), AddedBut(l, d, <<>>)
    PROVE  l.m_appenders = [i \in DOMAIN d |-> Expected(l, d[i])]
  <1>1. PICK q : q = l.m_appenders
    OBVIOUS
  <1>2. q \in Seq(Appenders)
    BY <1>1 DEF LoggerValues
  <1>3. Len(<<>>) = 0 /\ Len(q) \in Nat
    BY <1>2
  <1>4. Len(d) = Len(q) /\ \A i \in 1..Len(q) : q[i] = Expected(l, d[i])
    BY <1>1, <1>3 DEF AddedBut
  <1>5. DOMAIN d = 1..Len(q) /\ DOMAIN q = 1..Len(q)
    BY <1>2, <1>4
  <1>6. q = [i \in 1..Len(q) |-> q[i]]
    BY <1>2
  <1>7. [i \in 1..Len(q) |-> q[i]] = [i \in 1..Len(q) |-> Expected(l, d[i])]
    BY <1>4
  <1> QED
    BY <1>1, <1>5, <1>6, <1>7

\* What the fields of a setter's record are.
LEMMA WorkingFields ==
    ASSUME NEW at, NEW new, NEW left, NEW removed, NEW n, NEW todo, NEW r,
           r = Working(at, new, left, removed, n, todo)
    PROVE  r.at = at /\ r.new = new /\ r.left = left /\ r.removed = removed /\ r.name = n /\ r.todo = todo
  BY DEF Working

LEMMA ListeningFields ==
    ASSUME NEW new, NEW left, NEW removed, NEW r, r = Listening(new, left, removed)
    PROVE  r.at = "level" /\ r.new = new /\ r.left = left /\ r.removed = removed
  BY DEF Listening

\* The other loggers stay as they are while one is changed.
LEMMA PutOthers ==
    ASSUME FollowInv, NEW n \in Names, NEW l, Put(n, l)
    PROVE  loggers'[n] = l /\ \A m \in Names \ {n} : loggers'[m] = loggers[m]
  BY DEF FollowInv, TypeInv, Put

LEMMA SetterMatchStep ==
    ASSUME OneSetter, FollowInv, MatchInv, NEW t \in Setters,
           \/ \E new \in Values : SetVal(t, new)
           \/ SetLevel(t) \/ SetFormatter(t) \/ ClearAppenders(t) \/ AddAppenders(t)
           \/ WriteVal(t)
    PROVE  MatchInv'
  <1>a. PICK s : s = setting[t]
    OBVIOUS
  <1>b. SetterOK(s) /\ SetterMatch(s) /\ Configured \subseteq Names
    BY <1>a DEF FollowInv, TypeInv, MatchInv, Names
  <1>c. ASSUME NEW r, setting' = [setting EXCEPT ![t] = r], SetterMatch(r)'
        PROVE  MatchInv'
    <2>1. \A u \in Setters : setting'[u] = r
      BY <1>c DEF OneSetter, FollowInv, TypeInv
    <2> QED
      BY <1>c, <2>1 DEF MatchInv
  <1>d. AtWork \subseteq Settling /\ "level" \in Settling /\ "level" \notin AtWork
    BY DEF AtWork, Settling
  <1>1. ASSUME NEW new \in Values, SetVal(t, new) PROVE MatchInv'
    <2>1. PICK left : left = {n \in DOMAIN new : n \in DOMAIN m_val => new[n] # m_val[n]}
      OBVIOUS
    <2>2. PICK removed : removed = DOMAIN m_val \ DOMAIN new
      OBVIOUS
    <2>3. PICK r : r = Listening(new, left, removed)
      OBVIOUS
    <2>4. /\ s.at = "idle" /\ setting' = [setting EXCEPT ![t] = r]
          /\ UNCHANGED <<loggers, m_val>>
      BY <1>a, <1>1, <2>1, <2>2, <2>3 DEF SetVal, Idle
    <2>5. r.at = "level" /\ r.new = new /\ r.left = left /\ r.removed = removed
      BY <2>3, ListeningFields
    <2>6. ASSUME NEW n \in Names \ (left \cup removed)
          PROVE  Matches(loggers[n], n, new)
      <3>1. Matches(loggers[n], n, m_val)
        BY <1>b, <2>4 DEF SetterMatch
      <3>2. n \in DOMAIN new => n \in DOMAIN m_val /\ new[n] = m_val[n]
        BY <2>1
      <3>3. n \notin DOMAIN new => n \notin DOMAIN m_val
        BY <2>2
      <3>4. CASE n \in DOMAIN new
        BY <3>1, <3>2, <3>4 DEF Matches
      <3>5. CASE n \notin DOMAIN new
        BY <3>1, <3>3, <3>5 DEF Matches
      <3> QED
        BY <3>4, <3>5
    <2>7. SetterMatch(r)'
      BY <2>2, <2>4, <2>5, <2>6 DEF SetterMatch, AtWork
    <2> QED
      BY <1>c, <2>4, <2>7
  <1>2. ASSUME SetLevel(t) PROVE MatchInv'
    <2>1. s.at = "level"
      BY <1>a, <1>2, SetLevelEffect
    <2>2. /\ s.left \subseteq DOMAIN s.new /\ s.removed \subseteq Configured \ DOMAIN s.new
          /\ DOMAIN s.new \subseteq Configured
      BY <1>b, <1>d, <2>1 DEF SetterOK, ValueOK
    <2>3. /\ \A n \in Names \ (s.left \cup s.removed) : Matches(loggers[n], n, s.new)
          /\ s.removed \subseteq DOMAIN m_val /\ m_val' = m_val
      BY <1>a, <1>b, <1>d, <1>2, <2>1, SetLevelEffect DEF SetterMatch
    <2>4. ASSUME NEW n \in s.left,
                 Put(n, setLevel(loggers[n], s.new[n].level)),
                 setting' = [setting EXCEPT ![t] =
                     Working("formatter", s.new, s.left \ {n}, s.removed, n, s.new[n].appenders)]
          PROVE  MatchInv'
      <3>1. PICK r : r = Working("formatter", s.new, s.left \ {n}, s.removed, n, s.new[n].appenders)
        OBVIOUS
      <3>2. /\ r.at = "formatter" /\ r.new = s.new /\ r.left = s.left \ {n} /\ r.removed = s.removed
            /\ r.name = n /\ r.todo = s.new[n].appenders
        BY <3>1, WorkingFields
      <3>3. n \in Names /\ n \in DOMAIN s.new /\ n \notin s.removed
        BY <1>b, <2>2
      <3>4. loggers'[n].m_level = s.new[n].level /\ \A m \in Names \ {n} : loggers'[m] = loggers[m]
        BY <2>4, <3>3, PutOthers, LoggerFields DEF setLevel
      <3>5. HalfMatches(loggers'[n], r)
        BY <3>2, <3>3, <3>4 DEF HalfMatches
      <3>6. \A m \in Names \ ({n} \cup r.left \cup r.removed) : Matches(loggers'[m], m, s.new)
        BY <1>b, <2>3, <3>2, <3>4
      <3>7. SetterMatch(r)'
        BY <2>3, <3>2, <3>3, <3>5, <3>6 DEF SetterMatch
      <3> QED
        BY <1>c, <2>4, <3>1, <3>7
    <2>5. ASSUME s.left = {}, NEW n \in s.removed,
                 Put(n, setLevel(loggers[n], UNKNOWN)),
                 setting' = [setting EXCEPT ![t] =
                     Working("clear", s.new, {}, s.removed \ {n}, n, <<>>)]
          PROVE  MatchInv'
      <3>1. PICK r : r = Working("clear", s.new, {}, s.removed \ {n}, n, <<>>)
        OBVIOUS
      <3>2. /\ r.at = "clear" /\ r.new = s.new /\ r.left = {} /\ r.removed = s.removed \ {n}
            /\ r.name = n /\ r.todo = <<>>
        BY <3>1, WorkingFields
      <3>3. n \in Names /\ n \notin DOMAIN s.new
        BY <1>b, <2>2
      <3>4. loggers'[n].m_level = UNKNOWN /\ \A m \in Names \ {n} : loggers'[m] = loggers[m]
        BY <2>5, <3>3, PutOthers, LoggerFields DEF setLevel
      <3>5. HalfMatches(loggers'[n], r)
        BY <3>2, <3>3, <3>4 DEF HalfMatches
      <3>6. \A m \in Names \ ({n} \cup r.left \cup r.removed) : Matches(loggers'[m], m, s.new)
        BY <1>b, <2>3, <2>5, <3>2, <3>4
      <3>7. SetterMatch(r)'
        BY <2>3, <3>2, <3>3, <3>5, <3>6 DEF SetterMatch
      <3> QED
        BY <1>c, <2>5, <3>1, <3>7
    <2>6. ASSUME s.left = {}, s.removed = {}, UNCHANGED loggers,
                 setting' = [setting EXCEPT ![t] = [at |-> "write", new |-> s.new]]
          PROVE  MatchInv'
      <3>1. PICK r : r = [at |-> "write", new |-> s.new]
        OBVIOUS
      <3>2. r.at = "write" /\ r.new = s.new
        BY <3>1
      <3>3. \A n \in Names : Matches(loggers'[n], n, s.new)
        BY <2>3, <2>6
      <3>4. SetterMatch(r)'
        BY <3>2, <3>3 DEF SetterMatch, AtWork, Settling
      <3> QED
        BY <1>c, <2>6, <3>1, <3>4
    <2> QED
      BY <1>a, <1>2, <2>4, <2>5, <2>6, SetLevelEffect
  \* The three steps at work on one logger.
  <1>e. ASSUME s.at \in AtWork
        PROVE  /\ \A n \in Names \ ({s.name} \cup s.left \cup s.removed) : Matches(loggers[n], n, s.new)
               /\ HalfMatches(loggers[s.name], s)
               /\ s.name \notin s.left \cup s.removed
               /\ s.name \in DOMAIN s.new \cup DOMAIN m_val /\ s.removed \subseteq DOMAIN m_val
               /\ s.name \in Configured /\ s.name \in Names /\ s.todo \in Seq(MaybePattern)
               /\ loggers[s.name] \in LoggerValues
               /\ s.name \in DOMAIN s.new => s.new[s.name].appenders \in Seq(MaybePattern)
    <2>1. s.name \in Configured /\ s.todo \in Seq(MaybePattern) /\ ValueOK(s.new)
      BY <1>b, <1>e DEF SetterOK, AtWork
    <2>2. s.name \in DOMAIN s.new => s.new[s.name].appenders \in Seq(MaybePattern)
      BY <2>1 DEF ValueOK, Defines, MaybePattern
    <2>3. loggers[s.name] \in LoggerValues
      BY <1>b, <2>1 DEF FollowInv, TypeInv
    <2> QED
      BY <1>b, <1>d, <1>e, <2>1, <2>2, <2>3 DEF SetterMatch
  <1>f. ASSUME s.at \in AtWork, NEW at \in AtWork, NEW todo, NEW r,
               r = Working(at, s.new, s.left, s.removed, s.name, todo),
               setting' = [setting EXCEPT ![t] = r],
               m_val' = m_val, \A m \in Names \ {s.name} : loggers'[m] = loggers[m],
               HalfMatches(loggers'[s.name], r)
        PROVE  MatchInv'
    <2>1. /\ r.at = at /\ r.new = s.new /\ r.left = s.left /\ r.removed = s.removed
          /\ r.name = s.name /\ r.todo = todo
      BY <1>f, WorkingFields
    <2>2. \A n \in Names \ ({s.name} \cup s.left \cup s.removed) : Matches(loggers'[n], n, s.new)
      BY <1>b, <1>e, <1>f
    <2>3. SetterMatch(r)'
      BY <1>e, <1>f, <2>1, <2>2 DEF SetterMatch, AtWork, Settling
    <2> QED
      BY <1>c, <1>f, <2>3
  <1>3. ASSUME SetFormatter(t) PROVE MatchInv'
    <2>1. PICK r : r = Working("clear", s.new, s.left, s.removed, s.name, s.todo)
      OBVIOUS
    <2>2. /\ s.at = "formatter" /\ setting' = [setting EXCEPT ![t] = r] /\ m_val' = m_val
          /\ IF s.new[s.name].formatter = Empty THEN UNCHANGED loggers
             ELSE Put(s.name, setFormatter(loggers[s.name], s.new[s.name].formatter))
      BY <1>a, <1>3, <2>1 DEF SetFormatter
    <2>3. s.at \in AtWork /\ "clear" \in AtWork /\ s.name \in DOMAIN s.new
      BY <1>b, <2>2 DEF AtWork, SetterOK
    <2>4. \A m \in Names \ {s.name} : loggers'[m] = loggers[m]
      BY <1>e, <2>2, <2>3, PutOthers
    <2>5. /\ loggers'[s.name].m_level = loggers[s.name].m_level
          /\ s.new[s.name].formatter \in Valid => loggers'[s.name].m_formatter = s.new[s.name].formatter
      <3>1. CASE s.new[s.name].formatter = Empty
        BY <2>2, <3>1, EmptyIsNoPattern
      <3>2. CASE s.new[s.name].formatter # Empty
        <4>1. loggers'[s.name] = setFormatter(loggers[s.name], s.new[s.name].formatter)
          BY <1>e, <2>2, <2>3, <3>2, PutOthers
        <4> QED
          BY <4>1, FormatterEffect
      <3> QED
        BY <3>1, <3>2
    <2>6. /\ r.at = "clear" /\ r.new = s.new /\ r.name = s.name /\ r.todo = s.todo
      BY <2>1, WorkingFields
    <2>7. HalfMatches(loggers'[s.name], r)
      <3>1. HalfMatches(loggers[s.name], s)
        BY <1>e, <2>3
      <3>2. loggers[s.name].m_level = s.new[s.name].level /\ s.todo = s.new[s.name].appenders
        BY <2>2, <2>3, <3>1 DEF HalfMatches
      <3> QED
        BY <2>3, <2>5, <2>6, <3>2 DEF HalfMatches
    <2> QED
      BY <1>f, <2>1, <2>2, <2>3, <2>4, <2>7
  <1>4. ASSUME ClearAppenders(t) PROVE MatchInv'
    <2>1. PICK r : r = Working("add", s.new, s.left, s.removed, s.name, s.todo)
      OBVIOUS
    <2>2. /\ s.at = "clear" /\ setting' = [setting EXCEPT ![t] = r] /\ m_val' = m_val
          /\ Put(s.name, clearAppenders(loggers[s.name]))
      BY <1>a, <1>4, <2>1 DEF ClearAppenders
    <2>3. s.at \in AtWork /\ "add" \in AtWork
      BY <2>2 DEF AtWork
    <2>4. /\ \A m \in Names \ {s.name} : loggers'[m] = loggers[m]
          /\ loggers'[s.name] = clearAppenders(loggers[s.name])
      BY <1>e, <2>2, <2>3, PutOthers
    <2>5. /\ loggers'[s.name].m_level = loggers[s.name].m_level
          /\ loggers'[s.name].m_formatter = loggers[s.name].m_formatter
          /\ loggers'[s.name].m_appenders = <<>>
      BY <2>4, LoggerFields DEF clearAppenders
    <2>6. /\ r.at = "add" /\ r.new = s.new /\ r.name = s.name /\ r.todo = s.todo
      BY <2>1, WorkingFields
    <2>7. HalfMatches(loggers'[s.name], r)
      <3>1. HalfMatches(loggers[s.name], s)
        BY <1>e, <2>3
      <3>2. CASE s.name \notin DOMAIN s.new
        BY <2>2, <2>5, <2>6, <3>1, <3>2 DEF HalfMatches
      <3>3. CASE s.name \in DOMAIN s.new
        <4>1. /\ loggers[s.name].m_level = s.new[s.name].level
              /\ s.new[s.name].formatter \in Valid => loggers[s.name].m_formatter = s.new[s.name].formatter
              /\ s.todo = s.new[s.name].appenders
          BY <2>2, <3>1, <3>3 DEF HalfMatches
        <4>2. AddedBut(loggers'[s.name], s.todo, s.todo)
          BY <1>e, <2>3, <2>4, ClearAdds
        <4> QED
          BY <2>5, <2>6, <3>3, <4>1, <4>2 DEF HalfMatches
      <3> QED
        BY <3>2, <3>3
    <2> QED
      BY <1>f, <2>1, <2>2, <2>3, <2>4, <2>7
  <1>5. ASSUME AddAppenders(t) PROVE MatchInv'
    <2>1. /\ s.at = "add" /\ m_val' = m_val
          /\ IF s.todo = <<>>
             THEN /\ setting' = [setting EXCEPT ![t] = Listening(s.new, s.left, s.removed)]
                  /\ UNCHANGED loggers
             ELSE /\ Put(s.name, addAppenders(loggers[s.name], NewAppender(Head(s.todo))))
                  /\ setting' = [setting EXCEPT ![t] =
                        Working("add", s.new, s.left, s.removed, s.name, Tail(s.todo))]
      BY <1>a, <1>5 DEF AddAppenders
    <2>2. s.at \in AtWork /\ "add" \in AtWork
      BY <2>1 DEF AtWork
    <2>3. HalfMatches(loggers[s.name], s)
      BY <1>e, <2>2
    <2>4. CASE s.todo = <<>>
      <3>1. PICK r : r = Listening(s.new, s.left, s.removed)
        OBVIOUS
      <3>2. r.at = "level" /\ r.new = s.new /\ r.left = s.left /\ r.removed = s.removed
        BY <3>1, ListeningFields
      <3>3. Matches(loggers[s.name], s.name, s.new)
        <4>2. CASE s.name \notin DOMAIN s.new
          BY <2>1, <2>3, <4>2 DEF HalfMatches, Matches
        <4>3. CASE s.name \in DOMAIN s.new
          <5>1. /\ loggers[s.name].m_level = s.new[s.name].level
                /\ s.new[s.name].formatter \in Valid => loggers[s.name].m_formatter = s.new[s.name].formatter
                /\ AddedBut(loggers[s.name], s.new[s.name].appenders, <<>>)
            BY <2>1, <2>3, <2>4, <4>3 DEF HalfMatches
          <5>2. PICK d : d = s.new[s.name].appenders
            OBVIOUS
          <5>3. loggers[s.name].m_appenders = [i \in DOMAIN d |-> Expected(loggers[s.name], d[i])]
            BY <1>e, <2>2, <4>3, <5>1, <5>2, AllAdded
          <5> QED
            BY <4>3, <5>1, <5>2, <5>3 DEF Matches
        <4> QED
          BY <4>2, <4>3
      <3>4. \A n \in Names \ (s.left \cup s.removed) : Matches(loggers'[n], n, s.new)
        BY <1>e, <2>1, <2>2, <2>4, <3>3
      <3>5. SetterMatch(r)'
        BY <1>e, <2>1, <2>2, <3>2, <3>4 DEF SetterMatch, AtWork
      <3> QED
        BY <1>c, <2>1, <2>4, <3>1, <3>5
    <2>5. CASE s.todo # <<>>
      <3>1. PICK r : r = Working("add", s.new, s.left, s.removed, s.name, Tail(s.todo))
        OBVIOUS
      <3>2. r.at = "add" /\ r.new = s.new /\ r.name = s.name /\ r.todo = Tail(s.todo)
        BY <3>1, WorkingFields
      <3>3. /\ \A m \in Names \ {s.name} : loggers'[m] = loggers[m]
            /\ loggers'[s.name] = addAppenders(loggers[s.name], NewAppender(Head(s.todo)))
        BY <1>e, <2>1, <2>2, <2>5, PutOthers
      <3>4. /\ loggers'[s.name].m_level = loggers[s.name].m_level
            /\ loggers'[s.name].m_formatter = loggers[s.name].m_formatter
        BY <3>3, LoggerFields DEF addAppenders
      <3>5. HalfMatches(loggers'[s.name], r)
        <4>2. s.name \in DOMAIN s.new
          BY <2>3, <2>5 DEF HalfMatches
        <4>3. /\ loggers[s.name].m_level = s.new[s.name].level
              /\ s.new[s.name].formatter \in Valid => loggers[s.name].m_formatter = s.new[s.name].formatter
              /\ AddedBut(loggers[s.name], s.new[s.name].appenders, s.todo)
          BY <2>1, <2>3, <4>2 DEF HalfMatches
        <4>4. AddedBut(loggers'[s.name], s.new[s.name].appenders, Tail(s.todo))
          BY <1>e, <2>2, <2>5, <3>3, <4>2, <4>3, AddAdds
        <4> QED
          BY <3>2, <3>4, <4>2, <4>3, <4>4 DEF HalfMatches
      <3> QED
        BY <1>f, <2>1, <2>2, <2>5, <3>1, <3>3, <3>5
    <2> QED
      BY <2>4, <2>5
  <1>6. ASSUME WriteVal(t) PROVE MatchInv'
    <2>1. /\ s.at = "write" /\ m_val' = s.new /\ setting' = [setting EXCEPT ![t] = Idle]
          /\ UNCHANGED loggers
      BY <1>a, <1>6 DEF WriteVal
    <2>2. Idle.at = "idle"
      BY DEF Idle
    <2>3. PICK r : r = Idle
      OBVIOUS
    <2>4. SetterMatch(r)'
      BY <1>b, <2>1, <2>2, <2>3 DEF SetterMatch, AtWork, Settling
    <2> QED
      BY <1>c, <2>1, <2>3, <2>4
  <1> QED
    BY <1>1, <1>2, <1>3, <1>4, <1>5, <1>6

LEMMA MatchStep ==
    ASSUME OneSetter, FollowInv, MatchInv, [Next]_vars
    PROVE  MatchInv'
  <1>1. ASSUME UNCHANGED <<loggers, m_val, setting>> PROVE MatchInv'
    <2>1. ASSUME NEW t \in Setters PROVE SetterMatch(setting[t])'
      <3>1. PICK s : s = setting[t]
        OBVIOUS
      <3>2. SetterMatch(s) /\ setting'[t] = s
        BY <1>1, <3>1 DEF MatchInv
      <3>3. SetterMatch(s)'
        BY <1>1, <3>2 DEF SetterMatch
      <3> QED
        BY <3>2, <3>3
    <2> QED
      BY <2>1 DEF MatchInv
  <1>2. ASSUME NEW t \in Threads, LogsStep(t) PROVE MatchInv'
    BY <1>1, <1>2, LogStep
  <1> QED
    BY <1>1, <1>2, PrivateStep, SetterMatchStep DEF Next, LogsStep, vars

LEMMA InitMatch == Init => MatchInv
  <1> SUFFICES ASSUME Init, NEW t \in Setters PROVE SetterMatch(setting[t])
    BY DEF MatchInv
  <1>1. setting[t].at = "idle"
    BY DEF Init, Idle
  <1>2. \A n \in Names : loggers[n] = Made(n) /\ n \notin DOMAIN m_val
    BY DEF Init
  <1>3. \A n \in Names : Matches(loggers[n], n, m_val)
    BY <1>2 DEF Matches
  <1> QED
    BY <1>1, <1>3 DEF SetterMatch, AtWork, Settling

\* After any sequence of configurations, loaded one after the other while threads
\* log and the program changes loggers of its own, the configured loggers and the
\* root logger are what the variable "logs" says.
THEOREM LoggersMatchCorrect ==
    ASSUME OneSetter PROVE Spec => []LoggersMatchConfig
  <1>1. FollowInv /\ MatchInv /\ [Next]_vars => MatchInv'
    BY MatchStep
  <1>2. MatchInv => LoggersMatchConfig
    <2> SUFFICES ASSUME MatchInv, \A t \in Setters : setting[t] = Idle, NEW n \in Names
                 PROVE  Matches(loggers[n], n, m_val)
      BY DEF LoggersMatchConfig
    <2>1. PICK t \in Setters : setting[t].at = "idle"
      BY DEF OneSetter, Idle
    <2> QED
      BY <2>1 DEF MatchInv, SetterMatch
  <1> QED
    BY <1>1, <1>2, InitMatch, FollowCorrect, PTL DEF Spec

-----------------------------------------------------------------------------
(* Events are written *)

LEMMA PlaceFields ==
    ASSUME NEW at, NEW n, NEW level
    PROVE  /\ Place(at, n, level).at = at /\ Place(at, n, level).level = level
  BY DEF Place

LEMMA DoneFields ==
    ASSUME NEW w
    PROVE  Done(w).at = "done" /\ Done(w).written = w
  BY DEF Done

LEMMA EventStep ==
    ASSUME FollowInv, EventInv, [Next]_vars
    PROVE  EventInv'
  <1>1. ASSUME UNCHANGED logging PROVE EventInv'
    BY <1>1 DEF EventInv
  <1>2. ASSUME NEW t \in Threads, NEW r, logging' = [logging EXCEPT ![t] = r],
               r.at \in {"lock", "root", "rootLock"} => r.level \in {DEBUG, WARN}
        PROVE  EventInv'
    <2>1. \A u \in Threads : logging'[u] = IF u = t THEN r ELSE logging[u]
      BY <1>2 DEF FollowInv, TypeInv
    <2> QED
      BY <1>2, <2>1 DEF EventInv
  <1>3. ASSUME NEW t \in Threads, NEW n, NEW level \in {DEBUG, WARN}, Log(t, n, level)
        PROVE  EventInv'
    <2>1. PICK r : r = Place("lock", n, level)
      OBVIOUS
    <2>2. logging' = [logging EXCEPT ![t] = r] /\ r.level = level
      BY <1>3, <2>1, PlaceFields DEF Log
    <2> QED
      BY <1>2, <2>2
  <1>4. ASSUME NEW t \in Threads, Write(t) PROVE EventInv'
    <2>1. PICK r : /\ logging' = [logging EXCEPT ![t] = r]
                   /\ (\E w : r = Done(w)) \/ (\E n : r = Place("root", n, logging[t].level))
      BY <1>4 DEF Write
    <2>2. r.at = "done" \/ r.level = logging[t].level
      BY <2>1, PlaceFields, DoneFields
    <2>3. logging[t].level \in {DEBUG, WARN}
      BY <1>4 DEF EventInv, Write
    <2> QED
      BY <1>2, <2>1, <2>2, <2>3
  <1>5. ASSUME NEW t \in Threads, RootLog(t) PROVE EventInv'
    <2>1. PICK r : /\ logging' = [logging EXCEPT ![t] = r]
                   /\ (\E w : r = Done(w)) \/ (\E n : r = Place("rootLock", n, logging[t].level))
      BY <1>5 DEF RootLog
    <2>2. r.at = "done" \/ r.level = logging[t].level
      BY <2>1, PlaceFields, DoneFields
    <2>3. logging[t].level \in {DEBUG, WARN}
      BY <1>5 DEF EventInv, RootLog
    <2> QED
      BY <1>2, <2>1, <2>2, <2>3
  <1>6. ASSUME NEW t \in Threads, RootWrite(t) PROVE EventInv'
    BY <1>2, <1>6, DoneFields DEF RootWrite
  <1>7. ASSUME NEW t \in Setters,
               \/ \E new \in Values : SetVal(t, new)
               \/ SetLevel(t) \/ SetFormatter(t) \/ ClearAppenders(t) \/ AddAppenders(t)
               \/ WriteVal(t)
        PROVE  UNCHANGED logging
    BY <1>7 DEF SetVal, SetLevel, SetFormatter, ClearAppenders, AddAppenders, WriteVal
  <1> QED
    BY <1>1, <1>3, <1>4, <1>5, <1>6, <1>7, PrivateStep DEF Next, vars

\* What the root logger is while nobody configures it.
LEMMA RootMatches ==
    ASSUME OneSetter, FollowInv, MatchInv, ~RootIsBeingSet
    PROVE  Matches(loggers[Root], Root, m_val)
  <1>1. PICK t \in Setters : TRUE
    BY DEF OneSetter
  <1>2. PICK s : s = setting[t]
    OBVIOUS
  <1>3. SetterOK(s) /\ SetterMatch(s) /\ Root \in Names
    BY <1>1, <1>2 DEF FollowInv, TypeInv, MatchInv, Names
  <1>4. CASE s.at = "idle"
    BY <1>3, <1>4 DEF SetterMatch
  <1>5. CASE s.at # "idle"
    <2>1. s # Idle
      BY <1>5 DEF Idle
    <2>2. Root \notin DOMAIN s.new /\ Root \notin DOMAIN m_val
      BY <1>2, <2>1 DEF RootIsBeingSet
    <2>3. s.at \in Settling => Root \notin s.left \cup s.removed
      BY <1>3, <2>2 DEF SetterOK, SetterMatch
    <2>4. s.at \in AtWork => Root # s.name
      BY <1>3, <2>2 DEF SetterMatch
    <2>5. s.at = "level" \/ s.at \in AtWork \/ s.at = "write"
      BY <1>3, <1>5 DEF SetterOK, Settling, AtWork
    <2>6. Matches(loggers[Root], Root, s.new)
      BY <1>3, <2>3, <2>4, <2>5 DEF SetterMatch, Settling, AtWork
    <2> QED
      BY <2>2, <2>6 DEF Matches
  <1> QED
    BY <1>4, <1>5

\* It writes every event that the configuration in force does not keep from it.
LEMMA RootWrites ==
    ASSUME OneSetter, FollowInv, MatchInv, ~RootIsBeingSet,
           NEW level \in {DEBUG, WARN}, ~RootIsSilent(level)
    PROVE  level >= loggers[Root].m_level /\ loggers[Root].m_appenders # <<>>
  <1>1. PICK l : l = loggers[Root]
    OBVIOUS
  <1>2. Matches(l, Root, m_val)
    BY <1>1, RootMatches
  <1>3. CASE Root \in DOMAIN m_val
    <2>1. PICK d : d = m_val[Root]
      OBVIOUS
    <2>2. d \in Defines
      BY <1>3, <2>1 DEF FollowInv, TypeInv, ValueOK
    <2>3. d.level \in Levels /\ d.appenders \in Seq(Patterns \cup {Empty})
      BY <2>2 DEF Defines
    <2>4. ~(d.level > level) /\ d.appenders # <<>>
      BY <1>3, <2>1 DEF RootIsSilent
    <2>5. l.m_level = d.level /\ DOMAIN l.m_appenders = DOMAIN d.appenders
      BY <1>2, <1>3, <2>1 DEF Matches
    <2>6. DOMAIN d.appenders # {}
      <3>1. PICK q : q = d.appenders
        OBVIOUS
      <3>2. q \in Seq(Patterns \cup {Empty}) /\ q # <<>>
        BY <2>3, <2>4, <3>1
      <3>3. DOMAIN q = 1..Len(q) /\ Len(q) \in Nat \ {0}
        BY <3>2
      <3> QED
        BY <3>1, <3>3
    <2>7. level >= d.level
      BY <2>3, <2>4 DEF Levels, UNKNOWN, DEBUG, WARN
    <2>8. DOMAIN <<>> = {}
      OBVIOUS
    <2> QED
      BY <1>1, <2>5, <2>6, <2>7, <2>8
  <1>4. CASE Root \notin DOMAIN m_val
    <2>1. l = Made(Root)
      BY <1>1, <1>2, <1>4 DEF Matches, RootIsSilent
    <2>2. l.m_level = DEBUG /\ l.m_appenders = <<Appender(Default, FALSE)>>
      <3>1. PICK q : q = <<Appender(Default, FALSE)>>
        OBVIOUS
      <3>2. l = Logger(DEBUG, Default, q)
        BY <2>1, <3>1 DEF Made
      <3>3. l.m_level = DEBUG /\ l.m_appenders = q
        BY <3>2, LoggerFields
      <3> QED
        BY <3>1, <3>3
    <2>3. level >= DEBUG
      BY DEF DEBUG, WARN
    <2>4. \A a : <<a>> # <<>>
      OBVIOUS
    <2> QED
      BY <1>1, <2>2, <2>3, <2>4
  <1> QED
    BY <1>3, <1>4

\* Whatever configurations are loaded, of the root logger too, one after the other:
\* an event at its logger's level is lost only when the root logger, which had to
\* write it, is silenced by the configuration in force or is just being configured.
THEOREM EventIsWrittenCorrect ==
    ASSUME OneSetter PROVE Spec => EventIsWritten
  <1>1. FollowInv /\ MatchInv /\ [Next]_vars => MatchInv'
    BY MatchStep
  <1>2. FollowInv /\ EventInv /\ [Next]_vars => EventInv'
    BY EventStep
  <1>3. Init => EventInv
    BY DEF Init, Idle, EventInv
  <1> DEFINE Kept == \A t \in Threads :
                 logging[t].at # "done" /\ logging'[t] = Done(FALSE) =>
                     RootIsBeingSet \/ RootIsSilent(logging[t].level)
  <1>4. FollowInv /\ MatchInv /\ EventInv /\ [Next]_vars => [Kept]_vars
    <2> SUFFICES ASSUME FollowInv, MatchInv, EventInv, [Next]_vars, NEW t \in Threads,
                        logging[t].at # "done", logging'[t] = Done(FALSE),
                        ~RootIsBeingSet, ~RootIsSilent(logging[t].level)
                 PROVE  FALSE
      OBVIOUS
    <2>0. logging'[t].at = "done"
      BY DoneFields
    <2>1. ASSUME UNCHANGED logging PROVE FALSE
      BY <2>0, <2>1
    <2>2. ASSUME NEW u \in Threads, NEW r, logging' = [logging EXCEPT ![u] = r]
          PROVE  u = t /\ r = Done(FALSE)
      <3>1. \A x \in Threads : logging'[x] = IF x = u THEN r ELSE logging[x]
        BY <2>2 DEF FollowInv, TypeInv
      <3> QED
        BY <2>0, <3>1
    <2>3. ASSUME logging[t].at \in {"lock", "root", "rootLock"}
          PROVE  logging[t].level >= loggers[Root].m_level /\ loggers[Root].m_appenders # <<>>
      <3>1. logging[t].level \in {DEBUG, WARN}
        BY <2>3 DEF EventInv
      <3> QED
        BY <3>1, RootWrites
    <2>4. ASSUME NEW u \in Threads, NEW n, NEW level, Log(u, n, level) PROVE FALSE
      <3>1. PICK r : r = Place("lock", n, level)
        OBVIOUS
      <3>2. logging' = [logging EXCEPT ![u] = r] /\ r.at = "lock"
        BY <2>4, <3>1, PlaceFields DEF Log
      <3> QED
        BY <2>2, <3>2, DoneFields
    <2>5. ASSUME NEW u \in Threads, Write(u) PROVE FALSE
      <3>1. PICK n : n = logging[u].name
        OBVIOUS
      <3>2. PICK r : r = IF LoggerOf(n).m_appenders # <<>> THEN Done(TRUE)
                         ELSE IF n = Root THEN Done(FALSE)
                         ELSE Place("root", n, logging[u].level)
        OBVIOUS
      <3>3. logging[u].at = "lock" /\ logging' = [logging EXCEPT ![u] = r]
        BY <2>5, <3>1, <3>2 DEF Write
      <3>4. u = t /\ r = Done(FALSE)
        BY <2>2, <3>3
      <3>5. Done(TRUE) # Done(FALSE)
        BY DEF Done
      <3>6. n = Root /\ LoggerOf(n).m_appenders = <<>>
        <4>1. Place("root", n, logging[u].level).at = "root" /\ Done(FALSE).at = "done"
          BY DEF Place, Done
        <4> QED
          BY <3>2, <3>4, <3>5, <4>1
      <3>7. LoggerOf(Root) = loggers[Root]
        BY NamesAssumption DEF LoggerOf
      <3> QED
        BY <2>3, <3>3, <3>4, <3>6, <3>7
    <2>6. ASSUME NEW u \in Threads, RootLog(u) PROVE FALSE
      <3>1. PICK r : r = IF logging[u].level >= loggers[Root].m_level
                         THEN Place("rootLock", logging[u].name, logging[u].level) ELSE Done(FALSE)
        OBVIOUS
      <3>2. logging[u].at = "root" /\ logging' = [logging EXCEPT ![u] = r]
        BY <2>6, <3>1 DEF RootLog
      <3>3. u = t /\ r = Done(FALSE)
        BY <2>2, <3>2
      <3>4. Place("rootLock", logging[u].name, logging[u].level).at = "rootLock" /\ Done(FALSE).at = "done"
        BY DEF Place, Done
      <3> QED
        BY <2>3, <3>1, <3>2, <3>3, <3>4
    <2>7. ASSUME NEW u \in Threads, RootWrite(u) PROVE FALSE
      <3>1. PICK w : w = (loggers[Root].m_appenders # <<>>)
        OBVIOUS
      <3>2. logging[u].at = "rootLock" /\ logging' = [logging EXCEPT ![u] = Done(w)]
        BY <2>7, <3>1 DEF RootWrite
      <3>3. u = t /\ Done(w) = Done(FALSE)
        BY <2>2, <3>2
      <3>4. w = FALSE
        BY <3>3 DEF Done
      <3> QED
        BY <2>3, <3>1, <3>2, <3>3, <3>4
    <2>8. ASSUME NEW u \in Setters,
                 \/ \E new \in Values : SetVal(u, new)
                 \/ SetLevel(u) \/ SetFormatter(u) \/ ClearAppenders(u) \/ AddAppenders(u)
                 \/ WriteVal(u)
          PROVE  UNCHANGED logging
      BY <2>8 DEF SetVal, SetLevel, SetFormatter, ClearAppenders, AddAppenders, WriteVal
    <2> QED
      BY <2>1, <2>4, <2>5, <2>6, <2>7, <2>8, PrivateStep DEF Next, vars
  <1> QED
    BY <1>1, <1>2, <1>3, <1>4, InitMatch, FollowCorrect, PTL DEF Spec, EventIsWritten
=============================================================================
