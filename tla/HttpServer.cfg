SPECIFICATION ServerSpec
CONSTANTS
    Radix = 2
    Word = 8
    Socks = {s1, s2}
    AcceptThreads = 1
    Clients = {c}
    Rude = {}
    Pipelining = FALSE
    m_isKeepAlive = TRUE
    BodyLens = {0, 2}
    Paths = {p}
    Globs = {{p}}
    MaxPerClient = 2
    MaxChanges = 2
INVARIANT RequestIsSent
PROPERTIES RetiredAnswersNothing RequestsAreAnswered StopEndsAccept
CHECK_DEADLOCK FALSE
