SPECIFICATION ServerSpec
CONSTANTS
    Radix = 2
    Word = 8
    Socks = {s}
    AcceptThreads = 1
    Clients = {c}
    Rude = {c}
    Pipelining = FALSE
    m_isKeepAlive = TRUE
    BodyLens = {0, 2}
    Paths = {p}
    Globs = {{p}}
    MaxPerClient = 1
    MaxChanges = 0
INVARIANT ServerSurvives
CHECK_DEADLOCK FALSE
