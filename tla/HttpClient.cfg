SPECIFICATION Spec
CONSTANTS
    Radix = 2
    Word = 8
    Fibers = {f1, f2}
    Direct = {d}
    MaxConns = 2
    FixedLens = {2}
    ChunkSizes = {2}
    m_maxAliveTime = 0
    m_maxRequest = 1
    MaxRequests = 3
    MaxClock = 1
    ErrorsAt = {"head", "size", "chunk", "last"}
    SplitSizes = FALSE
INVARIANTS ConnHeldOnce TotalCounts PoolIsClean ResponseIsOwn
SYMMETRY FiberSymmetry
CHECK_DEADLOCK FALSE
