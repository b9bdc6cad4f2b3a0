SPECIFICATION FairSpec
CONSTANTS
    Workers = {w1, w2}
    RootThreads = {}
    Tasks = {a, b, c}
    Twice = {}
    Pins = {AnyThread}
    UserOps = {"ready", "throw", "spawn"}
    MaxYields = 1
    MaxStarts = 1
    AnyThread = AnyThread
    None = None
CHECK_DEADLOCK FALSE
INVARIANTS TypeOK NoAssertionFails StopIsGraceful TaskInOnePlace
PROPERTIES EveryTaskRuns
