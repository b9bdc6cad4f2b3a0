SPECIFICATION Spec
CONSTANTS
    Workers = {w1}
    RootThreads = {r}
    Tasks = {a, b}
    Twice = {b}
    Pins = {AnyThread, w1, r}
    UserOps = {"fiber", "hold", "ready", "switchTo", "throw"}
    MaxYields = 1
    MaxStarts = 2
    AnyThread = AnyThread
    None = None
CHECK_DEADLOCK FALSE
INVARIANT ActiveExact
