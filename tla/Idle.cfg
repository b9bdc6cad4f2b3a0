SPECIFICATION FairSpec
CONSTANTS
    Workers = {w1, w2}
    Main = main
    Tasks = {a, b}
    Submitted = {a}
    Arming = {a}
    Far = {}
    MaxYields = 2
    Pipe = pipe
INVARIANTS TaskInOnePlace StopDrainsList
PROPERTIES StopReturns EveryTaskRuns
CHECK_DEADLOCK FALSE
