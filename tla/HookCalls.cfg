SPECIFICATION FairSpec
CONSTANTS
    Kinds = {"io", "connect", "sleep"}
    MaxCalls = 2
    MaxOpens = 2
    MaxOpts = 1
CHECK_DEADLOCK FALSE
INVARIANTS WokenOnce NothingLeftBehind TimeoutIsOwn
PROPERTIES ReadyEndsCall
