SPECIFICATION FairSpec
CONSTANTS
    Kinds = {"io"}
    MaxCalls = 1
    MaxOpens = 1
    MaxOpts = 1
CHECK_DEADLOCK FALSE
PROPERTIES TimedCallReturns
