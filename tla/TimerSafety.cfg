SPECIFICATION FairSpec
CONSTANTS
    Timers <- TwoTimers
    Idlers = {w1}
    MsValues <- OnePeriod
    StartClock = 1
    MinClock = 0
    MaxClock = 2
    RolloverGap = 1
    MaxTimeout = 2
    IntHalf = 8
    MaxQueued = 1
    MaxSetBacks = 1
CHECK_DEADLOCK FALSE
INVARIANTS TypeOK ArmedIffCallback OneShotOnce
PROPERTIES NeverEarly NothingDueLeft DueTimersFire
