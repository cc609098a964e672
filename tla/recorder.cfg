SPECIFICATION FairSpec
CONSTANTS
    Total = 4
    Period = 2
    Size = 2
    Backoff <- MCBackoff
    Lags = {0, 1}
    PollTimes = {0, 2, 5}
CHECK_DEADLOCK FALSE
INVARIANTS
    TypeOK
    Accounting
    OnSchedule
    BlockLosesNothing
    FreshestKept
    Delivery
PROPERTIES
    ExitIsFinal
    RecorderEnds
