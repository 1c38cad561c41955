SPECIFICATION FairSpec
CONSTANTS
    Close = 4
    Grace = 1
    RetryInterval = 1
    PollInterval = 1
    MaxOrders = 3
    AbortCount = 2
    FallbackEnabled = TRUE
    Horizon = 8
    Faults = {"unavailable"}
CHECK_DEADLOCK FALSE
INVARIANT
    StakeIsSpentOnce
