SPECIFICATION FairSpec
CONSTANTS
    Close = 4
    Grace = 1
    RetryInterval = 1
    PollInterval = 1
    MaxOrders = 3
    AbortCount = 2
    FallbackEnabled = TRUE
    Horizon = 8
    Faults = {"lost", "delayed", "unavailable", "lag", "linger", "slow"}
CHECK_DEADLOCK FALSE
INVARIANTS
    TypeOK
    OneStakeAtRisk
    OverByDeadline
PROPERTIES
    KeepsTheContract
    EntryReturns
