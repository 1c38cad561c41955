SPECIFICATION Spec
CONSTANTS
    MaxTrades = 2
    MaxAttempts = 2
    InternalAttempts = 2
    UseRelayer = FALSE
    AllowFallback = TRUE
    Funder = "key"
    Faults = {"crash", "write", "read", "rpc"}
INVARIANTS
    TypeOK
    SettledMeansGone
    FinalIsDropped
    GivenUpIffExhausted
    FileBehindMemory
PROPERTIES
    FinalSticks
    KeepsTheBook
