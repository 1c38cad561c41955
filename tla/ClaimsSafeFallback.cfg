SPECIFICATION Spec
CONSTANTS
    MaxTrades = 2
    MaxAttempts = 2
    InternalAttempts = 2
    UseRelayer = TRUE
    AllowFallback = TRUE
    Funder = "safe"
    Faults = {}
INVARIANT
    SettledMeansGone
