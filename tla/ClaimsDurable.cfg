SPECIFICATION FairSpec
CONSTANTS
    MaxTrades = 2
    MaxAttempts = 2
    InternalAttempts = 2
    UseRelayer = TRUE
    AllowFallback = FALSE
    Funder = "safe"
    Faults = {"crash", "rpc", "hang", "gamma", "unlisted"}
INVARIANTS
    NothingForgotten
    PatientWhileOpen
PROPERTY
    ClaimsConclude
