SPECIFICATION FairSpec
CONSTANTS
    Filled = 12
    Portion = 7
    Step = 2
    MaxChecks = 2
    MaxRetries = 3
    Lossy = TRUE
CHECK_DEADLOCK FALSE
INVARIANTS
    TypeOK
    SellsItsPortion
    ReportIsTrue
PROPERTIES
    OneCutIsEnough
    ExitReturns
