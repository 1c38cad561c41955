SPECIFICATION FairSpec
CONSTANTS
    Filled = 8
    Portion = 4
    Step = 2
    MaxChecks = 2
    MaxRetries = 3
    Lossy = TRUE
CHECK_DEADLOCK FALSE
INVARIANT
    NoMoreThanTheFraction
