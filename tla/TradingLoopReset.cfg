SPECIFICATION FairSpec
CONSTANTS
    LossLimit = 2
    HasCooldown = TRUE
    Enabled = TRUE
    MaxCommands = 3
    MaxLosses = 4
INVARIANT
    GuardIsResetByResume
