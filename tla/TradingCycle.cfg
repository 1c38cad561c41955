SPECIFICATION FairSpec
CONSTANTS
    WindowLen = 3
    Lead = 1
    ResolveDelay = 1
    MaxRetries = 2
    MaxOrders = 2
    MaxProcessed = 2
    KeepWindows = 0
    LastWindow = 2
    MaxRestarts = 1
INVARIANTS
    TypeOK
    OneBuyPerWindow
    BuysAreAccounted
    OneRecordPerWindow
    ProcessedIsBounded
PROPERTIES
    FillsAreSettled
