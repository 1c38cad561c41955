SPECIFICATION Spec
CONSTANTS
    Bands <- MCBands
    Stakes <- MCStakes
    Slippage = 150
    FallbackEnabled = TRUE
    Ticks <- MCTicks
    Books <- MCBooks
    Asks <- MCAsks
    Feeds <- MCFeeds
    WindowId = "c1"
    Payloads <- MCPayloads
INVARIANTS
    TypeOK
    StakeIsTheLimit
    ReachesTheAsk
    UnflaggedIsInBand
    BooksCoverTheWallet
    VerdictIsThePayout
    ProbeMeetsItsMarket
CHECK_DEADLOCK FALSE
