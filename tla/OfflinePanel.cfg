\* The promise that a panel opens with its skeleton; the network may go down.
CONSTANTS
    Trades <- TwoTrades
    Clicked <- TwoTrades
    MAX_FIELDS = 1
    FEED_LIMIT = 1
    Outages = TRUE
    MaxEntries = 1
SPECIFICATION AuditSpec
INVARIANT SkeletonUntilAnswered
CHECK_DEADLOCK FALSE
