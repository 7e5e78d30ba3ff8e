\* One browser, one trade that two columns' values tell apart, every fault.
CONSTANTS
    AUDITABLE_FIELDS <- TwoColumns
    Values = {low, high}
    StartSequence = 1
    Rollover = 10
    SeedCount = 0
    MAX_RANDOM_TRADES = 1
    DiskFails = TRUE
    MaxSequence = 2
    MaxAudit = 2
    MaxClock = 1
    Clients = {alice}
    MAX_LIVE_TRADES = 3
    Dials = {1}
    CLIENT_FETCH_PAGE_SIZE = 3
    Faults = {"crash", "cut", "error"}
    MaxInbox = 1
SYMMETRY ValueSymmetry
SPECIFICATION BlotterSpec
INVARIANTS DriftHasACause NoTradeShownTwice NoPhantomTrade NeverFalselyCancelled
