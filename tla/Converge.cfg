\* Fault-free: one browser, two trades, one amendment or cancellation.
CONSTANTS
    AUDITABLE_FIELDS <- TwoColumns
    Values = {low}
    StartSequence = 1
    Rollover = 10
    SeedCount = 0
    MAX_RANDOM_TRADES = 1
    DiskFails = FALSE
    MaxSequence = 3
    MaxAudit = 1
    MaxClock = 1
    Clients = {alice}
    MAX_LIVE_TRADES = 3
    Dials = {1}
    CLIENT_FETCH_PAGE_SIZE = 3
    Faults = {}
    MaxInbox = 2
SPECIFICATION BlotterSpec
INVARIANTS ConnectedClientsConverge
