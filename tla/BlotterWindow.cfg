\* A page and a window of one trade over a table of two; no faults, only orders.
CONSTANTS
    AUDITABLE_FIELDS <- OneColumn
    Values = {low}
    StartSequence = 1
    Rollover = 10
    SeedCount = 0
    MAX_RANDOM_TRADES = 1
    DiskFails = FALSE
    MaxSequence = 3
    MaxAudit = 1
    MaxClock = 1
    Clients = {alice}
    MAX_LIVE_TRADES = 1
    Dials = {1, 2}
    CLIENT_FETCH_PAGE_SIZE = 1
    Faults = {}
    MaxInbox = 2
SPECIFICATION BlotterSpec
INVARIANTS BlotterTypeOK DriftHasACause
PROPERTIES BufferLosesNothing
