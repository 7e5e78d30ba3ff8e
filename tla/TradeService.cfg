\* A disk that may fail, crashes anywhere, one seeded trade and two more.
CONSTANTS
    AUDITABLE_FIELDS <- TwoColumns
    Values = {low, high}
    StartSequence = 1
    Rollover = 10
    SeedCount = 1
    MAX_RANDOM_TRADES = 2
    DiskFails = TRUE
    MaxSequence = 4
    MaxAudit = 2
    MaxClock = 2
SPECIFICATION FairSpec
INVARIANTS TypeOK AuditChain CancelledOnce FreshSequence
PROPERTIES CancelledIsFinal EveryCommitIsAnnouncedOrFails RequestsAreAnswered LifecycleSpec
