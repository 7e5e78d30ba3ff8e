\* The sequence passes the last number of SEQUENCE_WIDTH digits; a sound disk.
CONSTANTS
    AUDITABLE_FIELDS <- TwoColumns
    Values = {low}
    StartSequence = 8
    Rollover = 10
    SeedCount = 1
    MAX_RANDOM_TRADES = 2
    DiskFails = FALSE
    MaxSequence = 12
    MaxAudit = 0
    MaxClock = 1
SPECIFICATION Spec
INVARIANTS EveryErrorIsAnAppError
