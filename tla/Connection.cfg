\* The hook mounted in production once, in development twice (React's strict mode).
CONSTANTS
    Sockets = {s1, s2, s3}
    NoSocket = none
    Remounts = 1
    MaxAttempt = 6
    MaxTimers = 2
SPECIFICATION WsFairSpec
INVARIANTS WsTypeOK OneChainPerMount FlagIsTrue FlagIsComplete
PROPERTIES OnlyAckResetsBackoff AlwaysReconnects
