SPECIFICATION FairSpec
CONSTANTS
    Tasks = {t1}
    Workers = {w1}
    MaxRetries = 1
    Timeout = 1
    StageTimeout = 2
    MaxInFlight = 1
    AbandonLimit = 1
    MaxCollections = 2
    MaxFaults = 1
    MaxRefusals = 1
    MaxStops = 1
INVARIANT CompletedIsCollected
PROPERTY DropsOnlyAbandoned
PROPERTY NothingAfterAbandon
PROPERTY StageEndsUnlessBlocked
CHECK_DEADLOCK FALSE
