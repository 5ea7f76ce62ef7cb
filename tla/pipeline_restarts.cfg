CONSTANTS
    QueueSize = 2
    MaxRecords = 2
    BatchSize = 1
    FallbackEnabled = TRUE
    Faults = {"nats", "malformed"}
    MaxRestarts = 1
    TickTime <- MCTickTime
SPECIFICATION DSpec
INVARIANT PublishedInArrivalOrder
PROPERTIES
    PersistedWerePublished
    FeedSpec
