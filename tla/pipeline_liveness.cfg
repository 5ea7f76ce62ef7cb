CONSTANTS
    QueueSize = 2
    MaxRecords = 2
    BatchSize = 2
    FallbackEnabled = TRUE
    Faults = {}
    MaxRestarts = 0
    TickTime <- MCTickTime
SPECIFICATION FairSpec
PROPERTIES
    StopCompletes
    EveryRecordPublished
    BufferIsFlushed
    AlwaysReconnects
INVARIANT CountersAreExact
