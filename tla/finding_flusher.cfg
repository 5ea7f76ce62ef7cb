CONSTANTS
    QueueSize = 2
    MaxRecords = 2
    BatchSize = 2
    FallbackEnabled = TRUE
    Faults = {"db"}
    MaxRestarts = 0
    TickTime <- MCTickTime
SPECIFICATION FairSpec
PROPERTY BufferIsFlushed
