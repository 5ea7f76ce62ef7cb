CONSTANTS
    QueueSize = 2
    MaxRecords = 1
    BatchSize = 2
    FallbackEnabled = TRUE
    Faults = {}
    MaxRestarts = 0
    TickTime <- MCTickTime
SPECIFICATION FairSpec
PROPERTY OutageIsCovered
