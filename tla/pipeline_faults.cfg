CONSTANTS
    QueueSize = 2
    MaxRecords = 3
    BatchSize = 2
    FallbackEnabled = TRUE
    Faults = {"db", "nats", "malformed"}
    MaxRestarts = 0
    TickTime <- MCTickTime
SPECIFICATION LifeSpec
INVARIANTS
    TypeOK
    FlushesAreDisjoint
    FallbackQuietInPrimary
    DegradedHasFallback
    PoolOpenWhileWriting
    NobodyWaitsInACircle
PROPERTIES
    LostOnlyByFailure
    OnlyFlusherRegresses
    StopAdvances
