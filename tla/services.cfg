CONSTANTS
    Services = {"market-service", "execution-service"}
    Subjects <- MCSubjects
    Upstreams <- MCUpstreams
    Versions = {"v1", "v2"}
    MaxPending = 1
SPECIFICATION FairSpec
INVARIANTS
    TypeOK
    OrdersComeFromExecution
    NatsOutlivesPipeline
    HealthyWasSeen
PROPERTIES
    LostOnlyOffline
    HealthIsAnswered
