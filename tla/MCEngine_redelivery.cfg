SPECIFICATION FairSpec
CONSTANTS
    NEvents = 3
    Lsn <- LsnSingles
    ChanCap = 2
    PublishBatch = 3
    Inserts = {1, 2, 3}
    Invalid = {}
    FailureThreshold = 2
    BatchSize = 2
    MaxAttempts = 3
    SignalAware = TRUE
    Faults = {"sigterm"}
    MaxFaults = 1
PROPERTIES
    EventuallyReplicated
CHECK_DEADLOCK FALSE
