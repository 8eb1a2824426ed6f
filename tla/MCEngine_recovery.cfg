SPECIFICATION FairSpec
CONSTANTS
    NEvents = 3
    Lsn <- LsnPairs
    ChanCap = 1
    PublishBatch = 1
    Inserts = {}
    Invalid = {}
    FailureThreshold = 2
    BatchSize = 2
    MaxAttempts = 2
    SignalAware = FALSE
    Faults = {"cloud", "sigterm", "link", "crash"}
    MaxFaults = 3
PROPERTIES
    EventuallyReplicated
    ShutdownCompletes
CHECK_DEADLOCK FALSE
