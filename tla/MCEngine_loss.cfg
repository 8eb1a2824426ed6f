SPECIFICATION Spec
CONSTANTS
    NEvents = 3
    Lsn <- LsnSingles
    ChanCap = 2
    PublishBatch = 2
    Inserts = {}
    Invalid = {}
    FailureThreshold = 2
    BatchSize = 2
    MaxAttempts = 3
    SignalAware = TRUE
    Faults = {"sigterm"}
    MaxFaults = 1
INVARIANTS
    NoAckedEventLost
CHECK_DEADLOCK FALSE
