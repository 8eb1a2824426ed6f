SPECIFICATION Spec
CONSTANTS
    NEvents = 4
    Lsn <- LsnMixed
    ChanCap = 2
    PublishBatch = 2
    Inserts = {2}
    Invalid = {4}
    FailureThreshold = 2
    BatchSize = 2
    MaxAttempts = 2
    SignalAware = TRUE
    Faults = {"crash", "link", "cloud", "commit", "subscribe", "disk", "sigterm", "timeout"}
    MaxFaults = 3
INVARIANTS
    TypeOK
    NoHoleInSession
    PositionCovered
    ProbeSettled
    NilOnlyWhileClosing
PROPERTIES
    NoLossWhileRunning
    ImplementsInOrderDelivery
CHECK_DEADLOCK FALSE
