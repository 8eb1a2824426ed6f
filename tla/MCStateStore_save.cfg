SPECIFICATION FairSpec
CONSTANTS
    Position = {0, 1, 2}
    Fresh = 0
    Absent = Absent
    Torn = Torn
    Faults = {"io", "crash", "power"}
    MaxFaults = 4
INVARIANTS
    TypeOK
    SaveAtomic
PROPERTIES
    ImplementsAtomicSave
    Restarts
CHECK_DEADLOCK FALSE
