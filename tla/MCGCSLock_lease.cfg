SPECIFICATION FairSpec
CONSTANTS
    Nodes = {n1, n2}
    Nobody = Nobody
    TTL = 5
    Second = 2
    MaxSkew = 1
INVARIANTS
    TypeOK
    MutexUnlessStale
PROPERTIES
    LiveLockKept
    DeadHolderReplaced
