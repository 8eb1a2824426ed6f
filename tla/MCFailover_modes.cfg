SPECIFICATION FairSpec
CONSTANTS
    Sessions = {s1, s2}
    Self = local
    Others = {cloud1, cloud2}
    Nobody = Nobody
    Exempt = {TRUE, FALSE}
    Faults = {"lock", "db", "crash"}
    MaxFaults = 3
INVARIANTS
    TypeOK
    ReadOnlyExplained
PROPERTIES
    ModeFollowsHolderRead
    CloudWins
    LocalRestored
