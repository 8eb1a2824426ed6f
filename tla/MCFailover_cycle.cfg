SPECIFICATION FairSpec
CONSTANTS
    Sessions = {s1}
    Self = local
    Others = {cloud}
    Nobody = Nobody
    Exempt = {TRUE}
    Faults = {}
    MaxFaults = 0
PROPERTY
    SomePromiseKept
