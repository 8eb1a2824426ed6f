SPECIFICATION FairSpec
CONSTANTS
    Sessions = {s1}
    Self = local
    Others = {cloud}
    Nobody = Nobody
    Exempt = {FALSE}
    Faults = {}
    MaxFaults = 0
PROPERTY
    SetReadWriteRestores
