SPECIFICATION Spec
CONSTANTS
    Nodes = {n1, n2}
    Nobody = Nobody
    TTL = 3
    Second = 1
    MaxSkew = 0
INVARIANTS
    Mutex
