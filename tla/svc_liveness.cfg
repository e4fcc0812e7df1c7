SPECIFICATION FairSpec
CONSTANTS
    Services = {s1, s2}
    IPs = {i1, i2}
    NoIP = NoIP
    Nobody = Nobody
    Other = Other
    Workers = 1
    PoolByName = FALSE
    Disturbances = {"call", "crash", "other"}
    MaxFaults = 3
INVARIANTS MapsReserved
PROPERTIES DeletionEnds EventuallyServed
