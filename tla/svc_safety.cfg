SPECIFICATION Spec
CONSTANTS
    Services = {s1, s2}
    IPs = {i1, i2, i3}
    NoIP = NoIP
    Nobody = Nobody
    Other = Other
    Workers = 2
    PoolByName = FALSE
    Disturbances = {"call", "crash", "retype", "byo", "other"}
    MaxFaults = 3
SYMMETRY Symmetry
INVARIANTS TypeOK OneReservation NoOrphanReservation LeaksAreFailures
PROPERTIES ReleasedByOwner ImplementsReservations
