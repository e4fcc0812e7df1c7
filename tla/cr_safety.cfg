SPECIFICATION MCSpec
CONSTANTS
    Services = {s1, s2}
    IPs = {i1, i2}
    Nodes = {n1, n2}
    Specs = {p1, p2}
    Workers = {w1, w2}
    Nil = Nil
    Disturbances = {"call", "crash", "node", "spec"}
    MaxFaults = 1
CONSTRAINTS UpToDate QueuedOnce
SYMMETRY Symmetry
INVARIANTS TypeOK CompletedIsAdvertised GoneLeavesNothing
PROPERTIES LosesOnlyItsOwn
