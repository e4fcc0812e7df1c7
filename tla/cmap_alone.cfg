SPECIFICATION Spec
CONSTANTS
    Services = {s1, s2}
    IPs = {i1, i2}
    Nodes = {n1, n2}
    Workers = {w1, w2}
    Nil = Nil
    Disturbances = {"call", "crash", "node", "skip"}
    MaxFaults = 1
CONSTRAINT NoneMet
SYMMETRY Symmetry
INVARIANTS TypeOK AloneCompletedIsSaved
PROPERTIES WritesItsChange
