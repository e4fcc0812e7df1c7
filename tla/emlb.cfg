SPECIFICATION Spec
CONSTANTS
    Ports = {p1, p2}
    Nodes = {n1}
    Project = "project"
    Nil = Nil
    Overlap = FALSE
    Disturbances = {"call", "crash", "node", "ports", "delete"}
    MaxFaults = 1
    MaxChanges = 2
SYMMETRY Symmetry
CHECK_DEADLOCK FALSE
INVARIANTS TypeOK OneOrphanPerFault RestsBalanced
PROPERTIES KeepsServing
