SPECIFICATION FairSpec
CONSTANTS
    Ports = {p1, p2}
    Nodes = {n1}
    Project = "project"
    Nil = Nil
    Overlap = FALSE
    Disturbances = {"crash", "delete"}
    MaxFaults = 1
    MaxChanges = 1
CHECK_DEADLOCK FALSE
PROPERTIES DeletionEnds
