SPECIFICATION FairSpec
CONSTANTS
    Nodes = {n1, n2}
    Slow = {n2}
    Bare = {n2}
    Founders = {n2}
    Disturbances = {"call", "crash", "race"}
    MaxFaults = 1
    MaxChanges = 1
CHECK_DEADLOCK FALSE
INVARIANTS TypeOK  
PROPERTIES DeletedWithItsDevice EventuallyServed
CONSTRAINT OneOfTwo
