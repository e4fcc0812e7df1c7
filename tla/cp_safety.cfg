SPECIFICATION Spec
CONSTANTS
    Nodes = {n1, n2}
    NoNode = NoNode
    NoPort = NoPort
    ConfigPort = NoPort
    KubePorts = {p1, p2}
    UseHostIP = FALSE
    BadProviderID = {}
    Disturbances = {"call", "crash", "stop", "cordon", "delete", "operator", "port"}
    MaxFaults = 2
SYMMETRY Symmetry
INVARIANTS TypeOK SingleHolder
PROPERTIES MovesToLiveServer ImplementsElasticIP
CONSTRAINT ShortQueue
