SPECIFICATION MCSpec
CONSTANTS
    Kubernetes = Kubernetes
    Others = {web}
    Deployments = {{"eip"}, {"lb"}, {"eip", "lb"}}
    ServersPorts = {2, 3}
    OwnPort = 1
    PortSettings = {0, 4}
    EIPs = {a, b}
    Nil = Nil
    FirstPort = 2
    SecondAddress = b
    Disturbances = {"call", "crash", "missed", "delete", "edit"}
    MaxFaults = 1
    MaxChanges = 2
CONSTRAINT UndisturbedBoth
INVARIANTS TypeOK RestsConsistent
PROPERTIES NeverGoesBack EventuallyMirrored EventuallyServed
