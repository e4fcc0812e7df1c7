SPECIFICATION FairSpec
CONSTANTS
    Kubernetes = Kubernetes
    Others = {web}
    Deployments = {{"eip"}, {"lb"}}
    ServersPorts = {2, 3}
    OwnPort = 1
    PortSettings = {0}
    EIPs = {a}
    Nil = Nil
    Disturbances = {}
    MaxFaults = 0
    MaxChanges = 1
PROPERTY EndpointsIdentical
