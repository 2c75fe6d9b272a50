SPECIFICATION Spec
CONSTANTS
    c1 = c1
    c2 = c2
    Identities = {server, client}
    Clusters = {c1, c2}
    Configured = {server}
    MixedCase = {client}
    NoIdentity = NoIdentity
    NoCluster = NoCluster
    MaxRevision = 2
    MaxWorkloads = 2
    MaxDependencies = 1
    MaxFaults = 0
PROPERTY CacheIsNotBehind
CHECK_DEADLOCK FALSE
