SPECIFICATION FairSpec
CONSTANTS
    c1 = c1
    Workers = {w1}
    Secrets = {s1, s2}
    Clusters = {c1}
    Data <- SharedData
    Kinds = {service, deployment}
    Matching <- OwnNames
    NoSecret = NoSecret
    NoCluster = NoCluster
    MaxEvents = 3
    MaxMissed = 1
    MaxFailures = 1
    MaxStarts = 5
INVARIANTS
    RunningIffCached
    StopChClosedOnce
    OwnerIsPresent
PROPERTY ResyncRestores
CHECK_DEADLOCK FALSE
