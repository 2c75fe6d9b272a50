SPECIFICATION FairSpec
CONSTANTS
    c1 = c1
    Workers = {w1}
    Secrets = {s1}
    Clusters = {c1}
    Data <- SharedData
    Kinds = {service}
    Matching <- OwnNames
    NoSecret = NoSecret
    NoCluster = NoCluster
    MaxEvents = 2
    MaxMissed = 0
    MaxFailures = 0
    MaxStarts = 3
PROPERTY StoppedWithSecret
CHECK_DEADLOCK FALSE
