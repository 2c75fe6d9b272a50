SPECIFICATION MCSpec
CONSTANTS
    i1 = i1
    i2 = i2
    v1 = v1
    v2 = v2
    n1 = n1
    n2 = n2
    s1 = s1
    s2 = s2
    Deployments = {d1, d2}
    Rollouts = {r1}
    Identities = {i1, i2}
    Envs = {v1, v2}
    Specs <- SomeSpecs
    NoIdentity = NoIdentity
    NoSpec = NoSpec
    NoWorkload = NoWorkload
    MaxChanges = 3
    QueueCap = 2
    Names <- SomeNames
    MaxStarts = 2
    ServiceQueueCap = 2
    Threads = {t1, t2, t3}
    Clusters = {c1}
    Maps = {m1, m2, m3}
    NoMap = NoMap
    NoKey = NoKey
INVARIANTS
    OnlyOrphansLinger
    OwnIdentityIsKnown
    ServicesFollow
    StaleMapIsEmpty
PROPERTIES
    ResyncRestores
    ImplementsAtomicCache
CHECK_DEADLOCK FALSE
