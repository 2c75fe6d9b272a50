SPECIFICATION MCSpec
CONSTANTS
    e1 = e1
    e2 = e2
    t1 = t1
    t2 = t2
    dns = dns
    w1 = w1
    w2 = w2
    w3 = w3
    a1 = a1
    a2 = a2
    seg = seg
    other = other
    TrafficConfigs <- TwoEnvironments
    Paths <- SmallPaths
    NoGroup = NoGroup
    NoDNS = NoDNS
    NoHost = NoHost
    NoRoute = NoRoute
    AnyHost = AnyHost
    QuotaGroups <- AllQuotaGroups
    NoQuotaGroup = NoQuotaGroup
    Calls <- SmallCalls
    Workloads <- SmallWorkloads
    NoWorkload = NoWorkload
    NoLabel = NoLabel
    Env = e1
    Unparsable = Unparsable
    ArgoRolloutsEnabled = TRUE
    Words <- SmallWords
    Operators <- SmallOperators
    Unescaped <- SmallUnescaped
    Colon = Colon
    AllPorts = AllPorts
    Wrap = 8
    MaxChanges = 2
INVARIANT RoutesOfEnvironment
CHECK_DEADLOCK FALSE
