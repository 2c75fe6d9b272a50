SPECIFICATION Spec
CONSTANTS
    Events = {e1, e2}
    Workers = {w1, w2}
    NoEvent = NoEvent
    MaxRetry = 1
    ChanCap = 1
    MaxSends = 1
SYMMETRY Symmetry
INVARIANTS
    TypeOK
    ExclusiveRun
    RetriesBounded
    StoppedMeansDrained
    BacklogHandled
    FirstRunsInOrder
PROPERTIES
    GiveUpIsFinal
    ImplementsLifecycle
CHECK_DEADLOCK FALSE
