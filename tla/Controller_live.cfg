SPECIFICATION FairSpec
CONSTANTS
    Events = {e1, e2}
    Workers = {w1}
    NoEvent = NoEvent
    MaxRetry = 1
    ChanCap = 1
    MaxSends = 0
PROPERTIES
    PickedIsProcessed
    WaitingIsRun
    StopTerminates
CHECK_DEADLOCK FALSE
