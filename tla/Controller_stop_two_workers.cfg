SPECIFICATION FairSpec
CONSTANTS
    Events = {e1}
    Workers = {w1, w2}
    NoEvent = NoEvent
    MaxRetry = 0
    ChanCap = 1
    MaxSends = 0
PROPERTY StopTerminates
CHECK_DEADLOCK FALSE
