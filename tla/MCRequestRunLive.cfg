SPECIFICATION FairSpec
CONSTANTS
    Req = req
    Worker = {w1, w2}
    Modes = {"queue", "inline", "stream"}
    Api = api
    MaxAttempts = 2
    MaxRetries = 1
    MaxFaults = 1
    Faults = {"transient", "permanent", "crash"}
INVARIANT NoStrandedRequest
PROPERTY EveryRequestEnds
CHECK_DEADLOCK FALSE
