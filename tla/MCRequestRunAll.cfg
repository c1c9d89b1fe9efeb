SPECIFICATION Spec
CONSTANTS
    Req = req
    Worker = {w1, w2}
    Modes = {"queue", "inline", "stream"}
    Api = api
    MaxAttempts = 2
    MaxRetries = 1
    MaxFaults = 1
    Faults = {"transient", "permanent", "crash", "apiCrash", "early", "db", "redis"}
SYMMETRY Symmetry
INVARIANTS TypeOK StatusHasCheckpoint ArtifactsOnce CostMatchesLog RunsBounded 
PROPERTIES ReportFollowsStatus OutcomeIsFinal
CHECK_DEADLOCK FALSE
