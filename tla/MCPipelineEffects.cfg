SPECIFICATION Spec
CONSTANTS
    Worker = {w1, w2}
    MaxAttempts = 2
    MaxRuns = 3
    Faults = {"transient", "permanent", "lost", "crash", "overlap"}
SYMMETRY Symmetry
INVARIANTS TypeOK RecordClaimsHappened RepliesBounded TicketsBounded
CHECK_DEADLOCK FALSE
