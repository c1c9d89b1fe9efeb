SPECIFICATION FairSpec
CONSTANTS
    Job = {j1}
    Proc = {p1, p2}
    Operator = {o1}
    Free = Free
    MaxRedeliveries = 1
    MaxRequeues = 0
    MaxCrashes = 1
    Faults = {"crash", "overrun"}
INVARIANTS TypeOK NoJobLost PoisonBound
PROPERTIES CounterKeptUntilParked RefinesAtLeastOnce FinishedOrParked ProcessingDrains
