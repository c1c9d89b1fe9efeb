SPECIFICATION Spec
CONSTANTS
    Job = {j1}
    Proc = {p1, p2}
    Operator = {o1}
    Free = Free
    MaxRedeliveries = 0
    MaxRequeues = 1
    MaxCrashes = 1
    Faults = {"crash", "midMove", "stop", "raise", "redis", "overrun"}
SYMMETRY Symmetry
INVARIANT SingleCopy
PROPERTY RefinesAtLeastOnce
