SPECIFICATION Spec
CONSTANTS
    Job = {j1, j2}
    Worker = {w1, w2}
    Free = Free
    Settings <- AllSettings
    Interval = 2
    SweepTime = 1
    MaxRedeliveries = 1
    MaxCrashes = 1
SYMMETRY Symmetry
INVARIANTS TypeOK PagesBounded
PROPERTIES AlertedBeforeReaped SilentWhenReapedFirst
