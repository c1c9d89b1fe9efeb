SPECIFICATION FairSpec
CONSTANTS
    Call = {c1, c2, c3}
    Limit = 2
    Window = 2
    MaxCount = 4
    MaxOpened = 2
    Faults = {"crash", "redis"}
INVARIANTS TypeOK AdmittedBounded
PROPERTY WindowCloses
