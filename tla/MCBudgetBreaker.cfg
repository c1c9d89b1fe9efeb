SPECIFICATION Spec
CONSTANTS
    Slot = {s1, s2}
    Cap = 4
    Price = {1, 2}
    RunCalls = 4
    MaxDays = 1
    MaxSpend = 20
    Unlogged = {"failed", "embed", "stream", "late", "unpriced"}
SYMMETRY Symmetry
INVARIANTS TypeOK LogAccountsForCharges RecordedOverrunBounded
