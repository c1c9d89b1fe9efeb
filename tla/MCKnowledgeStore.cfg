SPECIFICATION Spec
CONSTANTS
    Server = {s1, s2}
    Seeder = {k1, k2}
    Request = {r1, r2}
    Doc = {d1, d2}
    ModelSize = 768
    SandboxSize = 16
    Deployments <- AllDeployments
    MaxAttempts = 2
    Faults = {"llm", "refused", "qdrant", "crash"}
SYMMETRY Symmetry
INVARIANTS TypeOK NoMixedSpaces
PROPERTIES PointsStay SeededIsFound
