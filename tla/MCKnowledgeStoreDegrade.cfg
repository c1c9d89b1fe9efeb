SPECIFICATION Spec
CONSTANTS
    Server = {s1}
    Seeder = {k1}
    Request = {r1}
    Doc = {d1}
    ModelSize = 768
    SandboxSize = 16
    Deployments <- Documented
    MaxAttempts = 3
    Faults = {"llm"}
INVARIANT FailoverKeepsRuns
CHECK_DEADLOCK FALSE
