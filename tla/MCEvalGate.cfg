SPECIFICATION Spec
CONSTANTS
    Type = {billing, technical_support, other}
    Guardrails <- Regressions
    MaxCases = 3
    MinAccuracy <- TwoThirds
    MinGuardrail <- One
SYMMETRY Symmetry
INVARIANTS MacroIsMeanDice NothingSkipped PassMeansGuarded
CHECK_DEADLOCK FALSE
