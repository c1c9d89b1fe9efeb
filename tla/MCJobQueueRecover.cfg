SPECIFICATION Spec
CONSTANTS
  Job = {j1}
  Proc = {p1, p2}
  Operator = {}
  Free = Free
  MaxRedeliveries = 1
  MaxRequeues = 0
  MaxCrashes = 0
  Faults = {}
INVARIANT ClaimIsRecoverable
