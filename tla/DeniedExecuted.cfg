CONSTANTS
  Calls = {c1}
  Approvals = {a1, a2}
  Downloads = {a1}
  Events = {e1}
  MaxItems = 1
  MaxBatch = 1
  MaxFaults = 1
  MaxOverwrites = 0
  None = None
SPECIFICATION Spec
INVARIANT
  DeniedIsNotExecuted
CHECK_DEADLOCK FALSE
