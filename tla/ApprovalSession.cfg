CONSTANTS
  Calls = {c1, c2}
  Approvals = {a1, a2}
  Downloads = {a1}
  Events = {e1}
  MaxItems = 1
  MaxBatch = 1
  MaxFaults = 1
  MaxOverwrites = 1
  None = None
SPECIFICATION Spec
SYMMETRY CallSymmetry
INVARIANTS
  TypeOK PendingHasItsLoop ExecutedOnceButForFaults DecisionsAreTrue ItemsWithinGrants InjectedEventsWereTold
PROPERTIES
  DecisionsStand
CHECK_DEADLOCK FALSE
