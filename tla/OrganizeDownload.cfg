CONSTANTS
  Tasks = {t1, t2, t3, t4}
  SubmitKeys = {}
  MonitorKeys = {m1, m2}
  h1 = h1
  p1 = p1
  DedupeKeys = {m1, m2, h1}
  ExclusiveKeys = {h1}
  ClaimLimit = 10
  None = None
  Calls = {}
  Paths = {p1}
  Policies <- ThreePolicies
  DefaultPolicy <- Off
  ContentPath <- FilesAtP1
  MaxResolutionAttempts = 1
  MaxFailures = 1
  MaxCrashes = 0
SPECIFICATION Spec
SYMMETRY PipelineSymmetry
INVARIANTS
  OneOrganizerPerTorrent
  MovesAreAuthorized
CHECK_DEADLOCK FALSE
