CONSTANTS
  Tasks = {t1, t2}
  SubmitKeys = {k1}
  MonitorKeys = {m1}
  h1 = h1
  p1 = p1
  DedupeKeys = {k1, m1, h1}
  ExclusiveKeys = {h1}
  ClaimLimit = 10
  None = None
  Calls = {c1, c2}
  Paths = {p1}
  Policies <- NothingAllowed
  DefaultPolicy <- Off
  ContentPath <- FilesAtP1
  MaxResolutionAttempts = 2
  MaxFailures = 2
  MaxCrashes = 1
SPECIFICATION Spec
SYMMETRY PipelineSymmetry
INVARIANTS
  OneMonitorPerTorrent SubmittedOnce
CHECK_DEADLOCK FALSE
