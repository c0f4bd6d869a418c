CONSTANTS
  Tasks = {t1, t2, t3}
  SubmitKeys = {}
  MonitorKeys = {m1, m2}
  h1 = h1
  p1 = p1
  DedupeKeys = {m1, m2, h1}
  ExclusiveKeys = {h1}
  ClaimLimit = 10
  None = None
  Calls = {}
  Paths = {p1}
  Policies <- TwoPolicies
  DefaultPolicy <- Off
  ContentPath <- FilesAtP1
  MaxResolutionAttempts = 1
  MaxFailures = 2
  MaxCrashes = 0
SPECIFICATION Spec
PROPERTIES
  AnnouncedIsOrganized
CHECK_DEADLOCK FALSE
