SPECIFICATION Spec
CONSTANTS
  Tasks = {t1, t2}
  DedupeKeys = {d1}
  ExclusiveKeys = {x1}
  ClaimLimit = 2
  None = None
  KindLimit <- OnePerKind
  GlobalLimit = 2
  MaxFailures = 2
  MaxInterruptions = 1
  Endings = {"complete", "silent", "spawn", "reschedule", "retryable", "fatal"}
  Requests = {"keyed", "drop", "cancel", "update"}
SYMMETRY TaskSymmetry
INVARIANTS
  KeysUnique
  ParentsPresent
  TypeOK
  InFlightIsRunning
  EndsAreAnnounced
  RunsAgree
PROPERTY
  LifecycleSpec
CHECK_DEADLOCK FALSE
