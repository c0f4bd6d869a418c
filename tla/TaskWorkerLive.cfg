SPECIFICATION FairSpec
CONSTANTS
  Tasks = {t1, t2}
  DedupeKeys = {d1}
  ExclusiveKeys = {}
  ClaimLimit = 1
  None = None
  KindLimit <- OnePerKind
  GlobalLimit = 2
  MaxFailures = 1
  MaxInterruptions = 0
  Endings = {"complete", "silent", "spawn", "reschedule", "retryable", "fatal"}
  Requests = {"keyed", "drop", "cancel", "update"}
PROPERTIES
  DueIsClaimed
  ClaimsEnd
CHECK_DEADLOCK FALSE
