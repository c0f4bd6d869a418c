SPECIFICATION FairSpec
CONSTANTS
  Tasks = {t1}
  DedupeKeys = {d1}
  ExclusiveKeys = {}
  ClaimLimit = 2
  None = None
  KindLimit <- OnePerKind
  GlobalLimit = 2
  MaxFailures = 1
  MaxInterruptions = 1
  Endings = {"complete", "silent", "spawn", "reschedule", "retryable", "fatal"}
  Requests = {"keyed", "drop", "cancel", "update"}
PROPERTY
  RestartResumes
CHECK_DEADLOCK FALSE
