SPECIFICATION FairSpec
CONSTANTS
  Tasks = {t1, t2, t3}
  DedupeKeys = {d1}
  ExclusiveKeys = {}
  ClaimLimit = 1
  None = None
  KindLimit <- TwoWatchers
  GlobalLimit = 1
  MaxFailures = 1
  MaxInterruptions = 0
  Endings = {"complete", "spawn"}
  Requests = {}
INVARIANT
  HandlersWithinLimits
PROPERTY
  TerminalIsPurged
CHECK_DEADLOCK FALSE
