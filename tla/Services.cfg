CONSTANTS
  Clients = {home, visitor}
  LocalClients = {home}
  Tokens = {t1, t2}
  MaxFailures = 2
  FailureWindow = 2
  SessionTtl = 2
  LocalTtl = 3
  MaxTime = 4
  Notes = {n1, n2}
  Requests = {r1, r2}
  Documents = {"knowledge"}
  None = None
  EventIds = {e1, e2}
  PageSize = 1
  ConsumedFor = 1
  MaxAge = 1
  LastTime = 4
  Files = {f1, f2}
  WorkerSteps = 2
  MaxBatch = 2
  OrganizeFailures = 2
SPECIFICATION Spec
INVARIANTS
  FailuresAreLimited
  LoggedOutStaysOut
  NotesAreKept
  PagesShowAll
  MovesFollowRules
  CountedAreSettled
SYMMETRY Symmetric
CHECK_DEADLOCK FALSE
