CONSTANTS
  Tools = {search, add, hidden, move}
  Visible = {search, add, move}
  Denied = {move}
  Confirmed = {add}
  MaxSteps = 2
  MinRetainRounds = 1
  FailureThreshold = 2
  MaxRound = 2
  MaxIds = 7
  None = None
SPECIFICATION FairSpec
INVARIANTS
  ModelInputIsWellFormed CheckpointIsResumable ReportsAreTrue RestsAfterFailures
PROPERTIES
  TranscriptOnlyGrows TurnsEnd
CHECK_DEADLOCK FALSE
