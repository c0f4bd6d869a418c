CONSTANTS
  ToolObjects = {search}
  FunctionTools = {calc}
  Filters = {{}}
  Window = 3
  MinRetainRounds = 1
  SaveInterval = 4
  MaxSteps = 2
  SubagentSteps = 2
  MaxTurns = 2
  Tracing = TRUE
  MaxRound = 2
  MaxConcurrent = 2
  MaxToolIterations = 1
  MaxIterations = 1
  MaxPlan = 2
  None = None
SPECIFICATION FairSpec
INVARIANTS
  EveryCallAnswered EventsWellFormed AnswersAreFinal RecentRoundsKept
  NoToolIsLost
PROPERTY
  TurnEnds
CHECK_DEADLOCK FALSE
