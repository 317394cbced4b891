SPECIFICATION Spec
CONSTANTS
  N = 7
  Elements <- MCElements
  Default = 0
  NaN = NaN
  Scenarios <- MCScenarios
  Jobs <- MCJobs
  Limits <- MCLimits
CHECK_DEADLOCK FALSE
INVARIANTS
  SortsSort
  MoreObjectsStaySuspicious
  ModsKeepNotesApart
  ReflectionOnlyMoves
  StacksDoNotOverlap
  HitSoundsFollow
  TaikoGroupsPartition
  StrainsFollowTheMap
  PalpablesAreCounted
  EveryNoteFitsTheStage
  DensityOfLatest
PROPERTIES
  FastNotesDoNotStack
  HoldsLatest
