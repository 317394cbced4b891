CONSTANTS
  None = None
  AccSteps = 8
  Modes = {"osu", "taiko", "catch", "mania"}
  Beatmap <- MCBeatmap
  Requests <- MCRequests
  Accuracies <- MCAccuracies
  Misses <- MCMisses
  Passed <- MCPassed
  MaxChanges = 1
SPECIFICATION Spec
INVARIANTS
  HitsAddUp
  Repeatable
  ClosestIsClosest
  PriorityOrders
  MoreAccuracyMoreScore
CHECK_DEADLOCK FALSE
