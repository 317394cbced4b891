CONSTANTS
  None = None
  AccSteps = 8
  Modes = {"catch"}
  Beatmap <- MCBeatmap
  Requests <- MCRequests
  Accuracies <- MCAccuracies
  Misses <- MCMisses
  Passed <- MCPassed
  MaxChanges = 0
SPECIFICATION Spec
INVARIANT StateIsUsed
CHECK_DEADLOCK FALSE
