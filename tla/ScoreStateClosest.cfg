CONSTANTS
  None = None
  AccSteps = 8
  Modes = {"osu"}
  Beatmap <- MCBeatmap
  Requests <- MCRequests
  Accuracies <- MCAccuracies
  Misses <- MCMisses
  Passed <- MCPassed
  MaxChanges = 0
SPECIFICATION Spec
INVARIANT ClosestGuarantee
CHECK_DEADLOCK FALSE
