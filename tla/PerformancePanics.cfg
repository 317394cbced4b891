SPECIFICATION Spec
CONSTANTS
  None = None
  Maps <- MCMaps
  Inputs <- MCInputs
  States <- MCStates
  Settings <- MCSettings
  MaxCombo = 4
  MaxCalls = 3
CHECK_DEADLOCK FALSE
INVARIANTS
  NeverPanics
