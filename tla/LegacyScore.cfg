SPECIFICATION FairSpec
CONSTANTS
  Maps <- AllMaps
  GridPoints = 4
  Difficulties = {12, 22}
  I32Max = 600
INVARIANTS
  DrainAgrees
  ScoresAgree
PROPERTIES
  SimulationReturns
CHECK_DEADLOCK FALSE
