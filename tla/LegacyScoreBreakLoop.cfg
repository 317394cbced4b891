SPECIFICATION FairSpec
CONSTANTS
  Maps <- AllMaps
  GridPoints = 3
  Difficulties = {12}
  I32Max = 100000
PROPERTIES
  ObjectsInBreaksAreHandled
CHECK_DEADLOCK FALSE
