SPECIFICATION GradualSpec
CONSTANTS
  None = None
  MaxObjects = 0
  MaxScored = 1
  PassedObjects = {9}
  Skips = {0, 1}
  Modes = {"taiko"}
  MaxHits = 4
  MaxRecorded = 0
  MaxNotes = 0
  TaikoMaps <- MapsOfHits
  CatchMaps <- RecordedMaps
  ManiaMaps <- MapsOfNotes
INVARIANTS
  LenNeverUnderflows
