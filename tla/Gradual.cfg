SPECIFICATION GradualSpec
CONSTANTS
  None = None
  MaxObjects = 6
  MaxScored = 7
  PassedObjects = {0, 2, 9}
  Skips = {0, 1, 2, 4, 9}
  Modes = {"osu", "taiko", "catch", "mania"}
  MaxHits = 6
  MaxRecorded = 5
  MaxNotes = 4
  TaikoMaps <- MapsOfHits
  CatchMaps <- RecordedMaps
  ManiaMaps <- MapsOfNotes
INVARIANTS
  TypeOK
  AgreesWithRegular
  NthsAreRepeatedNexts
  LensTellAnswers
  PerformanceCountsItsObjects
PROPERTIES
  ExhaustedCallsChangeNothing
  ImplementsIterator
  ModesImplementIterator
  IterationsEnd
