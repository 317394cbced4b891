SPECIFICATION Spec
CONSTANTS
  None = None
  NaN = NaN
  NoLetter = NoLetter
  Empty = Empty
  Unreadable = Unreadable
  MaxLines = 4
  Contents <- MCContents
INVARIANTS
  ActivePointsAreThoseOfTheFile
  TimingChangesAreKept
  SoundsFollowTheirObjects
  SlidersKeepTheirPaths
  ApproachRateFollowsOverallDifficulty
CHECK_DEADLOCK FALSE
