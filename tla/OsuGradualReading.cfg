SPECIFICATION Spec
CONSTANTS
  None = None
  MaxObjects = 3
  MaxScored = 4
  PassedObjects = {9}
  Skips = {0, 1}
INVARIANTS
  ReadingAgreesWithRegular
