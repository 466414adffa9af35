SPECIFICATION Spec
CHECK_DEADLOCK FALSE
CONSTANTS
  DayHours = 2
  Order <- MCOrder
  Capacity = 1
  Sessions = {s1, s2}
  Batch = 1
  MaxEvents = 2
  Bounds <- MCBounds
INVARIANTS
  TypeOK
  ClosedIsListed
  OpenFilesAreOld
PROPERTIES
  OldestDayFirst
  RecordedFileLast
  SearchComplete
  SpaceIsFreed
