SPECIFICATION FairSpec
CONSTANTS
  Linked = {"MD"}
  HourLen = 3
  DayLen = 4
  DayNumber <- TiedDays
  MaxTime = 5
  MinDelay = 1
  RecDelay = 2
  JumpLen = 1
INVARIANTS
  TypeOK
  FilesExclusive
  FileOfTheHour
PROPERTIES
  KindStableWhileWriting
  ErrorIsFinal
  HandshakeEnds
  KeepsRecording
  ErrorEndsRecording
