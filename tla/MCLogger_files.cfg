SPECIFICATION FairSpec
CONSTANTS
  Producers = {p1, p2}
  RotateLines = 2
  KeepFiles = 1
  MaxRecords = 5
  MaxInits = 2
  Levels = {"info", "fatal"}
  RenameMayFail = TRUE
INVARIANTS TypeOK Retained FatalDurable ShutdownComplete
PROPERTIES ShutdownReturns AllWritten
CHECK_DEADLOCK FALSE
