SPECIFICATION FairSpec
CONSTANTS
  NumWorkers = 2
  Prepost = 2
  Owner = owner
  Others = {app}
  MaxStarts = 2
INVARIANTS PortKept ReportedOnce StoppedIsClosed
PROPERTY StopReturns
CHECK_DEADLOCK FALSE
