SPECIFICATION SlotSpec
CONSTANTS
  NumBuffers = 3
  MaxSessions = 1
  Workers = {w1}
  Apps = {}
  NoThread = none
  MaxSockets = 2
  MaxSends = 0
  CallsMayFail = FALSE
  ClientsArrive = TRUE
  Enders = {}
  AssocMayFail = FALSE
  MayStop = FALSE
INVARIANT FreeIsAvailable
CHECK_DEADLOCK FALSE
