SPECIFICATION SlotSpec
CONSTANTS
  NumBuffers = 4
  MaxSessions = 1
  Workers = {w1, w2}
  Apps = {a1, a2}
  NoThread = none
  MaxSockets = 2
  MaxSends = 2
  CallsMayFail = TRUE
  ClientsArrive = FALSE
  Enders = {"peer", "app", "handler"}
  AssocMayFail = FALSE
  MayStop = FALSE
INVARIANTS Fifo OneSend SendAlive OneReceiver ReceiveAlive NoAliasing
SYMMETRY Symmetry
CHECK_DEADLOCK FALSE
CONSTRAINT Scope
