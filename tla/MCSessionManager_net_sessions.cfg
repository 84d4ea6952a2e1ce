SPECIFICATION Spec
CONSTANTS
  InitialCount = 0
  MaxBlocks = 2
  MaxSessions = 1
  Workers = {w1,w2}
  Callers = {c1, c2}
  MaxSockets = 1
  MaxConns = 2
  MaxOvs = 4
  MaxMessages = 3
  ClientsSend = TRUE
  CallsMayFail = TRUE
  AssocMayFail = TRUE
  Acts = {"send", "close", "destroy"}
INVARIANTS OnePlace ManagerAgrees Fifo OneSend SendAlive FreeIsClosed
SYMMETRY Symmetry
CHECK_DEADLOCK FALSE
CONSTRAINT Scope
