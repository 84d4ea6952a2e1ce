SPECIFICATION Spec
CONSTANTS
  NumBuffers = 2
  MaxSessions = 1
  Workers = {w1, w2}
  Apps = {a1, a2}
  NoThread = none
  MaxSockets = 3
  MaxSends = 0
  CallsMayFail = TRUE
  ClientsArrive = TRUE
  Enders = {"peer", "app", "handler"}
  AssocMayFail = FALSE
  MayStop = FALSE
INVARIANTS TypeOK PoolIntegrity FreeIsClean SocketsKept NotifiedOnce
PROPERTY Lifecycle
SYMMETRY Symmetry
CHECK_DEADLOCK FALSE
