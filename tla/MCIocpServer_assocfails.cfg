SPECIFICATION Spec
CONSTANTS
  NumBuffers = 2
  MaxSessions = 1
  Workers = {w1, w2}
  Apps = {a1}
  NoThread = none
  MaxSockets = 3
  MaxSends = 0
  CallsMayFail = FALSE
  ClientsArrive = TRUE
  Enders = {"peer"}
  AssocMayFail = TRUE
  MayStop = FALSE
INVARIANT NoDuplicateFree
SYMMETRY Symmetry
CHECK_DEADLOCK FALSE
