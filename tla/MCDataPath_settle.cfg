SPECIFICATION FairSpec
CONSTANTS
  NumBuffers = 3
  MaxSessions = 1
  Workers = {w1, w2}
  Apps = {a1}
  NoThread = none
  MaxSockets = 2
  MaxSends = 2
  CallsMayFail = FALSE
  ClientsArrive = FALSE
  Enders = {"peer", "app", "handler"}
  AssocMayFail = FALSE
  MayStop = FALSE
PROPERTIES AllSent Recycled
CHECK_DEADLOCK FALSE
