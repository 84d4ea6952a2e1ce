SPECIFICATION FairSpec
CONSTANTS
 NumBuffers = 2
 MaxSessions = 1
 Workers = {w1, w2}
 Apps = {a1}
 NoThread = none
 MaxSockets = 2
 MaxSends = 1
 CallsMayFail = FALSE
 ClientsArrive = TRUE
 Enders = {"peer"}
 AssocMayFail = TRUE
 MayStop = TRUE
PROPERTY StopReturns
CHECK_DEADLOCK FALSE
