SPECIFICATION MCSpec
CONSTANTS
  Callers = {c1, c2, c3}
  Node = 0
  SeqSize = 2
  NodeSize = 2
  TimeSize = 8
  Epoch = 1
  FirstTime = 1
  LastTime = 4
  MaxIds = 4
  ClockStepsBack = TRUE
  MayRestart = TRUE
  InitialCount = 1
  MaxBlocks = 3
  Handles = {h1, h2, h3}
  Threads = {t1, t2}
  NoHandle = none
  Handlers = {w1, w2}
  MaxConns = 2
  MaxWrites = 2
  BlockBytes = 16
  LengthBytes = 2
  MaxData = 17
  MaxMessage = 40
INVARIANTS Increasing DecodesBack OneOwner Isolation Digest
CONSTRAINT Bounded
SYMMETRY Symmetry
CHECK_DEADLOCK FALSE
