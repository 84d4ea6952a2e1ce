SPECIFICATION RecvSpec
CONSTANTS
  Bytes <- MCBytes
  Inputs <- MCInputs
  Capacity = 7
  HeaderLen = 2
  MaxPacket = 4
  MaxChunk = 4
  SizeFields = {1, 2, 3, 4, 5}
  NumPackets = 3
  MaxConnections = 2
INVARIANTS Reassembled NothingWaits NeverCutOff
CHECK_DEADLOCK FALSE
