SPECIFICATION Spec
CONSTANTS
  c1 = c1
  c2 = c2
  Callers <- MCCallers
  RQ_blocks <- MCBlocks
  DataSize <- MCDataSize
  symbol_size = 2
  RepairPercent = 40
  N = 2
  QueueCap = 1
  IdSpace = 4
  MaxIds = 3
INVARIANTS TypeOK EveryIdHasOneFate EncodedIsDecodable DrainedStopLosesNothing
CHECK_DEADLOCK FALSE
