SPECIFICATION Spec
CONSTANTS
  Source <- MCSource
  N = 2
  QueueCap = 2
  MaxWaiting = 1
  Window = 3
INVARIANTS TypeOK FileIsInOrder EosMeansComplete PausesEarlyEnough
PROPERTIES TransferCompletes
CHECK_DEADLOCK FALSE
