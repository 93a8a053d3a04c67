SPECIFICATION Spec
CONSTANTS
  Streams <- MCStreams
  QueueCap = 2
  MaxPending = 2
INVARIANTS
  InOrder
  HeldIsAhead
  Accounted
  ReorderTolerance
  HeapBounded
PROPERTIES
  CompletePrefixDelivered
  Implements
CHECK_DEADLOCK FALSE
