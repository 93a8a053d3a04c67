SPECIFICATION Spec
CONSTANTS
  p1 = p1
  p2 = p2
  Producers <- MCProducers
  Cap = 2
  BatchSizes <- MCBatchSizes
  MaxPush = 2
INVARIANTS
  NoLostWakeup
  HandledInPushOrder
PROPERTIES
  Implements
  PushedIsHandled
  BusyLoopBreaks
CHECK_DEADLOCK FALSE
