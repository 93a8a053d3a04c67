SPECIFICATION Spec
CONSTANTS
  Modes = {"start", "startAsync", "startReceiving"}
  MaxStarts = 3
  MaxDatagrams = 2
INVARIANT NoUseAfterFree
PROPERTY StopReturnsOnTraffic
CHECK_DEADLOCK FALSE
