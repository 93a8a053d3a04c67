SPECIFICATION Spec
CONSTANTS
  Modes = {"start"}
  MaxStarts = 3
  MaxDatagrams = 2
PROPERTY StartReturns
CHECK_DEADLOCK FALSE
