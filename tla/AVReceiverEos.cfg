SPECIFICATION Spec
CONSTANTS
  N = 2
  Fragmented = {0}
  Fragments = 2
  Unwritable = {}
  MaxBuffer = 3
  MaxWait = 3
  MaxDatagrams = 3
INVARIANT StartCompletesFile
CHECK_DEADLOCK FALSE
