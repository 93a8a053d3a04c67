SPECIFICATION Spec
CONSTANTS
  N = 3
  Fragmented = {0}
  Fragments = 2
  Unwritable = {1}
  MaxBuffer = 3
  MaxWait = 3
  MaxDatagrams = 6
INVARIANTS TypeOK DirectInOrder ToleratesReordering NothingThrownAway NoWriteAfterClose
PROPERTY FinalizeReturns
CHECK_DEADLOCK FALSE
