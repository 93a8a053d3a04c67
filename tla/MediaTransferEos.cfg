SPECIFICATION Spec
CONSTANTS
  Source <- MCSource
  N = 2
  QueueCap = 2
  MaxWaiting = 1
  Window = 3
PROPERTIES EosSurvivesALoss
CHECK_DEADLOCK FALSE
