SPECIFICATION Spec
CONSTANTS
  Base = 4
  MAGIC = 27
  DataSizes <- MCDataSizes
  video_extra = 0
  audio_extra = 4
  MAX_UDP_PAYLOAD = 30
  FRAGMENT_HEADER_SIZE = 16
  MaxFragments = 9
  MaxStarts = 2
INVARIANTS CountedIsComplete StopIsHeard
PROPERTY StopSaysGoodbye
CHECK_DEADLOCK FALSE
