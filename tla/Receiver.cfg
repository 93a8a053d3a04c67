SPECIFICATION Spec
CONSTANTS
  Streams <- MCStreams
  Symbols <- MCSymbols
  K = 2
  N = 2
  QueueCap = 2
  MaxArrivals = 4
INVARIANTS TypeOK OneOwner ReportedOnce DecodedFromEnough
PROPERTY EnoughIsReported
CHECK_DEADLOCK FALSE
