SPECIFICATION SideSpec
CONSTANTS
  Streams <- MCStreams
  Symbols <- MCSymbols
  K = 1
  N = 2
  PacketCap = 1
  QueueCap = 1
  MaxPending = 2
  MaxArrivals = 3
INVARIANT HandedOverWasReceived
PROPERTIES NoReportAfterStop ReceivedIsDelivered
CHECK_DEADLOCK FALSE
