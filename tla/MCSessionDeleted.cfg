SPECIFICATION Spec
CONSTANTS
  PacketKinds <- AllKinds
  MaxPackets = 2
  HeadLen = 2
  ReadSize = 4
  Capacity = 9
  Garbage = Garbage
  MayFailWrite = FALSE
  MayClose = TRUE
INVARIANT NothingAfterShutdown
CHECK_DEADLOCK FALSE
