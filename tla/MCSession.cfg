SPECIFICATION FairSpec
CONSTANTS
  PacketKinds <- AllKinds
  MaxPackets = 3
  HeadLen = 2
  ReadSize = 3
  Capacity = 6
  Garbage = Garbage
  MayFailWrite = TRUE
  MayClose = TRUE
INVARIANT TypeOK
INVARIANT InOrder
INVARIANT RepliesExact
PROPERTY Served
PROPERTY CallbackReturns
CHECK_DEADLOCK FALSE
