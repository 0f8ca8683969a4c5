SPECIFICATION Spec
CONSTANTS
  MAX_SEQUENCE = 5
  PacketChunks = 2
  BufferSlots = 2
  Window = 2
  Lifetime = 4
  MaxInFlight <- FewAcks
  MaxSent <- SentToWrap
  Failures = {}
INVARIANTS TypeOK DeliveredInOrder NothingForgotten
PROPERTY ImplementsChannel
CHECK_DEADLOCK FALSE
