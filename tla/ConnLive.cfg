SPECIFICATION FairSpec
CONSTANTS
  MAX_SEQUENCE = 5
  PacketChunks = 1
  BufferSlots = 2
  Window = 2
  Lifetime = 4
  MaxInFlight <- FewAcks
  MaxSent <- SentToArrive
  Failures = {"timeout", "drop"}
PROPERTIES EverythingArrives BothEnd
CHECK_DEADLOCK FALSE
