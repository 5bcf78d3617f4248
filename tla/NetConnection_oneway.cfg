SPECIFICATION Spec
CONSTANTS
  MaxSeq = 5
  BufferCap = 2
  PacketCap = 1
  Protected = {"server"}
  Window = 2
  NetCap = 2
  MaxMsgs <- OneWay
INVARIANTS SavedUntilDelivered SkippedWasDelivered
PROPERTIES AckForwards StreamSpec
CHECK_DEADLOCK FALSE
