SPECIFICATION LiveSpec
CONSTANTS
  MaxSeq = 5
  BufferCap = 2
  PacketCap = 1
  Protected = {}
  Window = 2
  NetCap = 2
  MaxMsgs <- TwoMessages
PROPERTIES EventuallyDelivered
CHECK_DEADLOCK FALSE
