SPECIFICATION LiveSpec
CONSTANTS
  v4 = v4
  Addrs <- MCAddrs
  Secrets = {1, 2}
  NoSecret = NoSecret
  NoServer = NoServer
  MaxInFlight <- MCInFlight
  MaxTurns = 1
  MaxSerial = 1
INVARIANTS TablesConsistent SuccessIsBacked
PROPERTIES InfoForwards GetsListed
CHECK_DEADLOCK FALSE
