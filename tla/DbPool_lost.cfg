SPECIFICATION DbSpec
CONSTANTS
  Slots = 3
  Kinds = {"write", "addBackup"}
  BackupFails = TRUE
  MaxQueries = 2
  Outstanding = 2
INVARIANT SuccessIsStored
CHECK_DEADLOCK FALSE
