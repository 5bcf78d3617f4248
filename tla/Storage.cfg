SPECIFICATION Spec
CONSTANTS
  Slots = 3
  Kinds = {"read", "write", "addRead", "addWrite", "addBackup"}
  BackupFails = FALSE
  MaxQueries = 4
  Outstanding = 2
  BufSize = 3
  LocalSize = 2
  Writers = 2
  MaxWrite = 2
  MaxBytes = 5
INVARIANTS
  NoRankLost SuccessIsStored Exclusive WorkedThrough
  AllAccounted EndsClean
PROPERTIES
  StaysStored PoolEnds
  Flushes
CHECK_DEADLOCK FALSE
