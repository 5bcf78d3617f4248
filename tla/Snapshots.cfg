SPECIFICATION Spec
CONSTANTS
  MaxTick = 6
  MaxEvents = 6
  MaxChanges = 2
  PartCounts = {0, 2}
  History = 4
  InitEvery = 1
  RecoverEvery = 2
CHECK_DEADLOCK FALSE
INVARIANTS TypeOK BaseKnown StorageSound NeverStuck
