SPECIFICATION Spec
CONSTANTS
  MaxIds = 3
  Hold = 1
  MaxTime = 3
  Size = 7
  Requests = {1, 2, 3, 5, 7, 8}
  download = download
  lookup = lookup
  save = save
  w1 = w1
  w2 = w2
  Jobs <- MCJobs
  Abortables <- MCAbortables
  Workers <- MCWorkers
  NoJob = NoJob
INVARIANTS
  TypeOK
  EveryIdServes
  WalkedBothWays RefusedOnlyWhenFull
  DoneIsFinished NoneLeftBehind
PROPERTIES
  LeaseSpec
  QueueSpec
  PromiseSpec WorkEnds
