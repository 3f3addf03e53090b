SPECIFICATION FairSpec
CONSTANTS
  r1 = r1
  Local = Local
  None = None
  Remote = {r1}
  Lossy = {r1, Local}
  N = 3
  Workers <- MCWorkers
  FileModes <- MCModes
  Cacheable = {1, 2, 3}
  Unsendable = {3}
  HasTimeout = TRUE
INVARIANTS
  TypeOK
  NoInputLost
  BusyWithinWorkers
  StartedAgainOnlyAfterLoss
  VerdictIsRight
  TasksOnSyncedHosts
  NoTaskOutlivesBatch
PROPERTIES
  PromiseKept
  BatchEnds
