SPECIFICATION FairSpec
CONSTANTS
  w1 = w1
  w2 = w2
  c1 = c1
  Tasks <- OneTask
  Workers <- TwoWorkers
  Clients <- OneClient
  QueueSize = 1
  InitialRows <- NoTasks
  PauseFrom <- ClaimedStatuses
  Kinds <- AnyKind
  MaxOps = 3
  MaxCrashes = 1
INVARIANTS
  OneOwnerPerTask
  PendingResumeIsCarried
  ActiveIsOwned
  RollbackIsAllowed
PROPERTIES
  PauseSticks
  StaleWorkerOnlyFails
  NoTaskStuckActive
CHECK_DEADLOCK FALSE
