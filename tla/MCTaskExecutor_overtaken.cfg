SPECIFICATION FairSpec
CONSTANTS
  w1 = w1
  w2 = w2
  c1 = c1
  Tasks <- OneTask
  Workers <- OneWorker
  Clients <- OneClient
  QueueSize = 1
  InitialRows <- NoTasks
  PauseFrom <- CreatedStatus
  Kinds <- AnyKind
  MaxOps = 3
  MaxCrashes = 0
PROPERTIES
  NoTaskStuckActive
CHECK_DEADLOCK FALSE
