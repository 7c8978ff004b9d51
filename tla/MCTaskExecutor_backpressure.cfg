SPECIFICATION FairSpec
CONSTANTS
  w1 = w1
  w2 = w2
  c1 = c1
  Tasks <- TwoTasks
  Workers <- OneWorker
  Clients <- OneClient
  QueueSize = 1
  InitialRows <- NewOrNoTasks
  PauseFrom <- CrawlingStatus
  Kinds <- OnlyFound
  MaxOps = 1
  MaxCrashes = 1
PROPERTIES
  SafeTasksClaimed
CHECK_DEADLOCK FALSE
