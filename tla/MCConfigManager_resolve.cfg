SPECIFICATION FairSpec
CONSTANTS
  Configs = {"a", "b"}
  Urls = {"u1"}
  Covers <- MCCovers
  Threads = {"t1", "t2"}
  MaxFiles = 3
  MaxDamage = 1
  MaxFailures = 1
  Tokens = {"k"}
  Overrides = {"o"}
  MaxOps = 3
PROPERTIES
  HistoriesOnlyGrow
  NoSecondActive
  CancelledNeverRegistered
  ResolutionEnds
CHECK_DEADLOCK FALSE
