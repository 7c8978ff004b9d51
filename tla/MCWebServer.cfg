SPECIFICATION FairSpec
CONSTANTS
  h1 = h1
  h2 = h2
  m = m
  w1 = w1
  reconciler = reconciler
  Callers <- TwoHandlers
  Main <- m
  Workers <- OneWorker
  Reconciler <- reconciler
  QueueSize = 1
  MaxConnections = 2
  MaxInterrupts = 2
  Operations <- OneOfEach
INVARIANTS
  NothingUsesClosed
  OperatorSwitchStays
PROPERTIES
  ServerEnds
CHECK_DEADLOCK FALSE
