SPECIFICATION Spec
CONSTANTS
  t1 = t1
  c1 = c1
  c2 = c2
  Tasks <- MCTasks
  Callers <- MCCallers
  LeaseTtl = 1
  MaxVersion = 6
  MaxTime = 2
INVARIANTS
  VersionNamesRow
  EventChain
  OriginWhileSuspended
PROPERTIES
  ReturnsToOrigin
  LiveLeaseKept
CHECK_DEADLOCK FALSE
