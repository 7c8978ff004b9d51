SPECIFICATION Spec
CONSTANTS
  c1 = c1
  x = x
  y = y
  r1 = r1
  r2 = r2
  p1 = p1
  p2 = p2
  Chapters <- OneChapter
  Contents <- MCContents
  Runners <- TwoRunners
  Processes <- TwoProcesses
  ProcessOf <- Apart
  OwnerOf <- TaskAndDirect
  LeaseSeconds = 1
  IoFails = TRUE
  MaxGeneration = 2
  MaxTime = 2
  MaxCrashes = 0
INVARIANTS
  DoneIsConfirmed
CHECK_DEADLOCK FALSE
