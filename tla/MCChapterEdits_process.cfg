SPECIFICATION EditSpec
CONSTANTS
  x1 = x1
  x2 = x2
  r1 = r1
  r2 = r2
  r3 = r3
  server = server
  cli = cli
  Chapters <- MCChapters
  Contents <- MCContents
  Number <- MCNumber
  Body <- MCBody
  Runners <- ThreeRunners
  Processes <- OneProcess
  ProcessOf <- AllInServer
  OwnerOf <- TwoTasksAndDirect
  Editors <- CommandLine
  LeaseSeconds = 1
  IoFails = TRUE
  MaxGeneration = 2
  MaxTime = 1
  MaxCrashes = 1
INVARIANTS
  DoneIsConfirmed
  NoDuplicateContent
PROPERTIES
  DoneIsFinal
  LiveClaimIsKept
CHECK_DEADLOCK FALSE
