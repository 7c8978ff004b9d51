SPECIFICATION BatchSpec
CONSTANTS
  r1 = r1
  r2 = r2
  Runners <- TwoRunners
  Last = 2
  BatchSize = 1
  MaxTaskVersion = 2
  MaxGeneration = 2
SYMMETRY Symmetry
INVARIANTS
  NothingSkipped
  CompletedIsComplete
PROPERTIES
  CheckpointAdvances
CHECK_DEADLOCK FALSE
