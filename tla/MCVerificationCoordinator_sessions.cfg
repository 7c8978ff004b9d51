SPECIFICATION Spec
CONSTANTS
  d1 = d1
  f1 = f1
  p1 = p1
  p2 = p2
  Domains <- OneDomain
  Fetches <- OneFetch
  Clients <- TwoClients
  Tokens <- TwoTokens
  MaxSessions = 2
  MaxIds = 3
  MaxFaults = 1
  MaxActive = 1
  MaxAttempts = 2
  MaxCleanups = 1
  MaxOps = 3
INVARIANTS
  NoForeignData
  LeaseIsTracked
  WithinCapacity
  AttemptSettled
  HasBrowser
PROPERTIES
  OutcomeIsFinal
SYMMETRY ClientSymmetry
CHECK_DEADLOCK FALSE
