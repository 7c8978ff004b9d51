SPECIFICATION FairSpec
CONSTANTS
  t1 = t1
  t2 = t2
  r1 = r1
  r2 = r2
  Books <- TwoBooks
  Titles <- TwoTitles
  Chapters <- OneChapter
  Runners <- TwoRunners
  MaxFaults = 1
INVARIANTS
  KeepsContent
  NoOrphanContent
PROPERTIES
  JobsEnd
CHECK_DEADLOCK FALSE
