---------------------------- MODULE MCDeletionJobs ----------------------------
EXTENDS DeletionJobs

CONSTANTS t1, t2, r1, r2

TwoTitles == {t1, t2}
TwoBooks == 1..2
OneChapter == 1..1
TwoRunners == {r1, r2}

=============================================================================
