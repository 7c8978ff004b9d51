--------------------------- MODULE MCTaskExecutor ---------------------------
(* Small instances of TaskExecutor. *)
EXTENDS TaskExecutor

CONSTANTS w1, w2, c1

OneTask == {1}
TwoTasks == {1, 2}
OneWorker == {w1}
TwoWorkers == {w1, w2}
OneClient == {c1}

NoTasks == {NoRow}
\* Each task is new, or yet to be created.
NewOrNoTasks == {NewTask, NoRow}

AnyKind == ResolutionKind
OnlyFound == {"registered"}

AnyStatus == TaskStatus
\* Every status but the one a task waits in for its first claim.
ClaimedStatuses == TaskStatus \ {"created"}
CreatedStatus == {"created"}
CrawlingStatus == {"crawling"}
=============================================================================
