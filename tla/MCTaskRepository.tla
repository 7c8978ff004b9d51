-------------------------- MODULE MCTaskRepository --------------------------
(* A small instance of TaskRepository: two callers on one task. *)
EXTENDS TaskRepository

CONSTANTS t1, c1, c2

MCTasks == {t1}
MCCallers == {c1, c2}
=============================================================================
