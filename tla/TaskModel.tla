------------------------------ MODULE TaskModel ------------------------------
(***************************************************************************)
(* The persistent task row and the rules one compare-and-swap transition   *)
(* obeys: novel_crawler/task_engine/models.py (statuses and their table)   *)
(* and TaskRepository.transition in task_engine/repository.py.  Source     *)
(* URL, metadata, error texts and timestamps are left out: no rule of the  *)
(* status machine reads them.                                              *)
(***************************************************************************)
EXTENDS Naturals

TERMINAL_STATUSES == {"completed", "terminal_failed", "cancelled"}

\* _RESUMABLE_STATUSES: the two statuses a task sleeps in with a resume origin.
RESUMABLE_STATUSES == {"paused", "recoverable_failed"}

\* The statuses an executor handler works in (executor._INTERRUPTED).
ACTIVE_STATUSES == {"probing", "validating", "crawling"}

TaskStatus == {"created", "ready", "waiting_for_user"}
                \cup ACTIVE_STATUSES \cup RESUMABLE_STATUSES \cup TERMINAL_STATUSES

\* Where a suspended task may be sent back to.
OriginStatus == TaskStatus \ (RESUMABLE_STATUSES \cup TERMINAL_STATUSES)

ALLOWED_TRANSITIONS(status) ==
  CASE status = "created" -> {"probing", "paused", "cancelled"}
    [] status = "probing" ->
         {"waiting_for_user", "validating", "recoverable_failed", "paused",
          "terminal_failed", "cancelled"}
    [] status = "waiting_for_user" ->
         {"validating", "crawling", "recoverable_failed", "terminal_failed",
          "paused", "cancelled"}
    [] status = "validating" ->
         {"probing", "waiting_for_user", "ready", "recoverable_failed", "paused",
          "terminal_failed", "cancelled"}
    [] status = "ready" ->
         {"crawling", "paused", "recoverable_failed", "terminal_failed", "cancelled"}
    [] status = "crawling" ->
         {"completed", "paused", "waiting_for_user", "recoverable_failed",
          "terminal_failed", "cancelled"}
    [] status = "paused" -> OriginStatus \cup {"cancelled"}
    [] status = "recoverable_failed" ->
         (OriginStatus \ {"created"}) \cup {"terminal_failed", "cancelled"}
    [] OTHER -> {}

NONE == "none"                     \* SQL NULL

ResumeGate == {"none", "cleanup"}

TaskRow == [status : TaskStatus, version : Nat,
            resume_status : OriginStatus \cup {NONE}, resume_gate : ResumeGate]

\* No row with this id: the task has not been created.
NoRow == [status |-> "absent", version |-> 0,
          resume_status |-> NONE, resume_gate |-> "none"]

NewTask == [status |-> "created", version |-> 0,
            resume_status |-> NONE, resume_gate |-> "none"]

-----------------------------------------------------------------------------
\* The statuses that leave a suspension or a cleanup gate for good.
Exits == {"terminal_failed", "cancelled"}

\* The checks of transition() that follow the version comparison.
CanTransition(row, to) ==
  /\ to \in ALLOWED_TRANSITIONS(row.status)
  /\ row.resume_gate = "cleanup" => to \in Exits
  /\ row.status \in RESUMABLE_STATUSES /\ to \notin Exits => to = row.resume_status

\* The row transition() writes.
Transitioned(row, to) ==
  [status        |-> to,
   version       |-> row.version + 1,
   resume_status |-> IF to \in RESUMABLE_STATUSES THEN row.status ELSE NONE,
   resume_gate   |-> IF to \in Exits THEN "none" ELSE row.resume_gate]

\* The statuses require_cleanup accepts.
CleanupSources == {"probing", "waiting_for_user", "validating", "ready", "crawling", "paused"}

\* Mutant: the gate is raised without a new version.
GatedSameVersion(row) ==
  [status        |-> "recoverable_failed",
   version       |-> row.version,
   resume_status |-> IF row.status \notin {"waiting_for_user", "paused"} THEN row.status
                     ELSE IF row.resume_status = NONE THEN "probing" ELSE row.resume_status,
   resume_gate   |-> "cleanup"]

\* Mutant: gating a paused task forgets the origin the pause stored.
GatedToProbing(row) ==
  [status        |-> "recoverable_failed",
   version       |-> row.version + 1,
   resume_status |-> IF row.status \notin {"waiting_for_user", "paused"} THEN row.status
                     ELSE "probing",
   resume_gate   |-> "cleanup"]

\* The row require_cleanup() writes: a pause keeps the origin it stored.
Gated(row) ==
  [status        |-> "recoverable_failed",
   version       |-> row.version + 1,
   resume_status |-> IF row.status \notin {"waiting_for_user", "paused"} THEN row.status
                     ELSE IF row.resume_status = NONE THEN "probing" ELSE row.resume_status,
   resume_gate   |-> "cleanup"]

\* The row complete_cleanup_gate() writes.
CleanedUp(row) ==
  [status        |-> IF row.resume_status = NONE THEN "probing" ELSE row.resume_status,
   version       |-> row.version + 1,
   resume_status |-> NONE,
   resume_gate   |-> "none"]

\* Mutant: recovery leaves no origin to resume from.
LostWithoutOrigin(row) ==
  [status |-> "recoverable_failed", version |-> row.version + 1,
   resume_status |-> NONE, resume_gate |-> row.resume_gate]

\* The row recover_lost_interaction() writes.
Lost(row) ==
  [status |-> "recoverable_failed", version |-> row.version + 1,
   resume_status |-> "probing", resume_gate |-> row.resume_gate]
=============================================================================
