---------------------------- MODULE TaskExecutor ----------------------------
(***************************************************************************)
(* BackgroundTaskExecutor (novel_crawler/task_engine/executor.py) at work: *)
(* the bounded queue, the workers, the reconciler and the client threads   *)
(* that create, pause, cancel and resume tasks (ApplicationService in      *)
(* application/service.py).  Each step is one task-database transaction or *)
(* one section under the executor's lock; what a thread read before it     *)
(* stays in the thread's record, so every window between a read and the    *)
(* write based on it is open to the other threads.                         *)
(*                                                                         *)
(* The handlers are the three of application/composition.py.  A network    *)
(* fetch, a parse or a chapter batch is one outcome, chosen freely.        *)
(***************************************************************************)
EXTENDS TaskModel, Integers, Sequences, FiniteSets

\* What an adaptation or an interaction can end in (REUSED counts as registered).
ResolutionKind == {"registered", "waiting", "rejected", "cancelled", "cleanup_required", "failed"}

CONSTANTS
  Tasks,       \* task ids, in rowid order
  Workers,     \* max_workers threads
  Clients,     \* threads calling the service; its lock admits one at a time
  QueueSize,   \* max_queue_size
  InitialRows, \* rows an earlier process may have left in the table
  PauseFrom,   \* statuses in which a client asks for a pause
  Kinds,       \* the outcomes an adaptation may have
  MaxOps,      \* bound on the operations clients start
  MaxCrashes   \* bound on the times the process dies and starts again

Reconciler == "reconciler"
Threads == Workers \cup Clients \cup {Reconciler}

ASSUME ExecutorAssumption ==
  /\ Tasks \subseteq Nat \ {0}
  /\ QueueSize \in Nat \ {0}
  /\ Workers \cap Clients = {} /\ Reconciler \notin Workers \cup Clients
  /\ InitialRows \subseteq {NoRow, NewTask}
  /\ PauseFrom \subseteq TaskStatus
  /\ Kinds \subseteq ResolutionKind

VARIABLES
  tasks,               \* the tasks table
  queue,               \* _queue
  scheduled,           \* _scheduled
  scheduled_versions,  \* _scheduled_versions; -1 for no entry
  pending_resumes,     \* _pending_resumes
  closing,             \* _closing
  threads,             \* what each thread is doing, and the rows it has read
  todo,                \* the tasks the reconciler has listed and not yet tried
  ops, crashes         \* the bounded counters

schedVars == <<queue, scheduled, scheduled_versions, pending_resumes>>
envVars == <<closing, todo, ops, crashes>>
vars == <<tasks, queue, scheduled, scheduled_versions, pending_resumes,
          closing, threads, todo, ops, crashes>>

NoResume == [preclaimed |-> FALSE, rollback |-> NONE]

\* The pcs at which a worker still holds its task's place in _scheduled.
Holding == {"load", "claim", "check", "handler", "schedule", "unscheduled", "returned",
            "complete", "handoff", "fail", "fail_cas", "finish"}
ClientPcs == {"get", "submit", "compensate", "request", "resume", "schedule_resumed",
              "apply", "rollback"}

Thread ==
  [pc         : Holding \cup ClientPcs \cup {"idle", "exited", "dead"},
   task       : Tasks \cup {0},
   preclaimed : BOOLEAN,
   cur        : TaskRow \cup {NoRow},       \* the row (and so the version) it works from
   goal       : TaskStatus \cup {NONE},     \* the status it is about to write
   latest     : Nat,                        \* the version _record_failure read last
   tries      : Nat]

Idle == [pc |-> "idle", task |-> 0, preclaimed |-> FALSE, cur |-> NoRow,
         goal |-> NONE, latest |-> 0, tries |-> 0]

TypeOK ==
  /\ tasks \in [Tasks -> TaskRow \cup {NoRow}]
  /\ queue \in Seq([task : Tasks, preclaimed : BOOLEAN]) /\ Len(queue) <= QueueSize
  /\ scheduled \subseteq Tasks
  /\ scheduled_versions \in [Tasks -> Nat \cup {-1}]
  /\ pending_resumes \in [Tasks -> [preclaimed : BOOLEAN,
                                    rollback : RESUMABLE_STATUSES \cup {NONE}]]
  /\ closing \in BOOLEAN
  /\ threads \in [Threads -> Thread]
  /\ todo \subseteq Tasks
  /\ ops \in Nat /\ crashes \in Nat

Init ==
  /\ tasks \in [Tasks -> InitialRows]
  /\ queue = <<>>
  /\ scheduled = {}
  /\ scheduled_versions = [t \in Tasks |-> -1]
  /\ pending_resumes = [t \in Tasks |-> NoResume]
  /\ closing = FALSE
  /\ threads = [p \in Threads |-> Idle]
  /\ todo = {}
  /\ ops = 0 /\ crashes = 0

-----------------------------------------------------------------------------
(* Threads and rows. *)

At(p, pc) == threads[p].pc = pc
Goto(p, thread) == threads' = [threads EXCEPT ![p] = thread]
Step(p, pc) == Goto(p, [threads[p] EXCEPT !.pc = pc])

\* A worker that is through with its handler enters the finally block; any
\* other thread returns to its caller.
Done(p) == IF p \in Workers
           THEN [Idle EXCEPT !.pc = "finish", !.task = threads[p].task]
           ELSE Idle

\* expected_version still matches.
Fresh(p) == tasks[threads[p].task].version = threads[p].cur.version

Put(t, row) == tasks' = [tasks EXCEPT ![t] = row]

-----------------------------------------------------------------------------
(* The sections under the executor's lock.  raised is TRUE when the section *)
(* leaves with ExecutorClosed or ExecutorQueueFull.                          *)

Full == Len(queue) = QueueSize

\* _scheduled.add, _scheduled_versions[...] = and put_nowait.
Enqueue(t, preclaimed, version) ==
  /\ scheduled' = scheduled \cup {t}
  /\ scheduled_versions' = [scheduled_versions EXCEPT ![t] = version]
  /\ queue' = Append(queue, [task |-> t, preclaimed |-> preclaimed])
  /\ UNCHANGED pending_resumes

\* submit() decides on the row it read before it took the lock.
Submit(t, row, raised) ==
  LET wanted == row.status \in {"created", "ready"} /\ t \notin scheduled IN
  /\ raised <=> closing \/ (wanted /\ Full)
  /\ IF wanted /\ ~raised THEN Enqueue(t, FALSE, row.version) ELSE UNCHANGED schedVars

\* Mutant: an active task is queued although its place is taken.
ScheduleActiveTwice(t, raised) ==
  LET row == tasks[t]
      wanted == row.status \in ACTIVE_STATUSES IN
  /\ raised <=> closing \/ (wanted /\ Full)
  /\ IF wanted /\ ~raised THEN Enqueue(t, TRUE, row.version) ELSE UNCHANGED schedVars

ScheduleActive(t, raised) ==
  LET row == tasks[t]
      active == row.status \in ACTIVE_STATUSES IN
  /\ raised <=> closing \/ (active /\ t \notin scheduled /\ Full)
  /\ \/ /\ raised \/ ~active
        /\ UNCHANGED schedVars
     \/ /\ ~raised /\ active /\ t \notin scheduled
        /\ Enqueue(t, TRUE, row.version)
     \/ /\ ~raised /\ active /\ t \in scheduled
        /\ IF scheduled_versions[t] >= row.version THEN UNCHANGED schedVars
           ELSE /\ scheduled_versions' = [scheduled_versions EXCEPT ![t] = row.version]
                /\ pending_resumes' = [pending_resumes EXCEPT ![t] =
                     [preclaimed |-> TRUE, rollback |-> "recoverable_failed"]]
                /\ UNCHANGED <<queue, scheduled>>

\* Mutant: a resume finds the place of its task taken and leaves it at that.
ScheduleResumedDropped(t, preclaimed, rollback, raised) ==
  LET version == tasks[t].version IN
  /\ raised <=> closing \/ (t \notin scheduled /\ Full)
  /\ IF raised \/ t \in scheduled THEN UNCHANGED schedVars
     ELSE Enqueue(t, preclaimed, version)

ScheduleResumed(t, preclaimed, rollback, raised) ==
  LET version == tasks[t].version IN
  /\ raised <=> closing \/ (t \notin scheduled /\ Full)
  /\ CASE raised -> UNCHANGED schedVars
       [] ~raised /\ t \in scheduled ->
            /\ scheduled_versions' = [scheduled_versions EXCEPT ![t] = version]
            /\ pending_resumes' = [pending_resumes EXCEPT ![t] =
                 [preclaimed |-> preclaimed, rollback |-> rollback]]
            /\ UNCHANGED <<queue, scheduled>>
       [] OTHER -> Enqueue(t, preclaimed, version)

-----------------------------------------------------------------------------
(* _rollback_resume, run by the client whose resume could not be scheduled   *)
(* and by the worker that could not requeue one.                             *)

ROLLBACK_ATTEMPTS == 8

\* TaskExecutorError("resume_rollback_failed"): it ends a worker's thread.
RollbackFailed(p) == Goto(p, IF p \in Workers THEN [Idle EXCEPT !.pc = "dead"] ELSE Idle)

rollback_resume(p) ==
  LET me == threads[p] IN
  /\ At(p, "rollback")
  /\ \/ /\ me.cur.status \in TERMINAL_STATUSES \cup RESUMABLE_STATUSES
        /\ Goto(p, Idle)
        /\ UNCHANGED tasks
     \/ /\ me.cur.status \notin TERMINAL_STATUSES \cup RESUMABLE_STATUSES
        /\ Fresh(p) /\ CanTransition(tasks[me.task], me.goal)
        /\ Put(me.task, Transitioned(tasks[me.task], me.goal))
        /\ Goto(p, Idle)
     \/ /\ me.cur.status \notin TERMINAL_STATUSES \cup RESUMABLE_STATUSES
        /\ Fresh(p) /\ ~CanTransition(tasks[me.task], me.goal)
        /\ RollbackFailed(p)
        /\ UNCHANGED tasks
     \/ /\ me.cur.status \notin TERMINAL_STATUSES \cup RESUMABLE_STATUSES
        /\ ~Fresh(p)
        /\ IF me.tries + 1 = ROLLBACK_ATTEMPTS THEN RollbackFailed(p)
           ELSE Goto(p, [me EXCEPT !.cur = tasks[me.task], !.tries = @ + 1])
        /\ UNCHANGED tasks
  /\ UNCHANGED <<schedVars, envVars>>

-----------------------------------------------------------------------------
(* AdaptiveTaskController._apply_result, reached from the probe handler and  *)
(* from a client's interaction.  Leases and handles belong to another module.*)

Applied(row, kind) ==
  CASE kind = "registered" -> Transitioned(row, "validating")
    [] kind = "waiting" -> IF row.status = "waiting_for_user" THEN row
                           ELSE Transitioned(row, "waiting_for_user")
    [] kind = "rejected" -> Transitioned(row, "terminal_failed")
    [] kind = "cancelled" -> Transitioned(row, "cancelled")
    [] kind = "cleanup_required" -> Gated(row)
    [] kind = "failed" -> IF row.status = "waiting_for_user" THEN Lost(row)
                          ELSE Transitioned(row, "recoverable_failed")

\* A conflict is answered with the row as it is now, and an active one is still
\* handed to the scheduler.
apply_result(p, kind) ==
  LET t == threads[p].task
      row == IF Fresh(p) THEN Applied(tasks[t], kind) ELSE tasks[t] IN
  /\ Put(t, row)
  /\ Goto(p, IF kind = "registered" /\ row.status \in ACTIVE_STATUSES
             THEN [threads[p] EXCEPT !.pc = "schedule", !.cur = row]
             ELSE Done(p))
  /\ UNCHANGED <<schedVars, envVars>>

\* The call of executor.schedule_active in _schedule_or_fail.
schedule_active(p) ==
  /\ At(p, "schedule")
  /\ \E raised \in BOOLEAN :
       /\ ScheduleActive(threads[p].task, raised)
       /\ IF raised THEN Step(p, "unscheduled") ELSE Goto(p, Done(p))
  /\ UNCHANGED <<tasks, envVars>>

\* Mutant: a task the executor refuses is left in its active status.
fail_unscheduled_ignored(p) ==
  /\ At(p, "unscheduled")
  /\ Goto(p, Done(p))
  /\ UNCHANGED <<tasks, schedVars, envVars>>

fail_unscheduled(p) ==
  LET t == threads[p].task IN
  /\ At(p, "unscheduled")
  /\ Put(t, IF Fresh(p) THEN Transitioned(tasks[t], "recoverable_failed") ELSE tasks[t])
  /\ Goto(p, Done(p))
  /\ UNCHANGED <<schedVars, envVars>>

-----------------------------------------------------------------------------
(* A worker: _worker, _claim, _run_claimed, _record_failure.                 *)

get(w) ==
  /\ At(w, "idle") /\ queue # <<>>
  /\ queue' = Tail(queue)
  /\ Goto(w, [Idle EXCEPT !.pc = "load", !.task = Head(queue).task,
                          !.preclaimed = Head(queue).preclaimed])
  /\ UNCHANGED <<tasks, scheduled, scheduled_versions, pending_resumes, envVars>>

\* Once closing, nothing enters the queue, and a worker leaves when it is empty.
exit(w) ==
  /\ At(w, "idle") /\ closing /\ queue = <<>>
  /\ Goto(w, [Idle EXCEPT !.pc = "exited"])
  /\ UNCHANGED <<tasks, schedVars, envVars>>

\* get_task for a preclaimed item, the read of _claim for any other.
load(w) ==
  LET row == tasks[threads[w].task] IN
  /\ At(w, "load")
  /\ Goto(w, IF threads[w].preclaimed
             THEN [threads[w] EXCEPT !.pc = "check", !.cur = row, !.preclaimed = FALSE]
             ELSE IF row.status \in {"created", "ready"}
             THEN [threads[w] EXCEPT !.pc = "claim", !.cur = row]
             ELSE Done(w))
  /\ UNCHANGED <<tasks, schedVars, envVars>>

ClaimTarget(status) == IF status = "created" THEN "probing" ELSE "crawling"

claim(w) ==
  LET t == threads[w].task
      row == Transitioned(tasks[t], ClaimTarget(threads[w].cur.status)) IN
  /\ At(w, "claim")
  /\ IF Fresh(w)
     THEN Put(t, row) /\ Goto(w, [threads[w] EXCEPT !.pc = "check", !.cur = row])
     ELSE Goto(w, Done(w)) /\ UNCHANGED tasks
  /\ UNCHANGED <<schedVars, envVars>>

\* The loop condition of _run_claimed and context.check_control before the handler.
check_control(w) ==
  LET me == threads[w]
      runs == me.cur.status \in ACTIVE_STATUSES /\ Fresh(w)
                /\ tasks[me.task].status \notin {"paused", "cancelled"} IN
  /\ At(w, "check")
  /\ IF runs THEN Step(w, "handler") ELSE Goto(w, Done(w))
  /\ UNCHANGED <<tasks, schedVars, envVars>>

\* A handler reads the row again while it works: it stops on a newer version.
handler_stops(w) ==
  /\ At(w, "handler") /\ ~Fresh(w)
  /\ Goto(w, Done(w))
  /\ UNCHANGED <<tasks, schedVars, envVars>>

\* The probe handler writes its result itself and returns None.
probe_handler(w) ==
  /\ At(w, "handler") /\ threads[w].cur.status = "probing"
  /\ \E kind \in Kinds : apply_result(w, kind)

\* CrawlTaskPipeline.validating and crawling return a status ...
handler_returns(w) ==
  /\ At(w, "handler")
  /\ \E to \in IF threads[w].cur.status = "validating" THEN {"ready"}
               ELSE {"completed", "recoverable_failed"} :
       Goto(w, [threads[w] EXCEPT !.pc = "returned", !.goal = to])
  /\ threads[w].cur.status # "probing"
  /\ UNCHANGED <<tasks, schedVars, envVars>>

\* ... or raise RecoverableTaskError, TerminalTaskError or anything else.
handler_raises(w) ==
  /\ At(w, "handler") /\ threads[w].cur.status # "probing"
  /\ \E to \in {"recoverable_failed", "terminal_failed"} :
       Goto(w, [threads[w] EXCEPT !.pc = "fail", !.goal = to])
  /\ UNCHANGED <<tasks, schedVars, envVars>>

\* check_control and the comparison of the latest row after the handler.
recheck(w) ==
  /\ At(w, "returned")
  /\ IF Fresh(w) THEN Step(w, "complete") ELSE Goto(w, Done(w))
  /\ UNCHANGED <<tasks, schedVars, envVars>>

\* A TaskVersionConflict here is caught as any other exception of the handler.
Conflicted(w) == [threads[w] EXCEPT !.pc = "fail", !.goal = "recoverable_failed"]

\* Mutant: the status a handler returned is written whatever the row is by now.
complete_unversioned(w) ==
  /\ At(w, "complete")
  /\ Put(threads[w].task, Transitioned(tasks[threads[w].task], threads[w].goal))
  /\ Goto(w, Done(w))
  /\ UNCHANGED <<schedVars, envVars>>

complete(w) ==
  LET t == threads[w].task
      row == Transitioned(tasks[t], threads[w].goal) IN
  /\ At(w, "complete")
  /\ \/ /\ Fresh(w)
        /\ Put(t, row)
        /\ Goto(w, [threads[w] EXCEPT
             !.pc = IF row.status = "ready" THEN "handoff" ELSE "check",
             !.cur = row, !.goal = NONE])
     \/ /\ ~Fresh(w)
        /\ Goto(w, Conflicted(w))
        /\ UNCHANGED tasks
  /\ UNCHANGED <<schedVars, envVars>>

ready_handoff(w) ==
  LET t == threads[w].task
      row == Transitioned(tasks[t], "crawling") IN
  /\ At(w, "handoff")
  /\ \/ /\ Fresh(w)
        /\ Put(t, row)
        /\ Goto(w, [threads[w] EXCEPT !.pc = "check", !.cur = row])
     \/ /\ ~Fresh(w)
        /\ Goto(w, Conflicted(w))
        /\ UNCHANGED tasks
  /\ UNCHANGED <<schedVars, envVars>>

RECORD_ATTEMPTS == 3

\* _record_failure compares nothing with the generation the worker claimed.
record_failure(w) ==
  LET row == tasks[threads[w].task] IN
  /\ At(w, "fail")
  /\ Goto(w, IF row.status \in TERMINAL_STATUSES \cup RESUMABLE_STATUSES THEN Done(w)
             ELSE [threads[w] EXCEPT !.pc = "fail_cas", !.latest = row.version])
  /\ UNCHANGED <<tasks, schedVars, envVars>>

\* Mutant: the failure is written whatever the status is by now.
record_failure_cas_unchecked(w) ==
  LET me == threads[w] IN
  /\ At(w, "fail_cas")
  /\ Put(me.task, Transitioned(tasks[me.task], me.goal))
  /\ Goto(w, Done(w))
  /\ UNCHANGED <<schedVars, envVars>>

record_failure_cas(w) ==
  LET me == threads[w]
      writes == tasks[me.task].version = me.latest /\ CanTransition(tasks[me.task], me.goal) IN
  /\ At(w, "fail_cas")
  /\ IF writes THEN Put(me.task, Transitioned(tasks[me.task], me.goal)) ELSE UNCHANGED tasks
  /\ Goto(w, IF writes \/ me.tries + 1 = RECORD_ATTEMPTS THEN Done(w)
             ELSE [me EXCEPT !.pc = "fail", !.latest = 0, !.tries = @ + 1])
  /\ UNCHANGED <<schedVars, envVars>>

\* Mutant: the pending resume is requeued or rolled back, but not removed.
finish_keeps_pending(w) ==
  LET t == threads[w].task
      pending == pending_resumes[t]
      requeues == pending # NoResume /\ ~closing /\ ~Full IN
  /\ At(w, "finish")
  /\ IF requeues
     THEN /\ queue' = Append(queue, [task |-> t, preclaimed |-> pending.preclaimed])
          /\ UNCHANGED <<scheduled, scheduled_versions>>
     ELSE /\ scheduled' = scheduled \ {t}
          /\ scheduled_versions' = [scheduled_versions EXCEPT ![t] = -1]
          /\ UNCHANGED queue
  /\ Goto(w, Idle)
  /\ UNCHANGED <<tasks, pending_resumes, envVars>>

\* The section under the lock in the finally block, and the row a rollback starts from.
finish(w) ==
  LET t == threads[w].task
      pending == pending_resumes[t]
      requeues == pending # NoResume /\ ~closing /\ ~Full IN
  /\ At(w, "finish")
  /\ pending_resumes' = [pending_resumes EXCEPT ![t] = NoResume]
  /\ IF requeues
     THEN /\ queue' = Append(queue, [task |-> t, preclaimed |-> pending.preclaimed])
          /\ UNCHANGED <<scheduled, scheduled_versions>>
     ELSE /\ scheduled' = scheduled \ {t}
          /\ scheduled_versions' = [scheduled_versions EXCEPT ![t] = -1]
          /\ UNCHANGED queue
  /\ Goto(w, IF requeues \/ pending = NoResume THEN Idle
             ELSE [Idle EXCEPT !.pc = "rollback", !.task = t,
                               !.cur = tasks[t], !.goal = pending.rollback])
  /\ UNCHANGED <<tasks, envVars>>

Worker(w) ==
  \/ get(w) \/ exit(w) \/ load(w) \/ claim(w) \/ check_control(w)
  \/ handler_stops(w) \/ probe_handler(w) \/ handler_returns(w) \/ handler_raises(w)
  \/ schedule_active(w) \/ fail_unscheduled(w)
  \/ recheck(w) \/ complete(w) \/ ready_handoff(w)
  \/ record_failure(w) \/ record_failure_cas(w)
  \/ finish(w) \/ rollback_resume(w)

-----------------------------------------------------------------------------
(* A client.  The service refuses a new operation once it is closing.        *)

Starts(c) ==
  /\ At(c, "idle") /\ ~closing /\ ops < MaxOps
  /\ ops' = ops + 1
  /\ UNCHANGED <<closing, todo, crashes>>

\* create_crawl_task: the row is committed before it is submitted.
create_crawl_task(c, t) ==
  /\ Starts(c)
  /\ tasks[t] = NoRow
  /\ Put(t, NewTask)
  /\ Goto(c, [Idle EXCEPT !.pc = "get", !.task = t, !.goal = "paused"])
  /\ UNCHANGED schedVars

\* submit: the read before the lock.
submit_get(c) ==
  /\ At(c, "get")
  /\ Goto(c, [threads[c] EXCEPT !.pc = "submit", !.cur = tasks[threads[c].task]])
  /\ UNCHANGED <<tasks, schedVars, envVars>>

\* goal = "paused" marks the submission of a task just created.
submit(c) ==
  /\ At(c, "submit")
  /\ \E raised \in BOOLEAN :
       /\ Submit(threads[c].task, threads[c].cur, raised)
       /\ IF raised /\ threads[c].goal = "paused" THEN Step(c, "compensate") ELSE Goto(c, Idle)
  /\ UNCHANGED <<tasks, envVars>>

\* _compensate_submission, with the version create_task returned.
compensate_submission(c) ==
  LET t == threads[c].task IN
  /\ At(c, "compensate")
  /\ Put(t, IF tasks[t].version = NewTask.version THEN Transitioned(tasks[t], "paused")
            ELSE tasks[t])
  /\ Goto(c, Idle)
  /\ UNCHANGED <<schedVars, envVars>>

\* pause_task and cancel_task: _control_transition (executor._request_status).
request_status(c, t, to) ==
  /\ Starts(c)
  /\ tasks[t] # NoRow
  /\ tasks[t].status \notin TERMINAL_STATUSES \cup {to}
  /\ to = "paused" => tasks[t].status \in PauseFrom
  /\ Goto(c, [Idle EXCEPT !.pc = "request", !.task = t, !.cur = tasks[t], !.goal = to])
  /\ UNCHANGED <<tasks, schedVars>>

request_cas(c) ==
  LET me == threads[c]
      row == tasks[me.task] IN
  /\ At(c, "request")
  /\ IF Fresh(c) /\ CanTransition(row, me.goal)
     THEN Put(me.task, Transitioned(row, me.goal)) ELSE UNCHANGED tasks
  /\ Goto(c, IF Fresh(c) \/ row.status \in TERMINAL_STATUSES \cup {me.goal} THEN Idle
             ELSE [me EXCEPT !.cur = row])
  /\ UNCHANGED <<schedVars, envVars>>

\* What executor.resume asks of the row it reads.
Resumable(row) ==
  /\ row.status \in RESUMABLE_STATUSES
  /\ row.resume_gate = "none"
  /\ row.resume_status # NONE

resume_task(c, t) ==
  /\ Starts(c)
  /\ \/ /\ Resumable(tasks[t])
        /\ Goto(c, [Idle EXCEPT !.pc = "resume", !.task = t, !.cur = tasks[t]])
     \/ /\ tasks[t].status \in {"created", "ready"}
        /\ Goto(c, [Idle EXCEPT !.pc = "get", !.task = t])
  /\ UNCHANGED <<tasks, schedVars>>

\* Mutant: the status to roll back to is read off the row after the resume.
resume_cas_later(c) ==
  LET me == threads[c]
      row == tasks[me.task]
      resumed == Transitioned(row, me.cur.resume_status) IN
  /\ At(c, "resume")
  /\ IF Fresh(c)
     THEN /\ Put(me.task, resumed)
          /\ Goto(c, IF resumed.status = "waiting_for_user" THEN Idle
                     ELSE [me EXCEPT !.pc = "schedule_resumed", !.cur = resumed,
                                     !.goal = resumed.status,
                                     !.preclaimed = resumed.status \in ACTIVE_STATUSES])
     ELSE /\ Goto(c, IF Resumable(row) THEN [me EXCEPT !.cur = row] ELSE Idle)
          /\ UNCHANGED tasks
  /\ UNCHANGED <<schedVars, envVars>>

resume_cas(c) ==
  LET me == threads[c]
      row == tasks[me.task]
      resumed == Transitioned(row, me.cur.resume_status) IN
  /\ At(c, "resume")
  /\ IF Fresh(c)
     THEN /\ Put(me.task, resumed)
          /\ Goto(c, IF resumed.status = "waiting_for_user" THEN Idle
                     ELSE [me EXCEPT !.pc = "schedule_resumed", !.cur = resumed,
                                     !.goal = row.status,
                                     !.preclaimed = resumed.status \in ACTIVE_STATUSES])
     ELSE /\ Goto(c, IF Resumable(row) THEN [me EXCEPT !.cur = row] ELSE Idle)
          /\ UNCHANGED tasks
  /\ UNCHANGED <<schedVars, envVars>>

schedule_resumed(c) ==
  LET me == threads[c] IN
  /\ At(c, "schedule_resumed")
  /\ \E raised \in BOOLEAN :
       /\ ScheduleResumed(me.task, me.preclaimed, me.goal, raised)
       /\ IF raised THEN Step(c, "rollback") ELSE Goto(c, Idle)
  /\ UNCHANGED <<tasks, envVars>>

\* continue, confirm or cancel an interaction, or the sweep that finds it expired.
interact(c, t) ==
  /\ Starts(c)
  /\ tasks[t].status = "waiting_for_user"
  /\ Goto(c, [Idle EXCEPT !.pc = "apply", !.task = t, !.cur = tasks[t]])
  /\ UNCHANGED <<tasks, schedVars>>

interaction_result(c) ==
  /\ At(c, "apply")
  /\ \E kind \in Kinds : apply_result(c, kind)

\* The service closes its executor: no operation of its own is under way.
shutdown(c) ==
  /\ At(c, "idle") /\ ~closing
  /\ closing' = TRUE
  /\ UNCHANGED <<tasks, schedVars, threads, todo, ops, crashes>>

Begins(c) ==
  \/ shutdown(c)
  \/ \E t \in Tasks :
       \/ create_crawl_task(c, t) \/ resume_task(c, t) \/ interact(c, t)
       \/ \E to \in {"paused", "cancelled"} : request_status(c, t, to)

Continues(c) ==
  \/ submit_get(c) \/ submit(c) \/ compensate_submission(c)
  \/ request_cas(c) \/ resume_cas(c) \/ schedule_resumed(c) \/ rollback_resume(c)
  \/ interaction_result(c) \/ schedule_active(c) \/ fail_unscheduled(c)

-----------------------------------------------------------------------------
(* The reconciler and the process.                                           *)

SafeTasks == {t \in Tasks : tasks[t].status \in {"created", "ready"}}

\* Mutant: the pass lists created tasks only.
reconciler_list_created ==
  /\ At(Reconciler, "idle") /\ ~closing /\ todo = {} /\ SafeTasks # {}
  /\ todo' = {t \in SafeTasks : tasks[t].status = "created"}
  /\ UNCHANGED <<tasks, schedVars, closing, threads, ops, crashes>>

reconciler_list ==
  /\ At(Reconciler, "idle") /\ ~closing /\ todo = {} /\ SafeTasks # {}
  /\ todo' = SafeTasks
  /\ UNCHANGED <<tasks, schedVars, closing, threads, ops, crashes>>

\* The next listed task, in rowid order; submit reads it again before the lock.
reconciler_get ==
  LET t == CHOOSE u \in todo : \A v \in todo : u <= v IN
  /\ At(Reconciler, "idle") /\ ~closing /\ todo # {}
  /\ todo' = todo \ {t}
  /\ Goto(Reconciler, [Idle EXCEPT !.pc = "submit", !.task = t, !.cur = tasks[t]])
  /\ UNCHANGED <<tasks, schedVars, closing, ops, crashes>>

\* A full queue ends the pass; the next one starts with the first task again.
reconciler_submit ==
  /\ At(Reconciler, "submit")
  /\ \E raised \in BOOLEAN :
       /\ Submit(threads[Reconciler].task, threads[Reconciler].cur, raised)
       /\ todo' = IF raised THEN {} ELSE todo
  /\ Goto(Reconciler, Idle)
  /\ UNCHANGED <<tasks, closing, ops, crashes>>

Reconcile == reconciler_list \/ reconciler_get \/ reconciler_submit

\* Startup recovery of a row the last process left behind: recover_startup, and the
\* controller's sweep of waiting tasks whose lease ran out with their process.
Recovered(row) ==
  CASE row.status \in ACTIVE_STATUSES -> Transitioned(row, "recoverable_failed")
    [] row.status = "waiting_for_user" -> Lost(row)
    [] OTHER -> row

\* The process dies, or has closed, and another one is built: only the table is left.
restart ==
  /\ crashes < MaxCrashes
  /\ crashes' = crashes + 1
  /\ tasks' = [t \in Tasks |-> Recovered(tasks[t])]
  /\ queue' = <<>> /\ scheduled' = {}
  /\ scheduled_versions' = [t \in Tasks |-> -1]
  /\ pending_resumes' = [t \in Tasks |-> NoResume]
  /\ closing' = FALSE /\ todo' = {}
  /\ threads' = [p \in Threads |-> Idle]
  /\ UNCHANGED ops

Next ==
  \/ \E w \in Workers : Worker(w)
  \/ \E c \in Clients : Begins(c) \/ Continues(c)
  \/ Reconcile
  \/ restart

Spec == Init /\ [][Next]_vars

\* Threads are scheduled, handlers return and database calls end.  Nobody has to
\* start an operation, and nothing has to crash.
Fairness ==
  /\ \A w \in Workers : WF_vars(Worker(w))
  /\ \A c \in Clients : WF_vars(Continues(c))
  /\ WF_vars(Reconcile)

FairSpec == Spec /\ Fairness

-----------------------------------------------------------------------------
(* Properties. *)

Queued(t) == {i \in DOMAIN queue : queue[i].task = t}
Holders(t) == {w \in Workers : threads[w].task = t /\ threads[w].pc \in Holding}

\* _scheduled counts exactly the tasks that are queued or in a worker's hands, each
\* once: no task runs in two workers, and none keeps its place after it is done.
OneOwnerPerTask ==
  \A t \in Tasks :
    Cardinality(Queued(t)) + Cardinality(Holders(t)) = IF t \in scheduled THEN 1 ELSE 0

\* A resume recorded for later is recorded with a task whose place is taken: the
\* worker that gives the place up will find it.
PendingResumeIsCarried ==
  \A t \in Tasks : pending_resumes[t] # NoResume => t \in scheduled

\* A task in an active status is owned: it has its place in the executor, or a
\* thread is on its way to schedule it or to send it back to a suspended status.
ActiveIsOwned ==
  \A t \in Tasks : tasks[t].status \in ACTIVE_STATUSES =>
    \/ t \in scheduled
    \/ \E p \in Threads : /\ threads[p].task = t
                          /\ threads[p].pc \in {"schedule", "unscheduled",
                                                "schedule_resumed", "rollback"}

\* A roll-back that nobody overtakes is a transition the table allows, whatever became of
\* the task since its resume was noted: InvalidTaskTransition, which raises
\* resume_rollback_failed and ends a worker's thread, is never the answer.  (Eight conflicts
\* in a row end the thread as well.)
RollbackIsAllowed ==
  \A p \in Threads :
    LET me == threads[p] IN
    /\ At(p, "rollback") /\ Fresh(p)
    /\ me.cur.status \notin TERMINAL_STATUSES \cup RESUMABLE_STATUSES
    => CanTransition(tasks[me.task], me.goal)

\* A paused task stays paused until a client resumes or cancels it: neither a worker
\* finishing late nor the reconciler nor a restart moves it.
PauseSticks ==
  [][\A t \in Tasks : tasks[t].status = "paused" /\ tasks'[t] # tasks[t] =>
       \E c \in Clients : threads[c].task = t /\ threads'[c] # threads[c]]_vars

\* A worker that lost its generation (the row's version moved while it worked, by a pause and a
\* resume, say) writes nothing over the newer one but a failure, and that only where the task is
\* at work again: _record_failure reads the row anew and never compares it with what the worker
\* claimed.
StaleWorkerOnlyFails ==
  [][\A w \in Workers : LET t == threads[w].task IN
       /\ threads[w].pc \in Holding /\ threads'[w] # threads[w] /\ tasks'[t] # tasks[t]
       /\ tasks[t].version # threads[w].cur.version
       => /\ tasks'[t].status \in {"recoverable_failed", "terminal_failed"}
          /\ tasks[t].status \notin TERMINAL_STATUSES \cup RESUMABLE_STATUSES]_vars

\* A created or ready task is claimed, unless somebody suspends it or the executor closes.
SafeTasksClaimed ==
  \A t \in Tasks : t \in SafeTasks ~> t \notin SafeTasks \/ closing

\* No task is stuck in an active status, not even when the executor is closed while
\* it is queued: its handler is run until the task has left it.
NoTaskStuckActive ==
  \A t \in Tasks :
    tasks[t].status \in ACTIVE_STATUSES ~> tasks[t].status \notin ACTIVE_STATUSES
=============================================================================
