--------------------------- MODULE TaskRepository ---------------------------
(***************************************************************************)
(* TaskRepository (novel_crawler/task_engine/repository.py): the tables     *)
(* tasks, task_events and task_interaction_leases of tasks.db, shared by    *)
(* several callers.  A caller reads a row with get_task, keeps it, and      *)
(* later passes the version it read to an operation; every operation is one *)
(* BEGIN IMMEDIATE transaction, hence one action.  An operation that raises *)
(* rolls back and is not a step.                                           *)
(***************************************************************************)
EXTENDS TaskModel, Sequences

CONSTANTS
  Tasks,       \* task ids
  Callers,     \* controllers, executors and services; each has its own lease owner_id
  LeaseTtl,    \* interaction_ttl_seconds, in ticks
  MaxVersion,  \* bound on tasks.version
  MaxTime      \* bound on the wall clock

ASSUME RepositoryAssumption ==
  /\ LeaseTtl \in Nat \ {0}
  /\ MaxVersion \in Nat
  /\ MaxTime \in Nat
  /\ NONE \notin Callers

VARIABLES
  tasks,   \* task_id -> row
  events,  \* task_id -> its task_events rows in event_id order
  leases,  \* task_id -> its task_interaction_leases row
  seen,    \* caller -> task_id -> the row it last got from the repository
  now      \* wall clock

vars == <<tasks, events, leases, seen, now>>

Event == [task_version : Nat, from_status : TaskStatus \cup {NONE}, to_status : TaskStatus]
NoLease == [owner |-> NONE, expires_at |-> 0]
Lease == [owner : Callers \cup {NONE}, expires_at : Nat]

Live(t) == leases[t].owner # NONE /\ leases[t].expires_at > now

TypeOK ==
  /\ tasks \in [Tasks -> TaskRow \cup {NoRow}]
  /\ events \in [Tasks -> Seq(Event)]
  /\ leases \in [Tasks -> Lease]
  /\ seen \in [Callers -> [Tasks -> TaskRow \cup {NoRow}]]
  /\ now \in Nat

Init ==
  /\ tasks = [t \in Tasks |-> NoRow]
  /\ events = [t \in Tasks |-> <<>>]
  /\ leases = [t \in Tasks |-> NoLease]
  /\ seen = [c \in Callers |-> [t \in Tasks |-> NoRow]]
  /\ now = 0

-----------------------------------------------------------------------------
\* The version comparison every operation starts with (and MaxVersion).
VersionMatches(c, t) ==
  /\ tasks[t].status # "absent"
  /\ seen[c][t].status # "absent"
  /\ seen[c][t].version = tasks[t].version
  /\ tasks[t].version < MaxVersion

\* UPDATE tasks, INSERT INTO task_events, and the record handed back to the caller.
Write(c, t, row) ==
  /\ tasks' = [tasks EXCEPT ![t] = row]
  /\ events' = [events EXCEPT ![t] =
       Append(@, [task_version |-> row.version,
                  from_status  |-> tasks[t].status,
                  to_status    |-> row.status])]
  /\ seen' = [seen EXCEPT ![c][t] = row]
  /\ UNCHANGED now

SetLease(t, lease) == leases' = [leases EXCEPT ![t] = lease]

create_task(c, t) ==
  /\ tasks[t].status = "absent"
  /\ tasks' = [tasks EXCEPT ![t] = NewTask]
  /\ events' = [events EXCEPT ![t] =
       <<[task_version |-> 0, from_status |-> NONE, to_status |-> "created"]>>]
  /\ seen' = [seen EXCEPT ![c][t] = NewTask]
  /\ UNCHANGED <<leases, now>>

get_task(c, t) ==
  /\ tasks[t].status # "absent"
  /\ seen' = [seen EXCEPT ![c][t] = tasks[t]]
  /\ UNCHANGED <<tasks, events, leases, now>>

transition(c, t, to) ==
  /\ VersionMatches(c, t)
  /\ CanTransition(tasks[t], to)
  /\ Write(c, t, Transitioned(tasks[t], to))
  /\ UNCHANGED leases

require_cleanup(c, t) ==
  /\ VersionMatches(c, t)
  /\ tasks[t].resume_gate = "none"    \* otherwise it returns the row as it is
  /\ tasks[t].status \in CleanupSources
  /\ Write(c, t, Gated(tasks[t]))
  /\ SetLease(t, NoLease)

\* Mutant: the gate is lowered without its 'cleanup_completed' event.
complete_cleanup_gate_unlogged(c, t) ==
  /\ VersionMatches(c, t)
  /\ tasks[t].status = "recoverable_failed" /\ tasks[t].resume_gate = "cleanup"
  /\ tasks' = [tasks EXCEPT ![t] = CleanedUp(tasks[t])]
  /\ seen' = [seen EXCEPT ![c][t] = CleanedUp(tasks[t])]
  /\ UNCHANGED <<events, leases, now>>

complete_cleanup_gate(c, t) ==
  /\ VersionMatches(c, t)
  /\ tasks[t].status = "recoverable_failed" /\ tasks[t].resume_gate = "cleanup"
  /\ Write(c, t, CleanedUp(tasks[t]))
  /\ UNCHANGED leases

-----------------------------------------------------------------------------
\* The interaction lease of a waiting task.

\* Only AdaptiveTaskController calls it, with a row it read in one of these
\* statuses: probe_handler in the first, capture_acquisition_result, which the
\* composition of this program never calls, in any.  The operation itself checks
\* the table and neither the resume origin nor the cleanup gate.
WaitingSources == {"probing", "validating", "crawling"}

Waiting(row) ==
  [status |-> "waiting_for_user", version |-> row.version + 1,
   resume_status |-> NONE, resume_gate |-> row.resume_gate]

transition_to_waiting_with_lease(c, t) ==
  /\ VersionMatches(c, t)
  /\ seen[c][t].status \in WaitingSources
  /\ "waiting_for_user" \in ALLOWED_TRANSITIONS(tasks[t].status)
  /\ Write(c, t, Waiting(tasks[t]))
  /\ SetLease(t, [owner |-> c, expires_at |-> now + LeaseTtl])

\* The version does not move: a row read before the renewal still matches after it.
renew_interaction_lease(c, t) ==
  /\ tasks[t].status = "waiting_for_user"
  /\ seen[c][t].version = tasks[t].version
  /\ seen[c][t].status # "absent"
  /\ leases[t].owner = c
  /\ SetLease(t, [owner |-> c, expires_at |-> now + LeaseTtl])
  /\ UNCHANGED <<tasks, events, seen, now>>

release_interaction_lease(c, t) ==
  /\ leases[t].owner = c
  /\ SetLease(t, NoLease)
  /\ UNCHANGED <<tasks, events, seen, now>>

\* Mutant: the version comparison alone decides, the lease is not read again.
recover_lost_interaction_unchecked(c, t, lease_now) ==
  /\ VersionMatches(c, t)
  /\ tasks[t].status = "waiting_for_user"
  /\ lease_now \in 0..now
  /\ Write(c, t, Lost(tasks[t]))
  /\ SetLease(t, NoLease)

\* The orphan sweep passes the clock it read before it listed the waiting tasks.
recover_lost_interaction(c, t, lease_now) ==
  /\ VersionMatches(c, t)
  /\ tasks[t].status = "waiting_for_user"
  /\ ~ (leases[t].owner # NONE /\ leases[t].expires_at > lease_now)
  /\ Write(c, t, Lost(tasks[t]))
  /\ SetLease(t, NoLease)

Tick ==
  /\ now < MaxTime
  /\ now' = now + 1
  /\ UNCHANGED <<tasks, events, leases, seen>>

Operation(c, t) ==
  \/ create_task(c, t)
  \/ get_task(c, t)
  \/ \E to \in TaskStatus : transition(c, t, to)
  \/ require_cleanup(c, t)
  \/ complete_cleanup_gate(c, t)
  \/ transition_to_waiting_with_lease(c, t)
  \/ renew_interaction_lease(c, t)
  \/ release_interaction_lease(c, t)
  \/ \E lease_now \in 0..now : recover_lost_interaction(c, t, lease_now)

Next == Tick \/ \E c \in Callers, t \in Tasks : Operation(c, t)

Spec == Init /\ [][Next]_vars

-----------------------------------------------------------------------------
(* What the repository promises its callers. *)

\* A version names one row: a caller whose version still matches holds the current
\* status, origin and gate, so no decision is taken on a row that has changed.
\* (Optimistic locking in transition and its siblings; the lease has no version.)
VersionNamesRow ==
  \A c \in Callers, t \in Tasks :
    seen[c][t].status # "absent" =>
      /\ tasks[t].status # "absent"
      /\ seen[c][t].version <= tasks[t].version
      /\ seen[c][t].version = tasks[t].version => seen[c][t] = tasks[t]

\* The event log is the history of the row: one event per version, each starting
\* where the one before ended, the last one at the row's status.
\* (_validated_resume_origin rebuilds a resume origin from exactly this chain.)
EventChain ==
  \A t \in Tasks :
    LET log == events[t] IN
    /\ Len(log) = IF tasks[t].status = "absent" THEN 0 ELSE tasks[t].version + 1
    /\ \A i \in 1..Len(log) :
         /\ log[i].task_version = i - 1
         /\ log[i].from_status = IF i = 1 THEN NONE ELSE log[i - 1].to_status
    /\ tasks[t].status # "absent" => log[Len(log)].to_status = tasks[t].status

\* A task has a resume origin exactly while it is suspended, whichever of the
\* operations suspended it: executor.resume silently gives up on one without.
OriginWhileSuspended ==
  \A t \in Tasks :
    tasks[t].resume_status # NONE <=> tasks[t].status \in RESUMABLE_STATUSES

\* The cleanup gate is up only on a recoverable failure, the one status in which
\* complete_cleanup_gate can lower it: a gated task is never stuck elsewhere.
GateOnlyOnFailure ==
  \A t \in Tasks :
    tasks[t].resume_gate = "cleanup" => tasks[t].status = "recoverable_failed"

\* A suspended task goes back to the origin stored when it was suspended, however
\* many operations (a cleanup gate put on a paused task) come in between, or ends.
ReturnsToOrigin ==
  [][\A t \in Tasks :
       tasks[t].status \in RESUMABLE_STATUSES /\ tasks'[t] # tasks[t] =>
         \/ tasks'[t].status \in Exits
         \/ tasks'[t].status = tasks[t].resume_status
         \/ /\ tasks'[t].status \in RESUMABLE_STATUSES
            /\ tasks'[t].resume_status = tasks[t].resume_status]_tasks

\* Nobody takes an unexpired lease from its owner except by gating the task for
\* cleanup: an orphan sweep that listed the task before the owner renewed its
\* lease, which moves no version, does not declare the interaction lost.
LiveLeaseKept ==
  [][\A t \in Tasks :
       Live(t) /\ leases'[t] = NoLease =>
         \/ tasks'[t] = tasks[t]
         \/ tasks'[t].resume_gate = "cleanup"]_<<tasks, leases>>
=============================================================================
