------------------------- MODULE AdaptiveController -------------------------
(***************************************************************************)
(* AdaptiveTaskController (task_engine/integration.py) at work: it probes   *)
(* tasks, keeps the private handles of those that wait for a person or for  *)
(* a cleanup, and carries what the person answers to the service and back   *)
(* to the task's row.  Probes run in executor workers, at most one for a    *)
(* task; the application's lock admits one client operation at a time.      *)
(*                                                                         *)
(* Every database transaction, every section under the controller's _lock   *)
(* and every call of the service is a step of its own.  What a thread is    *)
(* still to do is a sequence of calls; a step takes the first and puts what *)
(* the call leads to in its place.                                          *)
(***************************************************************************)
EXTENDS TaskModel, AdaptiveService, SequencesExt

CONSTANTS
  MaxInteractions,  \* max_interactions
  PauseFrom,        \* statuses in which a client asks for a pause
  MaxOps,           \* for each wiring, a bound on probes, client operations and expiries
  MaxRestarts       \* bound on the times the process dies and starts again

ASSUME ControllerAssumption ==
  /\ IsFiniteSet(Tasks) /\ MaxInteractions \in Nat \ {0} /\ MaxOps \in [Wirings -> Nat] /\ MaxRestarts \in Nat
  /\ PauseFrom \subseteq TaskStatus

Client == 0
Threads == Tasks \cup {Client}   \* a task's worker is called by the task

VARIABLES
  tasks,         \* the tasks table
  leases,        \* the task_interaction_leases table; live until expires_at
  owner,         \* _owner_id and _owner_epoch of the running process
  interactions,  \* _interactions, without the reservations
  reserved,      \* the tasks with a reservation in _interactions
  sessions,      \* the service's handles
  queued,        \* tasks given to the executor, and not yet taken by a worker
  todo,          \* what each thread is still to do
  closed,        \* what close() has returned, or will
  ops

vars == <<tasks, leases, owner, interactions, reserved, sessions, queued, todo, closed, wiring, ops>>
data == <<tasks, leases, interactions, reserved, sessions>>
env == <<owner, queued, closed, ops>>

NoLease == [owner |-> 0, live |-> FALSE]

\* _PrivateInteraction.  id is the object's identity, lock its lock's: an entry that
\* replaces another keeps the lock.
NoInteraction == [id |-> 0, kind |-> "none", original |-> "none", handle |-> 0,
                  lock |-> 0, expired |-> FALSE]

CleanupKinds == {"cleanup", "cancel_pending"}

\* A call: its name, and those of its arguments it has.
Call(op, t) == [op |-> op, task |-> t, row |-> NoRow, to |-> NONE,
                answer |-> A("failed"), entry |-> NoInteraction]
RowCall(op, t, row) == [Call(op, t) EXCEPT !.row = row]
EntryCall(op, t, e) == [Call(op, t) EXCEPT !.entry = e]
AnswerCall(op, t, a) == [Call(op, t) EXCEPT !.answer = a]
Transition(t, row, to) == [RowCall("transition", t, row) EXCEPT !.to = to]

Init ==
  /\ tasks = [t \in Tasks |-> NewTask]
  /\ leases = [t \in Tasks |-> NoLease]
  /\ owner = 1
  /\ interactions = [t \in Tasks |-> NoInteraction]
  /\ reserved = {} /\ queued = {}
  /\ sessions = NoSessions
  /\ todo = [p \in Threads |-> <<>>]
  /\ closed = "no"
  /\ wiring \in Wirings
  /\ ops = 0

-----------------------------------------------------------------------------
(* Threads, locks and entries. *)

Idle(p) == todo[p] = <<>>
AllIdle == \A p \in Threads : Idle(p)
Doing(p, op) == ~ Idle(p) /\ Head(todo[p]).op = op
Arg(p) == Head(todo[p])
TaskOf(p) == Arg(p).task

\* A lock is held by the thread that is still to unlock it, which it does as soon as nothing
\* is left to do under the lock.
Locked(lock) == \E p \in Threads : \E c \in ToSet(todo[p]) : c.op = "unlock" /\ c.entry.lock = lock
Unlocked(calls) == IF calls # <<>> /\ Head(calls).op = "unlock" THEN Tail(calls) ELSE calls

Then(p, calls) ==
  /\ todo' = [todo EXCEPT ![p] = Unlocked(calls \o Tail(@))]
  /\ UNCHANGED wiring

\* A step that reads and decides, and one that asks the service.
Decides(p, calls) == Then(p, calls) /\ UNCHANGED <<data, env>>
Asks(p, outs, After(_)) == \E o \in outs : sessions' = o.sessions /\ Then(p, After(o.answer))

Start(p, calls) ==
  /\ Idle(p) /\ ops < MaxOps[wiring]
  /\ ops' = ops + 1
  /\ todo' = [todo EXCEPT ![p] = calls]
  /\ UNCHANGED wiring

Entries == {t \in Tasks : interactions[t] # NoInteraction}

\* Every entry the table or a call still names, and an identity none of them has.
Known == {interactions[t] : t \in Tasks} \cup UNION {{c.entry : c \in ToSet(todo[p])} : p \in Threads}
Unused(S) == CHOOSE n \in 1..(Cardinality(S) + 1) : n \notin S

\* An exception in place of the service's answer: the static one lets none through, except
\* out of a confirmation, where it counts as a failed answer.
OrRaise(outs) == IF wiring = Static THEN outs ELSE outs \cup Same(sessions, {A("raised")})

Fresh(c) == tasks[c.task].version = c.row.version
Put(t, row) == tasks' = [tasks EXCEPT ![t] = row]
SetLease(t, lease) == leases' = [leases EXCEPT ![t] = lease]
Mine(t) == leases[t].owner = owner
OwnsLease(t) == Mine(t) /\ leases[t].live

-----------------------------------------------------------------------------
(* The table of interactions. *)

\* The reservation becomes the entry.
_store_result_handle(p) ==
  /\ Doing(p, "store")
  /\ LET old == interactions[TaskOf(p)] IN
       interactions' = [interactions EXCEPT ![TaskOf(p)] =
         [NoInteraction EXCEPT
            !.id = Unused({e.id : e \in Known}),
            !.lock = IF old # NoInteraction THEN old.lock ELSE Unused({e.lock : e \in Known}),
            !.kind = Arg(p).answer.kind, !.handle = Arg(p).answer.handle]]
  /\ reserved' = reserved \ {TaskOf(p)}
  /\ Then(p, <<>>)
  /\ UNCHANGED <<tasks, leases, sessions, env>>

\* The entry keeps the lock and the handle of the one it is made from, and that one's kind.
_store_cancel_pending(p) ==
  /\ Doing(p, "store_cancel_pending")
  /\ LET e == Arg(p).entry IN
       interactions' = [interactions EXCEPT ![TaskOf(p)] =
         [e EXCEPT !.id = Unused({k.id : k \in Known}), !.kind = "cancel_pending", !.expired = FALSE,
            !.original = IF e.kind = "cancel_pending" THEN e.original ELSE e.kind]]
  /\ Then(p, <<>>)
  /\ UNCHANGED <<tasks, leases, reserved, sessions, env>>

_drop(p) ==
  /\ Doing(p, "drop")
  /\ interactions' = [interactions EXCEPT ![TaskOf(p)] = NoInteraction]
  /\ Then(p, <<>>)
  /\ UNCHANGED <<tasks, leases, reserved, sessions, env>>

_release_lease(p) ==
  /\ Doing(p, "release")
  /\ IF Mine(TaskOf(p)) THEN SetLease(TaskOf(p), NoLease) ELSE UNCHANGED leases
  /\ Then(p, <<>>)
  /\ UNCHANGED <<tasks, interactions, reserved, sessions, env>>

\* A cleanup's entry outlives its task.
_clear_if_terminal(p) ==
  /\ Doing(p, "view")
  /\ LET t == TaskOf(p) IN
       Decides(p, IF tasks[t].status \in TERMINAL_STATUSES /\ interactions[t].kind \notin CleanupKinds
                  THEN <<Call("drop", t)>> ELSE <<>>)

-----------------------------------------------------------------------------
(* The row, compared and swapped: an operation that meets another version,   *)
(* or a row it does not apply to, raises, and the controller carries on.     *)

\* Mutant: the row is written whatever its version.
_transition_blind(p) ==
  /\ Doing(p, "transition")
  /\ LET c == Arg(p) IN
       IF CanTransition(c.row, c.to) THEN Put(c.task, Transitioned(c.row, c.to)) ELSE UNCHANGED tasks
  /\ Then(p, <<>>)
  /\ UNCHANGED <<leases, interactions, reserved, sessions, env>>

_transition(p) ==
  /\ Doing(p, "transition")
  /\ LET c == Arg(p) IN
       IF Fresh(c) /\ CanTransition(c.row, c.to) THEN Put(c.task, Transitioned(c.row, c.to))
       ELSE UNCHANGED tasks
  /\ Then(p, <<>>)
  /\ UNCHANGED <<leases, interactions, reserved, sessions, env>>

\* A gated task's lease is deleted in the same transaction.
require_cleanup(p) ==
  /\ Doing(p, "require_cleanup")
  /\ LET c == Arg(p) IN
       IF Fresh(c) /\ c.row.status \in CleanupSources
       THEN Put(c.task, Gated(c.row)) /\ SetLease(c.task, NoLease)
       ELSE UNCHANGED <<tasks, leases>>
  /\ Then(p, <<>>)
  /\ UNCHANGED <<interactions, reserved, sessions, env>>

\* A live lease keeps the task waiting.
recover_lost_interaction(p) ==
  /\ Doing(p, "lost")
  /\ LET c == Arg(p) IN
       IF Fresh(c) /\ c.row.status = "waiting_for_user" /\ ~ leases[c.task].live
       THEN Put(c.task, Lost(c.row)) /\ SetLease(c.task, NoLease)
       ELSE UNCHANGED <<tasks, leases>>
  /\ Then(p, <<>>)
  /\ UNCHANGED <<interactions, reserved, sessions, env>>

-----------------------------------------------------------------------------
(* _apply_result. *)

Apply(t, row, a) ==
  CASE a.kind = "found" -> <<RowCall("hand_over", t, row)>>
    [] a.kind \in {"verification", "confirmation"} -> <<[RowCall("wait", t, row) EXCEPT !.answer = a]>>
    [] a.kind = "rejected" ->
         <<Transition(t, row, "terminal_failed"), Call("release", t), Call("drop", t)>>
    [] a.kind = "cancelled" ->
         <<Transition(t, row, "cancelled"), Call("release", t), Call("drop", t)>>
    [] a.kind = "cleanup" ->
         <<AnswerCall("store", t, a)>>
           \o (IF row.status = "waiting_for_user" THEN <<Call("release", t)>> ELSE <<>>)
           \o <<RowCall("require_cleanup", t, row)>>
    [] OTHER ->
         IF row.status = "waiting_for_user"
         THEN <<Call("drop", t), Call("release", t), RowCall("lost", t, row)>>
         ELSE <<Transition(t, row, "recoverable_failed")>>

\* An answer is applied to the row as it is then.
_apply_result(p) ==
  /\ Doing(p, "apply")
  /\ Decides(p, Apply(TaskOf(p), tasks[TaskOf(p)], Arg(p).answer))

\* REUSED, REGISTERED: the row the transition returns, or meets, is what gets scheduled.
hand_over(p) ==
  /\ Doing(p, "hand_over")
  /\ LET c == Arg(p)
         moves == c.row.status # "validating" /\ Fresh(c) /\ CanTransition(c.row, "validating")
         result == IF c.row.status = "validating" THEN c.row
                   ELSE IF moves THEN Transitioned(c.row, "validating") ELSE tasks[c.task] IN
       /\ IF moves THEN Put(c.task, result) ELSE UNCHANGED tasks
       /\ Then(p, <<Call("release", c.task), Call("drop", c.task), RowCall("schedule", c.task, result)>>)
  /\ UNCHANGED <<leases, interactions, reserved, sessions, env>>

\* The executor may refuse the task.
_schedule_or_fail(p) ==
  /\ Doing(p, "schedule")
  /\ LET c == Arg(p) IN
       \/ /\ queued' = IF c.row.status \in ACTIVE_STATUSES THEN queued \cup {c.task} ELSE queued
          /\ Then(p, <<>>)
       \/ /\ c.row.status \in ACTIVE_STATUSES
          /\ Then(p, <<Transition(c.task, c.row, "recoverable_failed")>>)
          /\ UNCHANGED queued
  /\ UNCHANGED <<data, owner, closed, ops>>

\* WAITING_FOR_USER, CONFIRMATION_REQUIRED: the lease is written first, the handle stored next.
\* A handle that comes too late is stored all the same, to be given up through the table.
wait(p) ==
  /\ Doing(p, "wait")
  /\ LET c == Arg(p)
         t == c.task
         waits == c.row.status = "waiting_for_user"
         allowed == waits \/ "waiting_for_user" \in ALLOWED_TRANSITIONS(c.row.status)
         store == AnswerCall("store", t, c.answer)
         leased == SetLease(t, [owner |-> owner, live |-> TRUE]) /\ Then(p, <<store>>) IN
       \/ /\ Fresh(c) /\ waits
          /\ IF Mine(t) THEN leased ELSE Then(p, <<>>) /\ UNCHANGED leases
          /\ UNCHANGED tasks
       \/ /\ Fresh(c) /\ ~ waits /\ allowed
          /\ Put(t, [c.row EXCEPT !.status = "waiting_for_user", !.version = @ + 1,
                                  !.resume_status = NONE])
          /\ leased
       \/ /\ ~ Fresh(c) \/ ~ allowed
          /\ Then(p, <<store, Call("abandon", t)>>)
          /\ UNCHANGED <<tasks, leases>>
  /\ UNCHANGED <<interactions, reserved, sessions, env>>

-----------------------------------------------------------------------------
(* Giving a handle up. *)

_cancel_pending_operation(e) ==
  IF e.original = "confirmation" THEN cancel_config(sessions, e.handle) ELSE cancel(sessions, e.handle)

\* A cleanup's handle is not given up.
HandleCancelled(e) ==
  CASE e.kind = "verification" -> OrRaise(cancel(sessions, e.handle))
    [] e.kind = "cancel_pending" -> OrRaise(_cancel_pending_operation(e))
    [] e.kind = "confirmation" -> cancel_config(sessions, e.handle)
    [] e.kind = "cleanup" -> Same(sessions, {A("cancelled")})

\* What each caller does when the handle could not be cancelled, has left a cleanup, or is gone.
AfterCancel(t, e, for, a) ==
  CASE a.kind = "raised" /\ for = "abandon" -> <<EntryCall("store_cancel_pending", t, e)>>
    [] a.kind = "raised" /\ for # "abandon" -> <<EntryCall("enter_cancel_pending", t, e)>>
    [] a.kind = "cleanup" /\ for = "abandon" -> <<AnswerCall("store", t, a)>>
    [] a.kind = "cleanup" /\ for = "terminal" -> <<AnswerCall("store", t, a), Call("retry_stored", t)>>
    [] a.kind = "cleanup" /\ for \in {"expired", "closing"} -> <<AnswerCall("apply", t, a)>>
    [] a.kind \notin {"raised", "cleanup"} /\ for = "abandon" -> <<Call("drop", t)>>
    [] a.kind \notin {"raised", "cleanup"} /\ for = "expired" -> <<Call("expired", t)>>
    [] OTHER -> <<Call("release", t), Call("drop", t)>>

_best_effort_cancel(p) ==
  /\ Doing(p, "cancel_handle")
  /\ LET c == Arg(p) IN
       \E o \in HandleCancelled(c.entry) :
         /\ sessions' = o.sessions
         /\ closed' = IF c.to = "closing" /\ o.answer.kind \in {"raised", "cleanup"}
                      THEN "incomplete" ELSE closed
         /\ Then(p, AfterCancel(c.task, c.entry, c.to, o.answer))
  /\ UNCHANGED <<tasks, leases, interactions, reserved, owner, queued, ops>>

CancelHandle(t, e, for) == [EntryCall("cancel_handle", t, e) EXCEPT !.to = for]

\* Whatever the table holds now is given up.
abandon(p) ==
  /\ Doing(p, "abandon")
  /\ LET t == TaskOf(p) IN
       Decides(p, IF t \in Entries THEN <<CancelHandle(t, interactions[t], "abandon")>> ELSE <<>>)

_enter_cancel_pending(p) ==
  /\ Doing(p, "enter_cancel_pending")
  /\ LET t == TaskOf(p) IN
       Decides(p, <<EntryCall("store_cancel_pending", t, Arg(p).entry)>>
                    \o (IF tasks[t].status \in TERMINAL_STATUSES THEN <<>>
                        ELSE <<RowCall("require_cleanup", t, tasks[t])>>))

-----------------------------------------------------------------------------
(* Under an interaction's lock, and only if the entry is still the table's. *)

Acquired(p, op) == Doing(p, op) /\ ~ Locked(Arg(p).entry.lock)
Under(e, calls) == calls \o <<EntryCall("unlock", 0, e)>>
Current(c) == interactions[c.task].id = c.entry.id

\* continue_verification and confirm_config: the task waits, under this process's lease.
_act(p) ==
  /\ Acquired(p, "act")
  /\ LET c == Arg(p)
         row == tasks[c.task] IN
       Decides(p, IF Current(c) /\ row.status = "waiting_for_user" /\ OwnsLease(c.task)
                  THEN Under(c.entry, <<[c EXCEPT !.op = "operation", !.row = row]>>) ELSE <<>>)

\* An exception counts as a failed answer.
operation(p) ==
  /\ Doing(p, "operation")
  /\ LET c == Arg(p) IN
       Asks(p, OrRaise(IF c.entry.kind = "verification"
                       THEN continue_verification(sessions, c.entry.handle)
                       ELSE confirm_config(sessions, c.entry.handle)),
               LAMBDA a : Apply(c.task, c.row, a))
  /\ UNCHANGED <<tasks, leases, interactions, reserved, env>>

\* The lease of a waiting task is renewed before its handle is touched.
cancel_interaction(p) ==
  /\ Acquired(p, "cancel_interaction")
  /\ LET c == Arg(p)
         goes == Current(c) /\ OwnsLease(c.task) IN
       /\ leases' = IF goes /\ tasks[c.task].status = "waiting_for_user"
                    THEN [leases EXCEPT ![c.task].live = TRUE] ELSE leases
       /\ Then(p, IF goes THEN Under(c.entry, <<[c EXCEPT !.op = "cancel_operation"]>>) ELSE <<>>)
  /\ UNCHANGED <<tasks, interactions, reserved, sessions, env>>

\* A token has no answer: its task is cancelled.
cancel_operation(p) ==
  /\ Doing(p, "cancel_operation")
  /\ LET c == Arg(p) IN
       Asks(p, HandleCancelled(c.entry),
               LAMBDA a : IF a.kind = "raised" THEN <<EntryCall("enter_cancel_pending", c.task, c.entry)>>
                          ELSE <<AnswerCall("apply", c.task, a)>>)
  /\ UNCHANGED <<tasks, leases, interactions, reserved, env>>

\* Its caller may have checked that the entry is the table's, or not (sweep).
retry_cleanup_of(p) ==
  /\ Acquired(p, "retry_cleanup")
  /\ LET c == Arg(p) IN
       Decides(p, IF Current(c) \/ c.to = "unchecked"
                  THEN Under(c.entry, <<EntryCall("retry", c.task, c.entry)>>) ELSE <<>>)

\* _retry_cleanup_locked, _retry_cancel_pending_locked: an exception only renews the deadline
\* of the object the thread holds.
_retry_locked(p) ==
  /\ Doing(p, "retry")
  /\ LET c == Arg(p)
         e == c.entry IN
       Asks(p, OrRaise(IF e.kind = "cancel_pending" THEN _cancel_pending_operation(e)
                       ELSE retry_cleanup(sessions, e.handle)),
               LAMBDA a : <<[c EXCEPT !.op = "retried", !.answer = a]>>)
  /\ UNCHANGED <<tasks, leases, interactions, reserved, env>>

retry_raised(p) ==
  /\ Doing(p, "retried") /\ Arg(p).answer.kind = "raised"
  /\ LET t == TaskOf(p) IN
       interactions' = IF Current(Arg(p)) THEN [interactions EXCEPT ![t].expired = FALSE] ELSE interactions
  /\ Then(p, <<>>)
  /\ UNCHANGED <<tasks, leases, reserved, sessions, env>>

\* The gate comes down before the handle goes and the answer is applied; without a gate, only
\* a cancellation's entry goes.
retry_answered(p) ==
  /\ Doing(p, "retried") /\ Arg(p).answer.kind # "raised"
  /\ LET c == Arg(p)
         row == tasks[c.task] IN
       Decides(p, IF c.answer.kind = "cleanup" THEN <<AnswerCall("store", c.task, c.answer)>>
                  ELSE IF row.resume_gate = "cleanup"
                       THEN <<[RowCall("complete_cleanup_gate", c.task, row) EXCEPT !.answer = c.answer]>>
                       ELSE (IF c.entry.kind = "cancel_pending" THEN <<Call("drop", c.task)>> ELSE <<>>)
                              \o Apply(c.task, row, c.answer))

complete_cleanup_gate(p) ==
  /\ Doing(p, "complete_cleanup_gate")
  /\ LET c == Arg(p) IN
       IF Fresh(c)
       THEN /\ Put(c.task, CleanedUp(c.row))
            /\ Then(p, <<Call("drop", c.task)>> \o Apply(c.task, CleanedUp(c.row), c.answer))
       ELSE Then(p, <<>>) /\ UNCHANGED tasks
  /\ UNCHANGED <<leases, interactions, reserved, sessions, env>>

-----------------------------------------------------------------------------
(* sweep: first the entries of tasks that have ended, then those that have run out. *)

\* The calls for each of these tasks, in the order the table happens to have.
InSomeOrder(S, Calls(_), p, last) ==
  \E order \in SetToSeqs(S) : Then(p, [i \in DOMAIN order |-> Calls(order[i])] \o last)

sweep(p) ==
  /\ Doing(p, "sweep")
  /\ sessions' \in expire_sweep(sessions)
  /\ InSomeOrder(Entries, LAMBDA t : Call("sweep_terminal", t), p, <<Call("sweep_expired", 0)>>)
  /\ UNCHANGED <<tasks, leases, interactions, reserved, env>>

\* The entry is taken as it is, without the identity check.
Unchecked(t, e) == [EntryCall("retry_cleanup", t, e) EXCEPT !.to = "unchecked"]

sweep_terminal(p) ==
  /\ Doing(p, "sweep_terminal")
  /\ LET t == TaskOf(p)
         e == interactions[t] IN
       Decides(p, IF tasks[t].status \notin TERMINAL_STATUSES \/ t \notin Entries THEN <<>>
                  ELSE IF e.kind \in CleanupKinds THEN <<Unchecked(t, e)>>
                       ELSE <<CancelHandle(t, e, "terminal")>>)

\* The cleanup a cancelled handle has left is retried at once.
retry_stored(p) ==
  /\ Doing(p, "retry_stored")
  /\ LET e == interactions[TaskOf(p)] IN
       Decides(p, IF e.kind = "cleanup" THEN <<Unchecked(TaskOf(p), e)>> ELSE <<>>)

sweep_expired(p) ==
  /\ Doing(p, "sweep_expired")
  /\ InSomeOrder({t \in Entries : interactions[t].expired},
                 LAMBDA t : EntryCall("expire", t, interactions[t]), p, <<>>)
  /\ UNCHANGED <<data, env>>

\* Mutant: a cleanup that has run out is retried through the method that takes the lock again.
expire_relocking(p) ==
  /\ Acquired(p, "expire")
  /\ LET c == Arg(p) IN
       Decides(p, IF ~ Current(c) THEN <<>>
                  ELSE Under(c.entry, IF c.entry.kind \in CleanupKinds
                                      THEN <<EntryCall("retry_cleanup", c.task, c.entry)>>
                                      ELSE <<CancelHandle(c.task, c.entry, "expired")>>))

expire(p) ==
  /\ Acquired(p, "expire")
  /\ LET c == Arg(p) IN
       Decides(p, IF ~ Current(c) THEN <<>>
                  ELSE Under(c.entry, IF c.entry.kind \in CleanupKinds
                                      THEN <<EntryCall("retry", c.task, c.entry)>>
                                      ELSE <<CancelHandle(c.task, c.entry, "expired")>>))

\* Mutant: the lease of a handle that has run out is not released.
expired_leased(p) ==
  /\ Doing(p, "expired")
  /\ LET t == TaskOf(p) IN
       Decides(p, (IF tasks[t].status = "waiting_for_user" THEN <<RowCall("lost", t, tasks[t])>> ELSE <<>>)
                    \o <<Call("drop", t)>>)

\* A task that waited for the handle is lost; another only loses its entry.
expired(p) ==
  /\ Doing(p, "expired")
  /\ LET t == TaskOf(p) IN
       Decides(p, (IF tasks[t].status = "waiting_for_user"
                   THEN <<Call("release", t), RowCall("lost", t, tasks[t])>> ELSE <<>>)
                    \o <<Call("drop", t)>>)

-----------------------------------------------------------------------------
(* probe_handler. *)

\* The executor's worker claims a new task, or runs one it was given to be probed.
probe_handler(t) ==
  /\ closed = "no"
  /\ tasks[t].status = "created" \/ (tasks[t].status = "probing" /\ t \in queued)
  /\ queued' = queued \ {t}
  /\ LET row == IF tasks[t].status = "created" THEN Transitioned(tasks[t], "probing") ELSE tasks[t] IN
       /\ Put(t, row)
       /\ Start(t, <<Call("sweep", t), RowCall("reserve", t, row)>>)
  /\ UNCHANGED <<leases, owner, interactions, reserved, sessions, closed>>

_reserve_capacity(p) ==
  /\ Doing(p, "reserve")
  /\ LET t == TaskOf(p)
         full == /\ t \notin Entries \cup reserved
                 /\ Cardinality(Entries) + Cardinality(reserved) >= MaxInteractions IN
       /\ reserved' = IF t \in Entries \/ full THEN reserved ELSE reserved \cup {t}
       /\ Then(p, IF full THEN <<Transition(t, Arg(p).row, "recoverable_failed")>>
                  ELSE <<[Arg(p) EXCEPT !.op = "check"], Call("unreserve", t)>>)
  /\ UNCHANGED <<tasks, leases, interactions, sessions, env>>

\* The row is read once more before the service is asked.
check(p) ==
  /\ Doing(p, "check")
  /\ Decides(p, IF Fresh(Arg(p)) THEN <<[Arg(p) EXCEPT !.op = "resolve"]>> ELSE <<>>)

resolve_task(p) ==
  /\ Doing(p, "resolve")
  /\ Asks(p, OrRaise(resolve(sessions, TaskOf(p))), LAMBDA a : Apply(TaskOf(p), Arg(p).row, a))
  /\ UNCHANGED <<tasks, leases, interactions, reserved, env>>

_release_reservation(p) ==
  /\ Doing(p, "unreserve")
  /\ reserved' = reserved \ {TaskOf(p)}
  /\ Then(p, <<>>)
  /\ UNCHANGED <<tasks, leases, interactions, sessions, env>>

-----------------------------------------------------------------------------
(* The client's operations: ApplicationService admits one at a time. *)

\* An interaction's operation ends with a view of the task.
_interaction_action(t, op, kinds) ==
  /\ closed = "no"
  /\ interactions[t].kind \in kinds
  /\ Start(Client, <<EntryCall(op, t, interactions[t]), Call("view", t)>>)
  /\ UNCHANGED <<data, owner, queued, closed>>

\* pause_task, cancel_task and resume_task, each one step: TaskExecutor.tla has them in full.
Control(t, row) ==
  /\ closed = "no"
  /\ Put(t, row)
  /\ Start(Client, <<Call("view", t)>>)
  /\ UNCHANGED <<leases, owner, interactions, reserved, sessions, closed>>

pause_task(t) ==
  /\ tasks[t].status \in PauseFrom /\ CanTransition(tasks[t], "paused")
  /\ UNCHANGED queued
  /\ Control(t, Transitioned(tasks[t], "paused"))

cancel_task(t) ==
  /\ CanTransition(tasks[t], "cancelled")
  /\ UNCHANGED queued
  /\ Control(t, Transitioned(tasks[t], "cancelled"))

resume_task(t) ==
  /\ tasks[t].status \in RESUMABLE_STATUSES
  /\ CanTransition(tasks[t], tasks[t].resume_status)
  /\ queued' = IF tasks[t].resume_status \in ACTIVE_STATUSES THEN queued \cup {t} ELSE queued
  /\ Control(t, Transitioned(tasks[t], tasks[t].resume_status))

\* The other handlers' progress with a task whose configuration is known.
work(t) ==
  /\ closed = "no"
  /\ tasks[t].status \in {"ready", "crawling"} \/ (tasks[t].status = "validating" /\ t \in queued)
  /\ queued' = queued \ {t}
  /\ \E to \in {"ready", "crawling", "completed"} :
       CanTransition(tasks[t], to) /\ Put(t, Transitioned(tasks[t], to))
  /\ Start(t, <<>>)
  /\ UNCHANGED <<leases, owner, interactions, reserved, sessions, closed>>

\* The application shuts the executor down first: nothing else runs.  A close that could not
\* clean up may be called again.
close ==
  /\ closed # "complete" /\ AllIdle
  /\ closed' = "complete"
  /\ \E order \in SetToSeqs(Entries) :
       Start(Client, [i \in DOMAIN order |-> Call("close_entry", order[i])])
  /\ UNCHANGED <<data, owner, queued>>

\* Mutant: an interaction that is closed keeps its lease.
close_entry_leased(p) ==
  /\ Doing(p, "close_entry")
  /\ Decides(p, <<Call("drop", TaskOf(p))>>)

close_entry(p) ==
  /\ Doing(p, "close_entry")
  /\ LET t == TaskOf(p)
         e == interactions[t] IN
       Decides(p, IF t \notin Entries THEN <<>>
                  ELSE IF e.kind \in CleanupKinds
                       THEN <<EntryCall("retry_cleanup", t, e), Call("view", t), Call("close_check", t)>>
                       ELSE <<CancelHandle(t, e, "closing")>>)

close_check(p) ==
  /\ Doing(p, "close_check")
  /\ LET t == TaskOf(p) IN
       /\ closed' = IF t \in Entries THEN "incomplete" ELSE closed
       /\ Then(p, IF t \in Entries THEN <<>> ELSE <<Call("release", t), Call("drop", t)>>)
  /\ UNCHANGED <<data, owner, queued, ops>>

-----------------------------------------------------------------------------
(* Time, and the process. *)

lease_expires(t) ==
  /\ leases[t].live /\ ops < MaxOps[wiring]
  /\ leases' = [leases EXCEPT ![t].live = FALSE]
  /\ ops' = ops + 1
  /\ UNCHANGED <<tasks, owner, interactions, reserved, sessions, queued, todo, closed, wiring>>

\* A handle's minutes outlast the steps that store it and give it up at once.
deadline_passes(t) ==
  /\ \A p \in Threads : \A c \in ToSet(todo[p]) : c.task = t => c.op \notin {"abandon", "cancel_handle", "drop"}
  /\ t \in Entries /\ ~ interactions[t].expired /\ ops < MaxOps[wiring]
  /\ interactions' = [interactions EXCEPT ![t].expired = TRUE]
  /\ ops' = ops + 1
  /\ UNCHANGED <<tasks, leases, owner, reserved, sessions, queued, todo, closed, wiring>>

\* Before the new process serves anyone, the executor fails what was interrupted and the
\* controller the tasks whose lease nobody holds: _recover_orphaned_waiting.
Recovered(t) ==
  CASE tasks[t].status \in ACTIVE_STATUSES -> Transitioned(tasks[t], "recoverable_failed")
    [] tasks[t].status = "waiting_for_user" /\ ~ leases[t].live -> Lost(tasks[t])
    [] OTHER -> tasks[t]

restart ==
  /\ owner <= MaxRestarts
  /\ owner' = owner + 1
  /\ tasks' = [t \in Tasks |-> Recovered(t)]
  /\ leases' = [t \in Tasks |-> IF tasks[t].status = "waiting_for_user" /\ ~ leases[t].live
                                THEN NoLease ELSE leases[t]]
  /\ interactions' = [t \in Tasks |-> NoInteraction]
  /\ reserved' = {}
  /\ sessions' = NoSessions
  /\ queued' = {}
  /\ todo' = [p \in Threads |-> <<>>]
  /\ closed' = "no"
  /\ UNCHANGED <<wiring, ops>>

Step(p) ==
  \/ _store_result_handle(p) \/ _store_cancel_pending(p) \/ _drop(p) \/ _release_lease(p)
  \/ _clear_if_terminal(p) \/ _transition(p) \/ require_cleanup(p) \/ recover_lost_interaction(p)
  \/ _apply_result(p) \/ hand_over(p) \/ _schedule_or_fail(p) \/ wait(p)
  \/ _best_effort_cancel(p) \/ abandon(p) \/ _enter_cancel_pending(p)
  \/ _act(p) \/ operation(p) \/ cancel_interaction(p) \/ cancel_operation(p)
  \/ retry_cleanup_of(p) \/ _retry_locked(p) \/ retry_raised(p) \/ retry_answered(p)
  \/ complete_cleanup_gate(p)
  \/ sweep(p) \/ sweep_terminal(p) \/ retry_stored(p) \/ sweep_expired(p) \/ expire(p) \/ expired(p)
  \/ _reserve_capacity(p) \/ check(p) \/ resolve_task(p) \/ _release_reservation(p)
  \/ close_entry(p) \/ close_check(p)

Request(t) ==
  \/ probe_handler(t) \/ work(t) \/ pause_task(t) \/ cancel_task(t) \/ resume_task(t)
  \/ _interaction_action(t, "act", {"verification", "confirmation"})
  \/ _interaction_action(t, "cancel_interaction", {"verification", "confirmation"})
  \/ _interaction_action(t, "retry_cleanup", CleanupKinds)
  \/ lease_expires(t) \/ deadline_passes(t)

Next == close \/ restart \/ (\E t \in Tasks : Request(t)) \/ (\E p \in Threads : Step(p))

Spec == Init /\ [][Next]_vars
-----------------------------------------------------------------------------
TypeOK ==
  /\ tasks \in [Tasks -> TaskRow]
  /\ leases \in [Tasks -> [owner : Nat, live : BOOLEAN]]
  /\ owner \in Nat /\ ops \in Nat
  /\ interactions \in [Tasks -> [id : Nat, lock : Nat, handle : Handles \cup {0}, expired : BOOLEAN,
                                 kind : CleanupKinds \cup {"none", "verification", "confirmation"},
                                 original : {"none", "verification", "confirmation"}]]
  /\ reserved \subseteq Tasks
  /\ sessions \in [Handles -> Session]
  /\ queued \subseteq Tasks
  /\ \A p \in Threads : \A c \in ToSet(todo[p]) : c.task \in Tasks \cup {0}
  /\ closed \in {"no", "complete", "incomplete"}
  /\ wiring \in Wirings

\* No call about this task is left.
NobodyAt(t) == \A p \in Threads : \A c \in ToSet(todo[p]) : c.task # t

\* A task that waits under this process's lease can be answered: once no thread is at work on
\* it, the table holds the token to confirm.  The lease is written before the handle is stored
\* and released before it is dropped (wait, expired); a sweep, a late probe and the
\* client meet in between.
AnswerableWhileLeased ==
  wiring = Static =>
    \A t \in Tasks :
      tasks[t].status = "waiting_for_user" /\ OwnsLease(t) /\ NobodyAt(t) =>
        interactions[t].kind = "confirmation"

\* Once close() has returned True no task waits under this process's lease: the next process
\* recovers every waiting task at once and not when the lease has run out.
ClosedTasksRecover ==
  wiring = Static /\ closed = "complete" /\ Idle(Client) =>
    \A t \in Tasks : tasks[t].status = "waiting_for_user" => ~ OwnsLease(t)

\* While any thread has work left, one of them does not wait for an interaction's lock, which
\* its holder could not take a second time (interaction.lock, in sweep, _act, retry_cleanup).
NoDeadlock ==
  AllIdle \/ \E p \in Threads :
    ~ Idle(p) /\ ~ (Arg(p).op \in {"act", "cancel_interaction", "retry_cleanup", "expire"}
                    /\ Locked(Arg(p).entry.lock))

\* A late answer never moves a task somebody has paused: it leaves the pause for the status it
\* was paused in, or for good (probe_handler's and _apply_result's version checks).
PausedStaysPaused ==
  [][wiring = Static => \A t \in Tasks :
       tasks[t].status = "paused" /\ tasks'[t].status # "paused" =>
         tasks'[t].status \in Exits \cup {tasks[t].resume_status}]_vars
=============================================================================
