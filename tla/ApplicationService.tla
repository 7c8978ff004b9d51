-------------------------- MODULE ApplicationService --------------------------
(***************************************************************************)
(* ApplicationService (application/service.py): the one boundary through    *)
(* which the command line and the web server use the executor, the          *)
(* controller, the task repository and the crawler, and the order in which  *)
(* it closes them.  Its lock is held for the whole of an operation, except  *)
(* for the end of create_crawl_task, which reads its answer without it.     *)
(*                                                                         *)
(* The parts are here as far as closing tells them apart: which of them an  *)
(* operation and a thread of the executor use, the executor's queue and     *)
(* whether its threads have ended.  What they do to a task is in            *)
(* TaskExecutor and AdaptiveController.  A part that fails, as it may in    *)
(* any operation and while it is closed, can be asked again.                *)
(***************************************************************************)
EXTENDS Naturals, FiniteSets

CONSTANTS
  Callers,     \* threads that call operations: one for each request at work
  Main,        \* the thread that closes the service
  Workers,     \* the executor's worker threads
  Reconciler,  \* its other thread
  QueueSize,
  Operations   \* the operations that are called

NoOne == "no one"

ASSUME ServiceAssumption ==
  /\ QueueSize \in Nat \ {0}
  /\ NoOne \notin Callers /\ Main \notin Callers /\ Reconciler \notin Workers

VARIABLES
  state,    \* _ServiceState
  lock,     \* who holds the service's lock
  closed,   \* the parts that are closed
  closing,  \* what close is about, and what it has returned
  threads,  \* the executor's threads
  stopping, \* the executor's _closing
  queued,   \* how many tasks are in the executor's queue
  allowed,  \* the process-wide switch for third-party sites is set
  calls     \* the operation each caller is at

partVars == <<closed, threads, stopping, queued>>
serviceVars == <<state, lock, closed, closing, threads, stopping, queued, allowed, calls>>

Threads == Workers \cup {Reconciler}

Parts == {"executor", "controller", "repository", "crawler"}

TaskQueries == {"get_task", "list_tasks", "task_events"}
TaskControls == {"pause_task", "cancel_task"}
Interactions == {"continue_interaction", "confirm_interaction", "cancel_interaction", "retry_cleanup"}
BookQueries == {"list_books", "book_progress", "book_report", "export_book"}
Exports == {"export_easyvoice_book", "convert_easyvoice_book"}
Maintenance == {"delete_book", "validate_book", "fix_book_titles", "deduplicate_book", "book_logs",
                "retry_failed_chapters"}
Batches == {"export_all_books", "retry_all_failed_chapters", "preview_book_chapter"}
Reports == {"book_stats", "validate_site_config"}
Scheduling == {"create_crawl_task", "resume_task"}

TaskOperations == TaskQueries \cup TaskControls \cup Interactions
BookOperations == BookQueries \cup Maintenance \cup Batches \cup Reports

\* The parts an operation uses under the lock; a view of a task reads two of them.
Uses(operation) ==
  IF operation \in BookOperations \cup Exports THEN {"crawler"}
  ELSE IF operation \in Scheduling THEN {"executor", "repository", "controller"}
  ELSE {"repository", "controller"}

ViewUses == {"repository", "controller"}

\* A thread reads the repository to the end; its handlers use the controller and the crawler's
\* storage.
ThreadUses == {"repository", "controller", "crawler"}

NoCall == [at |-> "none", operation |-> "none", third |-> FALSE, result |-> "none"]

TypeOK ==
  /\ state \in {"open", "closing", "closed"}
  /\ lock \in Callers \cup {Main, NoOne}
  /\ closed \subseteq Parts
  /\ closing \in {"no", "join", "true", "false"} \cup Parts
  /\ threads \in [Threads -> {"waiting", "busy", "ended"}]
  /\ stopping \in BOOLEAN /\ queued \in 0..QueueSize
  /\ allowed \in BOOLEAN
  /\ calls \in [Callers -> [at : {"none", "called", "submit", "locked", "view", "returned"},
                            operation : Operations \cup {"none"},
                            third : BOOLEAN,
                            result : {"none", "answered", "consent"}]]

InitService ==
  /\ state = "open" /\ lock = NoOne
  /\ closed = {} /\ closing = "no"
  /\ threads = [t \in Threads |-> "waiting"]
  /\ stopping = FALSE /\ queued = 0
  /\ allowed \in BOOLEAN
  /\ calls = [c \in Callers |-> NoCall]

------------------------------------------------------------------------------
(* Operations.                                                              *)

Allowed(third) == third => allowed

CallIs(c, operations, at) == calls[c].at = at /\ calls[c].operation \in operations

Goes(c, at) == calls' = [calls EXCEPT ![c].at = at]
Returns(c, result) == calls' = [calls EXCEPT ![c].at = "returned", ![c].result = result]

\* Taking the lock and finding the service open, or not.
_operation(c) ==
  \/ CallIs(c, Operations \ {"create_crawl_task"}, "called")
  \/ CallIs(c, Operations, "submit")
_ensure_open(c) ==
  /\ lock = NoOne
  /\ \/ state = "open" /\ lock' = c /\ Goes(c, "locked")
     \/ state # "open" /\ Returns(c, "answered") /\ UNCHANGED lock

Enter(c) ==
  /\ _operation(c) /\ _ensure_open(c)
  /\ UNCHANGED <<state, closing, allowed, partVars>>

\* create_crawl_task reads the switch before it asks for the lock.
CheckSource(c) ==
  /\ CallIs(c, {"create_crawl_task"}, "called")
  /\ IF Allowed(calls[c].third) THEN Goes(c, "submit") ELSE Returns(c, "consent")
  /\ UNCHANGED <<state, lock, closing, allowed, partVars>>

\* The end of an operation under the lock.  What it answers, and whether a part failed, is left out.
Leaves(c, operations, result) ==
  /\ CallIs(c, operations, "locked")
  /\ lock' = NoOne /\ Returns(c, result)
  /\ UNCHANGED <<state, closing, allowed, partVars>>

task_or_book_operation(c) == Leaves(c, TaskOperations \cup BookOperations, "answered")

\* A book's text leaves the program only where its site may be crawled.
export_easyvoice(c) == Leaves(c, Exports, IF Allowed(calls[c].third) THEN "answered" ELSE "consent")

Accepts == ~stopping /\ queued < QueueSize

\* The task is in the queue afterwards, or the queue does not take it, or there is no need.
Submits(c, operation) ==
  /\ CallIs(c, {operation}, "locked")
  /\ lock' = NoOne
  /\ queued' \in {queued} \cup (IF Accepts THEN {queued + 1} ELSE {})
  /\ UNCHANGED <<state, closing, allowed, closed, threads, stopping>>

resume_task(c) == Submits(c, "resume_task") /\ Returns(c, "answered")

\* A row and its place in the queue; a task the queue does not take is paused, and the caller has
\* an error for its answer.
create_crawl_task(c) ==
  /\ Submits(c, "create_crawl_task")
  /\ IF queued' = queued THEN Returns(c, "answered") ELSE Goes(c, "view")

\* The answer of create_crawl_task, read without the lock: a failure gives the minimal view.
task_view(c) ==
  /\ calls[c].at = "view"
  /\ Returns(c, "answered")
  /\ UNCHANGED <<state, lock, closing, allowed, partVars>>

Step(c) ==
  \/ Enter(c) \/ CheckSource(c)
  \/ task_or_book_operation(c) \/ export_easyvoice(c)
  \/ resume_task(c) \/ create_crawl_task(c) \/ task_view(c)

------------------------------------------------------------------------------
(* The executor's threads.  The workers work the queue off before they end. *)

Unchanged == UNCHANGED <<state, lock, closed, closing, stopping, allowed, calls>>

worker_takes(t) ==
  /\ threads[t] = "waiting" /\ queued > 0
  /\ threads' = [threads EXCEPT ![t] = "busy"] /\ queued' = queued - 1
  /\ Unchanged

\* What it did may have put a task in the queue: the next step of its own, or a resume that waited.
worker_finishes(t) ==
  /\ threads[t] = "busy"
  /\ threads' = [threads EXCEPT ![t] = "waiting"]
  /\ queued' \in {queued} \cup (IF Accepts THEN {queued + 1} ELSE {})
  /\ Unchanged

worker_ends(t) ==
  /\ threads[t] = "waiting" /\ stopping /\ queued = 0
  /\ threads' = [threads EXCEPT ![t] = "ended"] /\ UNCHANGED queued
  /\ Unchanged

worker(t) == worker_takes(t) \/ worker_finishes(t) \/ worker_ends(t)

\* The reconciler submits what the queue did not take before.
reconcile_deferred ==
  /\ threads[Reconciler] = "waiting"
  /\ \/ stopping /\ threads' = [threads EXCEPT ![Reconciler] = "ended"] /\ UNCHANGED queued
     \/ ~stopping /\ queued < QueueSize /\ queued' = queued + 1 /\ UNCHANGED threads
  /\ Unchanged

------------------------------------------------------------------------------
(* close: one part after the other.  It stops at the first one that does    *)
(* not close; the next call goes on from there.                             *)

CloseReturns(result) == closing' = result /\ lock' = NoOne

close_begins ==
  /\ closing = "no" /\ lock = NoOne
  /\ IF state = "closed" THEN closing' = "true" /\ UNCHANGED <<state, lock>>
     ELSE closing' = "executor" /\ state' = "closing" /\ lock' = Main
  /\ UNCHANGED <<closed, threads, queued, stopping, allowed, calls>>

shutdown ==
  /\ closing = "executor"
  /\ closing' = "join" /\ stopping' = TRUE
  /\ UNCHANGED <<state, lock, closed, threads, queued, allowed, calls>>

Ended == \A t \in Threads : threads[t] = "ended"

\* Mutant: a timeout is taken for the end.
shutdown_returns_late ==
  /\ closing = "join"
  /\ closing' = "controller" /\ closed' = closed \cup {"executor"}
  /\ UNCHANGED <<state, lock, threads, queued, stopping, allowed, calls>>

\* The threads of an executor that was closed before have ended.
shutdown_returns ==
  /\ closing = "join"
  /\ IF Ended THEN closing' = "controller" /\ closed' = closed \cup {"executor"} /\ UNCHANGED lock
     ELSE CloseReturns("false") /\ UNCHANGED closed
  /\ UNCHANGED <<state, threads, queued, stopping, allowed, calls>>

close_part ==
  /\ closing \in {"controller", "repository", "crawler"}
  /\ \/ /\ closed' = closed \cup {closing}
        /\ \/ closing # "crawler" /\ UNCHANGED <<state, lock>>
              /\ closing' = [controller |-> "repository", repository |-> "crawler"][closing]
           \/ closing = "crawler" /\ state' = "closed" /\ CloseReturns("true")
     \/ /\ closing \notin closed
        /\ CloseReturns("false") /\ UNCHANGED <<state, closed>>
  /\ UNCHANGED <<threads, queued, stopping, allowed, calls>>

close == close_begins \/ shutdown \/ shutdown_returns \/ close_part

\* Control-C in the thread that closes leaves the lock.
close_interrupted ==
  /\ closing' = "no"
  /\ lock' = IF lock = Main THEN NoOne ELSE lock
  /\ UNCHANGED <<state, closed, threads, queued, stopping, allowed, calls>>
=============================================================================
