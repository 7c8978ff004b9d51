# Novel-Crawler in TLA+

Specifications of Novel-Crawler's task engine, its storage, its configurations, its
browser sessions and the service and web server over them, the TLC configurations that
check small instances of them, and TLAPS proofs of the properties that matter most for
every instance. File names below are relative to `novel_crawler/`.

## The system

A crawl task is a row of `tasks.db`. Worker threads move it from `created` to a
terminal status; the text it downloads goes to files that rows of `crawler.db`
point to. How a site is read is a configuration, kept as revision files in a registry.
Several threads of one process, and several processes, use the databases and the
registry.

| Component | State | Operations | Talks to |
| --- | --- | --- | --- |
| Status machine, `task_engine/models.py` | - | the transition table | repository |
| Repository, `task_engine/repository.py` | `tasks`, `task_events`, `checkpoints`, `task_interaction_leases` | create, transition, cleanup gate, lease, checkpoint, migration | every component that moves a task |
| Executor, `task_engine/executor.py` | queue, `_scheduled`, `_scheduled_versions`, `_pending_resumes`, worker and reconciler threads | submit, schedule_active, pause, cancel, resume, recovery, shutdown | repository, handlers |
| Adaptive controller, `task_engine/integration.py` | private interactions, probe flights, reservations | probe handler, user actions, sweeps, cleanup retries | repository, executor (`schedule_active`), configuration manager |
| Pipeline, `application/pipeline.py` | rate limiter | the handlers `validating` and `crawling` | registry, HTTP, storage, checkpoints |
| Batch runner, `task_engine/chapter_batch.py` | local variables, the checkpoint `chapter-progress` | one run over the planned chapters | storage, checkpoints |
| Storage, `core/storage.py` | `books`, `chapters`, `deletion_jobs`, content files | claim, mark_done, mark_failed, release, reset; delete, retry of deletions | file system |
| Editing commands, `core/dedup.py`, `core/title_fixer.py` | - | dedup --remove, fix-titles | storage |
| Legacy crawler, `core/crawler.py` | cache | direct downloads, retry_failed, export | storage |
| Registry, `adaptation/registry.py` | revision files, manifest, quarantine | register, transition, list, recover | file system |
| Configuration manager, `adaptation/config_manager.py` | confirmation tickets, locks of domains | resolve, confirm, cancel, revalidate | registry, HTTP |
| Browser service, `browser/adaptive.py` | cleanup contexts | the manager's operations, with verifications | manager, coordinator |
| Browser sessions, `browser/sessions.py`, `coordinator.py`, `driver.py` | profiles and their metadata, domain locks, verifications, the attempt ledger | acquire, clear, recover; begin, continue, cancel, clean up | file system, Playwright |
| Service, `application/service.py` | open / closing / closed | the public operations, close | everything above |
| Web server, `web/server.py`, and command line, `cli.py` | connections, the switch for third-party sites | requests, the end by Control-C | service |
| HTTP, sites, exporters, EasyVoice | sockets, job tables | I/O and presentation | pipeline, service |

How they meet:

- *Optimistic locking.* Whoever changes a task passes the version it read; a
  stale version is a conflict. Events and the row are written in one transaction.
- *A generation.* A worker owns the task it claimed at one version. Pause, cancel
  and recovery end the generation by moving the version; the handler notices at its
  next `check_control`.
- *Two hand-overs.* The probe handler hands `validating` to the scheduler
  (`schedule_active`), and a resume hands its task to a worker, at once or through
  `_pending_resumes` when an older worker still has the task's place.
- *A claim.* A chapter is downloaded under a lease with a generation; the legacy
  crawler downloads without one and must keep off claimed chapters.
- *A lease and a handle.* A task that waits for a person has a lease in the database, so
  that other processes leave it alone, and in memory the handle its answer goes to.
- *Two stores.* A confirmed chapter is a row and a file, written in that database's
  write reservation but not atomically.

What is hard about it: threads that act on rows read earlier, a lock released
between two steps that belong together, queues that are full or closing, processes
that die and are started again, leases that run out, and files that outlive a rolled
back transaction, parts that are closed while others use them. `PROJECT.json` lists every such place under `hazards`, with the
property that covers it or the reason none does yet.

## Modules

| Module | Models | Builds on |
| --- | --- | --- |
| `TaskModel` | statuses, the transition table, the row each operation writes | |
| `TaskRepository` | the task row, events and lease, with callers that hold old rows | `TaskModel` |
| `TaskRepository_proofs` | proofs about it and about `ChapterBatch` | `TaskRepository`, `ChapterBatch` |
| `TaskExecutor` | queue, workers, reconciler, clients, restart | `TaskModel` |
| `TaskExecutor_proofs` | proofs about it | `TaskExecutor` |
| `AdaptiveService` | what the controller may be answered, by either service | |
| `AdaptiveController` | interactions, leases, user actions, sweep, close, restart | `TaskModel`, `AdaptiveService` |
| `AdaptiveController_proofs` | proofs about it | `AdaptiveController` |
| `ChapterStorage` | chapter rows, claims and files | |
| `ChapterEdits` | dedup --remove and fix-titles over a book being downloaded | `ChapterStorage` |
| `ChapterStorage_proofs` | proofs about both | `ChapterEdits` |
| `ChapterBatch` | runs of the batch runner, the checkpoint | |
| `DeletionJobs` | deletion of books: manifests, runners, retries | |
| `DeletionJobs_proofs` | proofs about it | `DeletionJobs` |
| `ConfigHistory` | what the registry promises: histories that only grow | |
| `ConfigRegistry` | revision files, manifest, quarantine, recovery; implements `ConfigHistory` | `ConfigHistory` |
| `ConfigManager` | resolve, confirm, cancel, revalidation over the registry | `ConfigRegistry` |
| `ConfigManager_proofs` | proofs about both, the refinement of `ConfigHistory` among them | `ConfigManager` |
| `BrowserSessions` | profiles, metadata, tombstones, domain locks | |
| `VerificationCoordinator` | verifications, their browsers, ledger, clean-ups, headless reads | `BrowserSessions` |
| `VerificationCoordinator_proofs` | proofs about it | `VerificationCoordinator` |
| `ApplicationService` | the service's lock and states, close in its order | |
| `WebServer` | requests, connections, permission, drain, Control-C | `ApplicationService` |
| `WebServer_proofs` | proofs about both | `WebServer` |
| `MC...` | the constants of the runs | the module of that name |

The rows of `TaskModel` (`Transitioned`, `Gated`, `Lost` and so on) are shared by
`TaskRepository`, `TaskExecutor` and `AdaptiveController`, so what is proved of those
rows is true of the rows the executor's and the controller's threads write.

### TaskRepository

State: `tasks`, `events` and `leases` are the three tables, `seen` the last row each
caller got from the repository, `now` the wall clock. Every operation is one
`BEGIN IMMEDIATE` transaction and so one action with the operation's name; an
operation that raises changes nothing and is no step. Because a caller may act on a
row of any age, every interleaving of reads and writes is there.
`transition_to_waiting_with_lease` does not check the resume origin or the gate; it is
called only by the controller, with a row in one of `WaitingSources`. The sweep's clock
is an argument of `recover_lost_interaction`, read at any moment before it.

### TaskExecutor

State: the executor's own fields by name, the `tasks` table, `todo` (what the
reconciler has listed) and `threads`, the program counter and local variables of each
worker, client and the reconciler. One step is one transaction of the task database,
or one section under the executor's lock with the reads the code makes inside it; what
a thread read before is kept in `threads[p].cur`. `Worker` is `_worker`,
`_claim`, `_run_claimed` and `_record_failure`; `finish` is the `finally` block. The
handlers are those of `application/composition.py`: the probe handler writes its
result itself (`apply_result`) and calls `schedule_active`; `validating` and `crawling`
return a status or raise. A fetch, a parse or a batch is one outcome, chosen freely. A
client creates, pauses, cancels, resumes, acts on an interaction or closes; the
service's lock lets one client in at a time, so there is one. `restart` loses
everything but the table and applies the startup recovery to it.

### AdaptiveController and AdaptiveService

Here the controller is at work and the executor is a set of tasks it was given. Every
transaction, every section under `_lock` and every call of the service is a step; what a
thread is still to do is a sequence of calls (`todo`), of which a step takes the first.
The workers probe, one client at a time acts on a task, the sweep runs wherever the
service runs it, `close` and `restart` end the process. The service's operations are
sets: every answer it may give, with the sessions it is left with. `wiring` chooses
between the static service, which `composition.py` builds, and the browser service,
which is library code with tests of its own.

`capture_acquisition_result` and `_late_resume_status` are never called and left out, as
is the sharing of one probe between two calls for one task, which the executor never
makes. A deadline passes while nobody is giving up that very handle.

### ChapterStorage

State: `rows` and `files` of one book's chapters, `reserved` (whose transaction has the
database's write reservation), `locks` (who is inside a process's `Storage`), and the
`runners` that download. `mark_done` is three steps because it replaces the file
before it commits: the checks (`mark_done`), the replacement, the commit; with an I/O
error, the roll-back and the removal of the file. Every other operation is one
transaction. A runner claims for a task (`OwnerOf`) or, as the legacy crawler does, for
nobody. A crash rolls the open transaction back and leaves the files.

### ChapterEdits

The two commands that edit a book, beside the runners of `ChapterStorage`: `edits` has, for
each process that runs one, the chapters it has listed and not yet passed. `dedup --remove`
lists the done chapters whose body an earlier one has (`Duplicates`, one step; the files of
done chapters do not change meanwhile) and calls `mark_failed` for each. `fix-titles` lists
the done chapters, reads each file, and calls `mark_done` with the corrected content, in two
steps because nothing is locked in between. Neither holds a claim. Storage's digest is of
title and body and the duplicates' hash of the body alone, so a content has a `Number` and a
`Body`. Listed chapters are done and stay done, so of `mark_done` only the return and the
conflict of a done row are there. Similar bodies are only reported, and without `--remove`
the command changes nothing.

### ChapterBatch

State: status and claim of each chapter, the checkpoint, the task's version and the
local variables of each run. Two runs of the same task overlap when a new generation
starts before the old one has noticed, in this or in a recovered process. Here the
storage's operations are single steps and a lease may run out at any time.

### DeletionJobs

State: the books with the paths of their chapters, the content files, the cache trees,
the job of each deleted book, and where each runner is at a job. `delete_book` is the
transaction that takes the book away and writes its manifest; removing files, trees and
caches is a step for each thing, and `removes` says what happens when it is no longer
there or cannot be removed. A fault is a failing file or an interruption of the program.
A chapter of an old version of the program lies in a directory named by its book's
title, which two books can share; that no title is the number of a book is assumed.
Unsafe paths and the migration of old manifests are left out.

### ConfigHistory, ConfigRegistry, ConfigManager

`ConfigHistory` is the abstract specification: a configuration has a history of
statuses, which begins with `active`, grows along the transitions the code allows, and
is given up whole or not at all. `ConfigRegistry` has the files: `files[c][v]` is the
status a revision file holds, or that it is absent, damaged or in the quarantine, and
`manifest` what the manifest names. Every operation takes the lock, recovers and works;
every change of a file is a step, with a failure possible at each. `Visible(c)`, the
revisions that the manifest names (all that are there, without a readable manifest) or
nothing when one of them cannot be read, is the refinement mapping, and
`HistoriesOnlyGrow == History!Spec` the claim.

`ConfigManager` composes the registry's steps into `resolve`, `confirm` and `cancel` with
their locks, the attempts of a resolution, and the revalidation that decides about a
transition. All URLs are of one domain, because the locks are per domain. What a page
yields is one outcome. A file is damaged just before an operation reads it, or between
its scan and its use.

### BrowserSessions and VerificationCoordinator

`disk` is everything under the store's root: for each domain the metadata, the profile
and whose data is in it, the tombstone, the trash and what is quarantined. An operation
is the sequence of disks its writes lead through, and a fault ends it at an earlier one,
as a crash or a failed write does. `holder` is who has a domain's lock.

`VerificationCoordinator` has the verifications (`actives`), the browser of each
(`workers`), the outcomes remembered (`terminal`), the attempt ledger and its repairs,
and the headless reads. A step is a section under `_guard`, an operation of the ledger or
the store, or a command the browser's thread carries out; the browser's thread reports
its end on its own. Simplified: there is one page per domain; a launch does not outlast
its own timeout; metadata is damaged only while nobody uses the domain; waiting for a
lock is the call beginning when it has it; records of other pages may fill the ledger at
any time. Sizes, times and tampering are left out. This is library code with tests: the
production composition no longer starts it (`docs/ARCHITECTURE.md`).

### ApplicationService and WebServer

`ApplicationService` has what closing tells apart: the lock, the state, which parts are
closed, which part an operation uses (`Uses`) and whether it uses it without the lock
(`create_crawl_task` reads its answer after giving the lock back), the executor's queue
and threads. `close` is a step per part and returns at the first part that does not
close; a part that fails can be asked again. What an operation answers, and whether the
crawler failed in it, is not told apart.

`WebServer` is the rest of the process: the main thread builds the application, which
may fail half way, accepts requests, and after Control-C drains the handlers and closes;
each handler reads a request, asks for the permission of a third-party site if the
request gives one, calls and answers. Whether the server owns the application (three
attempts to close it) or the command line does (one) is chosen where it shows. Daemon
threads end with the main thread. A Control-C while the application is built, and the
command line's own setting of the switch, are left out.

## Runs

| Run | Properties | Shows |
| --- | --- | --- |
| `task_repository` | VersionNamesRow, EventChain, OriginWhileSuspended, ReturnsToOrigin, LiveLeaseKept | two callers, one task: locking, events, origins and lease |
| `executor_pool` | OneOwnerPerTask, PendingResumeIsCarried, ActiveIsOwned, RollbackIsAllowed, PauseSticks, StaleWorkerOnlyFails, NoTaskStuckActive | two workers on one task with a crash, a close and pauses after the first claim |
| `executor_backpressure` | SafeTasksClaimed | two tasks, a queue of one: refusals, roll-backs, and every task claimed in the end |
| `executor_overtaken` | NoTaskStuckActive (violated) | finding 1 |
| `controller_probe` | AnswerableWhileLeased, ClosedTasksRecover, NoDeadlock, PausedStaysPaused | two tasks, one place for an interaction, both services |
| `storage_process` | DoneIsConfirmed, NoDuplicateContent, DoneIsFinal, LiveClaimIsKept | three runners in a server and the editing commands beside it, with I/O errors and a crash |
| `storage_unlink` | DoneIsConfirmed (violated) | finding 2 |
| `batch_generations` | NothingSkipped, CompletedIsComplete, CheckpointAdvances | overlapping runs of two generations |
| `deletion_jobs` | KeepsContent, NoOrphanContent, JobsEnd | two runners, two books with shared titles, an interruption |
| `config_resolve` | HistoriesOnlyGrow, NoSecondActive, CancelledNeverRegistered, ResolutionEnds | two threads over the registry, with a failure and damage; the refinement |
| `browser_sessions` | NoForeignData, LeaseIsTracked, WithinCapacity, AttemptSettled, HasBrowser, OutcomeIsFinal | two verifications and a headless read of one domain |
| `web_server` | NothingUsesClosed, OperatorSwitchStays, ServerEnds | two handlers, the executor, two times Control-C |

The `TypeOK` of a module documents the shape of its state. It is proved for
`TaskRepository` and `ChapterStorage`, and no run spends time on it.

Bounds, and why they are enough:

- `task_repository`: one task, because no operation reads two; two callers, because a
  conflict needs two; six versions, enough to pause, gate, clean up and resume one
  task; two ticks of the clock and a lease of one, so that leases are live, renewed
  and run out.
- `executor_pool`: two workers, because two on one task is what must not happen; three
  client operations, enough to create, pause and resume; one crash.
  `executor_backpressure` has two tasks and a queue of one, so that the queue is full
  while a worker is busy. In `executor_pool` a task is paused and resumed while a worker has
  its place, so that the resume is noted, and a close makes the worker roll it back.
- `PauseFrom` says in which statuses a client pauses. `executor_pool` leaves out
  `created`: a pause there is finding 1, which `executor_overtaken` shows.
  `controller_probe` leaves out `waiting_for_user` (see the known behaviours).
- `controller_probe`: two tasks and one interaction, so that the second finds no place;
  five operations over the static service, three over the browser's, which is enough
  for every step of its clean-ups; one restart.
- `storage_process`: three runners are two tasks and a direct download, the three ways
  to meet at a chapter; two chapters and two contents, so that contents collide; a
  claim generation of two and a lease of one tick, so that a claim is lost and taken. The
  contents are one body under the titles of both chapters, which both commands object to;
  the commands run in a process of their own. Runners of two processes are in
  `storage_unlink`, and any number of either in the theorems.
- `batch_generations`: two runners and two versions make one overlap; a batch of one
  saves after every chapter.
- `deletion_jobs`: two books and two titles, so that a book is deleted while the other
  has its title; one chapter is enough to be shared or not; two runners for one job.
- `config_resolve`: two configurations, so that a second can be registered; three files
  fill the registry; one failure and one damaged file, anywhere.
- `browser_sessions`: two verifications in a pool of one, two attempts for one page, three
  sessions, one fault anywhere, three client operations besides what the browser does.
- `web_server`: two handlers and two places, a queue of one, one worker beside the
  reconciler, one operation of each kind that uses other parts or ends in another way.
  A second Control-C is the one that interrupts the drain or the close.
- `MaxVersion`, `MaxTime`, `MaxGeneration`, `MaxOps`, `MaxCrashes`, `MaxFaults`,
  `MaxFailures`, `MaxDamage`, `MaxRestarts`, `MaxIds` and `MaxInterrupts` bound counters
  and nothing else. Every run may reach a state without a step (all tasks ended, bounds
  used up), so deadlock is not an error in them.

Fairness. Weak fairness always, of a thread that has begun something, because threads
are scheduled, calls have timeouts and transactions end; nobody has to begin an
operation, to close, to fail or to crash.

- `TaskExecutor`: a worker, the reconciler and a client that has started an operation.
  Weak fairness of `Worker(w)` as a whole suffices, since a worker waits for nothing but
  the queue.
- `ConfigManager`: a thread's steps; the locks it waits for have timeouts.
- `DeletionJobs`: a runner at a job goes on, and some storage is opened again and again,
  as every start of the program does: `JobsEnd` needs that, and says nothing of a program
  that is never started again.
- `WebServer`: the main thread goes on towards the end and the handlers go on while it is
  there. The executor's threads need none: `shutdown` gives up at its timeout.

Symmetry is used in `batch_generations` over the runners and in `browser_sessions` over
the clients. No definition tells them apart,
and those runs check invariants and action properties only.

## Findings

1. A task paused in `created` keeps its queue item. When it is resumed, a worker may
   claim it before `_schedule_resumed` takes the lock (`executor.py:345`), which then
   overwrites what `schedule_active` would have recorded; the task is left in
   `validating` with no worker until the next restart.
2. `mark_done` (`core/storage.py:563`) rolls back before it unlinks the file it has
   just put at the chapter's path. Between the two another process may confirm the
   chapter, and its file is removed. The comment at line 520 calls the reservation the
   cross-process file commit lock.

## Known behaviours

What the models show of the code beyond the findings. The properties are stated so that
they hold with it, or the bounds keep it out where this says so.

Task engine:

- `_record_failure` (`executor.py:469`) reads the row again and writes the failure with the
  version it finds: a worker whose task was paused and resumed under it marks the new
  generation failed, although `docs/ARCHITECTURE.md:73` has every change use a version
  compare-and-swap and `tests/task_engine/test_executor.py:231` tests that a stale handler
  stops. `StaleWorkerOnlyFails` says that this is all a stale worker writes.
- A roll-back gives up after eight conflicts in a row (`executor.py:516`). In a worker it
  raises out of the `finally` block and ends the thread, which nothing replaces. No run has
  that many operations, and no property excludes it; `RollbackIsAllowed` is about the other
  way to the same end, a transition the table forbids (`executor.py:514`).
- The sweep (`integration.py:545`) drops an interaction that ran out while its task was
  paused and keeps the lease. Resumed, the task waits under a lease of this process with
  nothing to answer, until the lease runs out. `controller_probe` therefore lets nobody
  pause a task that waits.
- With the browser service, a clean-up retried while a probe has stored its handle and not
  yet raised the gate separates gate and handle. The controller's properties about tasks
  are stated for the static service.

Storage and registry:

- An old job retried late may remove the cache tree of a new book by the same site and
  title, and a running download makes the tree of a deleted book's cache again.
- A runner may return "completed" for a job another has just blocked, and one that makes a
  job pending again may overwrite another's "blocked" (`core/storage.py:896`).
- `dedup --remove` (`core/dedup.py:97`) marks nothing: it lists done chapters only, and the
  update of `mark_failed` leaves done rows alone. The docstring (line 93) says that
  duplicates are marked failed and the first is kept, `docs/USER_GUIDE.md:340` that the
  command changes or deletes local data.
- `fix-titles` (`core/title_fixer.py:70`) fixes nothing: `mark_done` refuses other content
  for a done row (`core/storage.py:536`), and the conflict ends the command at the first
  wrong title. The class says that it makes every title's number the chapter's (line 48);
  the tests run it with `dry_run` only. `DoneIsFinal` says of both commands that the fences
  hold against them, which is why they do not do what they promise.
- A revision found damaged while it is loaded is moved to the quarantine and the manifest
  still names it (`adaptation/registry.py:612`); recovery interrupted before its last write
  (line 697) leaves the same. If no other revision of that configuration is left, every
  later operation fails until the manifest is removed. `docs/REGISTRY.md:7` says that the
  next open rebuilds the manifest.

Browser sessions:

- A tombstone that is left over later removes the profile of a new session of its domain
  (`sessions.py:712`, which compares no session ids).
- The browser's end reported between a failed clean-up and its outcome lets
  `retry_cleanup` finish first; the outcome then asks for a clean-up nobody can do.
- `begin` may raise while the browser's thread later puts the verification on the clean-up
  list, whose token the caller never got.
- A browser half launched when its time is up is never closed, and its place is lost.
- Profiles in the quarantine count against `max_sessions` for ever.
- `acquire` waits for a stale domain's lock while it holds `allocation.lock`, which the
  ledger needs too.

Service and web server:

- A request that confirms a third-party site is refused (`web/server.py:1032`) when the
  switch is on already, because the operator set it or another request is at work.
  `docs/API.md:65` knows the missing confirmation only.
- A confirmation is a switch of the whole process (`web/server.py:1038`): while one request
  has it set, a book of a third-party site is exported for speech by a request without one,
  although `docs/USER_GUIDE.md:364` has it ticked before every such export. Of two that
  overlap, the earlier to end takes it from the other, and the later may leave it set for
  good. `OperatorSwitchStays` is about a switch that the operator set, and takes no side here.
- A Control-C between the count of a handler and the start of its thread
  (`server.py:214`) makes the drain wait until the user presses again.
- A second Control-C during the drain makes the command line close the application under
  the handlers; the answer of `create_crawl_task`, read without the lock, may then find
  closed parts.

## Proofs

Each theorem is proved for every value of the constants that the module's assumption
allows: any number of tasks, threads, chapters, books and files, and without the bounds of
the runs mattering. In each module an inductive invariant (`IInv`) is shown to hold first
and to be kept by every action, with one lemma for each action or for the step that
several of them come down to; TLC has checked each invariant on the module's run before.

`TaskRepository_proofs`, from `RepositoryAssumption`: `TypeCorrect`, `VersionsNameRows`,
`OriginsWhileSuspended`, `GatesOnlyOnFailure`, `EventsChain` and the action properties
`TasksReturnToOrigin` and `LiveLeasesKept`. The inductive invariant is
`TypeOK /\ VersionNamesRow /\ RowsInv`, where `RowsInv` says of each row that it has an
origin exactly while it is suspended and that a gate means a recoverable failure. The
last two are needed together: a transition keeps the gate, so only the fact that a
gated row may leave `recoverable_failed` for nothing but an end keeps it where it
belongs. There is a lemma for the row each operation writes, and one (`WriteStep`)
saying that writing such a row, with a version one higher, keeps every caller's rows
apart. `ChainsInv` adds for the events that the last one names the row's status and version.

The same module, from `BatchAssumption`: `NoChapterSkipped`,
`CompletedRunsAreComplete` and `CheckpointsAdvance`. `RunInv` relates a run's local
variables to the chapters: one that is no longer listed is done, or the run still owes it,
and everything it owes lies below `next`. It is true of superseded runs as well, because a
done chapter stays done. `NotBehind` says that a run with the checkpoint row's version is
not behind its `next_index`, so that saving never takes the row back.

`AdaptiveController_proofs`, from `ControllerAssumption`: `NoDeadlockEver` (`NoDeadlock`) for
either service, and `PausedStays` (`PausedStaysPaused`) for the static one, both from
`Soundness`. Its invariant speaks of the lists of calls in `todo`. `Queues` says in what
order calls may follow one another (`Follows`): what is done under an interaction's lock
comes before the one `unlock` that gives it up, and what takes a lock comes after; so whoever
holds a lock is never about to take one. `OneHolder` says that no two threads are to give up the
same lock; an identity taken for a new interaction has none (`UnusedIsNew`). `StaticOk` is
about the static service: `DataOk` says which interactions, handles and rows there are, and
`CallOk` and `PlaceOk` what a call still to be made knows of its task and in which place of
which thread it may stand. Each call of `Step` has a lemma that says which calls it leaves in its
place, and these come down to a few about lists (a head replaced, a head taken).
`PausedStays` then needs only that whoever writes a row holds the version it read.

`TaskExecutor_proofs`, from `ExecutorAssumption`: `TaskHasOneOwner`,
`PendingResumesAreCarried`, `PausedTasksStayPaused` and `StaleWorkersOnlyFail`.
`OneOwnerPerTask` counts, and its invariant does not: `OwnInv` says that the places of the
queue and the workers that hold a task are apart and are together the members of
`_scheduled`. It needs `ThreadsInv`, which says what a row a thread has read is still worth:
its version is not ahead of the table's, an equal version is an equal row, and each place
in the code remembers the statuses that led there. The two action properties follow from the
same invariant: a paused row has another version than any thread but a client's can write.

`ActiveTasksAreOwned` (`ActiveIsOwned`) is the fifth, under the hypothesis `Undisturbed`: the
service's lock admits one client, no client asks for a pause in `created`, and the queue has room
for every task. The first is what `application/service.py` does; without either of the others a
task may be paused before it is claimed, the second time by the pause that compensates a
submission to a full queue, and finding 1 follows. `ActiveIsOwned` alone is not inductive, for a
place in `_scheduled` says nothing of what its holder will do. `Served` says who takes the
task out of its status: a preclaimed item of the queue or a note in `_pending_resumes`, a worker
that still has the row's version or is recording a failure (`Drives`), or a thread on its way to
`schedule_active`, `_schedule_resumed` or a roll-back (`Helps`). It adds that an active row
whose version `_scheduled_versions` already has needs no such thread any more, which is what
lets `schedule_active` answer without queueing, and that a client which resumed a task
to `ready` finds it at work only in the hands of a worker. What every thread knows of the row
(`Knows`), above all that it has left `created` for good, rules out the disturbance.

`RollbacksAreAllowed` (`RollbackIsAllowed`) is the sixth, without that hypothesis. The table
refuses a roll-back to `recoverable_failed` only from `created`, and the other refusal is the
cleanup gate's. `SoundRow` says of every row that its gate is down except in
`recoverable_failed` and that only a paused row has `created` for its origin; so a task
resumed from `recoverable_failed` has left `created` for good (`Claimed`), and no step takes
that away again (`Writes`). `Returns` and `NotesInv` carry it from the resume to the roll-back: through
the client that schedules it, the note in `_pending_resumes` and the worker that takes the note
up (`Allows`). Eight conflicts in a row are no transition, and the theorem says nothing of them.

`ChapterStorage_proofs`, from `StorageAssumption` and `EditsAssumption`: `TypeCorrect`,
`ContentsAreDistinct`, `LiveClaimsAreKept`, when writes do not fail (`IoFails = FALSE`)
`DoneChaptersHaveFiles`, and, with the commands of `ChapterEdits`, `CommandsTyped` and
`DoneRowsAreFinal`. `NoDuplicateContent` is not inductive: the duplicate check and the
commit are separate steps. `WriterInv` closes the gap: a runner between the two holds the
reservation and what it checked, the claim included, is still true, because every step that
changes a row needs the reservation free. `FilesInv` adds that a runner about to commit has
its content on disk and that nobody is about to unlink. Without `IoFails = FALSE` the
theorem is false, which is finding 2. `ListsDone` says that a command lists done chapters only,
so that its steps change no row and every step of `ChapterEdits` is one of `ChapterStorage`
or none to chapters and runners (`EditRefines`).

`DeletionJobs_proofs`, from `DeletionAssumption`: `StoredContentIsKept` (`KeepsContent`)
and `LeftContentIsListed` (`NoOrphanContent`). Neither is inductive: a runner removes what
a manifest named when the book was deleted, perhaps long ago. `ManifestInv` says that a
manifest's files and trees are still no stored book's: its book is deleted for good, ids
are not given out again, and what is stored later lies under its own id, which is no title.
`RunnersInv` adds that a runner is at the job of a deleted book, and `RemovedInv` that what
it has passed is gone, so that taking the job off the table leaves nothing unlisted.
`RunnerStep` is the lemma all steps of a runner come down to; that the least of the listed
jobs exists, which `NextJob` chooses, follows from the well-foundedness of `<` on `Nat`.

`ConfigManager_proofs`, from `RegistryAssumption`:
`CancelledStaysOut`, `OneIsActive`, and the refinement `HistoriesAreImplemented` of
`ConfigHistory` under `MaxDamage <= 1`. `FilesInv` says that the files of a configuration follow its status
machine and that the manifest is at most one revision behind, of one configuration;
`WorkInv` that whoever has the registry's lock and has recovered knows every file there is.
The refinement is proved action by action: a step that writes a file changes what is
visible only if the manifest names it or is gone, and then by one transition; one that
moves a damaged file away gives the history up. The hypothesis is needed: where the
manifest is damaged as well as the last revision, nothing says any more that there was one,
a crash in the quarantine leaves the revisions before it, and the next process takes them
for the whole history (`config_resolve` with `MaxDamage = 2` shows it). For
`CancelledStaysOut`, which needs no such hypothesis, `TokensInv` says that the tokens'
configurations are distinct and that only the confirmation that holds a token's lock has
its configuration at hand.

`OneIsActive` (`NoSecondActive`) is proved where no file is damaged, whatever URLs the
configurations cover, and with one damaged file where all cover the same (`SameCovers`).
`PlacesInv` says who is inside the lock of the domain, and that what a thread is about to
register covers its URL. `ActiveInv` says that a thread whose look-up found nothing else is `Alone`: no other
configuration for its URL may be active, or its own has been registered and stays. What may
be active is said of the files (`MayBeActive`) and not of what is visible, so that it holds
between the two writes of a registration and before a recovery; each step of the registry
`Quenches`: it makes nothing active but what it registers. The hypotheses are needed. Two
damaged files, one of them the manifest, take away what says that a revoked configuration is
no longer active. And where one configuration covers some URLs of another only, both may be
active; if the file of one is damaged between the look-up that answers with it and its
repeated confirmation, it is registered once more beside the other.

`WebServer_proofs`, from `ServiceAssumption` and `WebAssumption`: `PartsInUseStayOpen`
(`NothingUsesClosed`) and `OperatorsSwitchStays` (`OperatorSwitchStays`). `CountInv` follows a request from its count
to its end: whoever is at work has been counted, one more if the main thread is about to
start it, so that a count of zero means that nobody is at work. `MainInv` and `ClosingInv`
say from there that nothing is closed before the main thread closes, and `close` in its
order that the lock keeps operations out and that the executor's threads have ended before
what they read is closed. `ConsentInv` adds to `OperatorSwitchStays`
that every permission has found a switch that is set, and so puts one back.

`VerificationCoordinator_proofs`, from `SessionsAssumption` and `CoordinatorAssumption`:
`PlacesAreNeverExceeded` (`WithinCapacity`), `LeasesAreTracked` (`LeaseIsTracked`),
`AttemptsAreSettled` (`AttemptSettled`), `WaitingHasBrowser` (`HasBrowser`) and the action
property `OutcomesAreFinal` (`OutcomeIsFinal`). The invariant reads a verification's
lifecycle as the clock that its clients, sweeps and browser agree on. `Fits` says which
lifecycles a thread may meet at its place in the code; most are closed under what others may
do meanwhile, so that a thread may go on with what it read before it gave up `_guard`. The
two that are not, `starting` and `terminating`, belong to one thread each (`OneOwner`), so
that a reservation is returned once and an outcome committed once. `TokenInv` says what each
verification is owed in return: an ending that has begun has its thread, an attempt still
reserved after the end has a thread on its way to the ledger, and a browser that is gone has
reported or is about to. `CapacityInv` counts the reservations as the threads that hold one.
`OthersStay`, `TokenStays`, `LeaseStays` and `CapacityStays` say once what a step leaves true
of everything it does not touch, and each step then shows its own part. The assumption names
finitely many clients and tokens, because places are counted. Nothing is proved of what is
on the disk.

Checked by TLC only:

- Liveness (`SafeTasksClaimed`, `NoTaskStuckActive`, `ResolutionEnds`, `JobsEnd`,
  `ServerEnds`): beyond the prover.
- `NoForeignData`: the recovery of the store (`_recover_deletions`) is a fold over all
  domains, and what it leaves behind for any number of them is an induction over data.
- `AnswerableWhileLeased` and `ClosedTasksRecover`. Both relate the row of a task to its lease,
  its interaction, the service's handle and what every thread is still to do about it; the
  proof would go on from `Soundness`.

## Plan

Done: the modules above. Next, proofs: `AnswerableWhileLeased` and `ClosedTasksRecover` of the
controller where `Soundness` ends.

And to model: the pipeline's crawl plan and rate limiter, the migration of old databases,
EasyVoice's job table, an abstract `TaskLifecycle` that `TaskExecutor` refines.

## Not modelled

Selector extraction, scoring and the text heuristics (`adaptation/scoring.py`,
`core/validator.py`, the similarity of `core/dedup.py`, the numerals of `core/title_fixer.py`),
HTML parsing and exporters are sequential functions of text whose results the modelled components do not tell
apart. Sockets, TLS and rendering are I/O; the browser's proxy, and what Playwright does
inside a page, likewise. Timestamps, URLs, metadata and error texts of a task are left out
of its row; no rule of the status machine reads them. How registry files are walked, and
how they are written on Windows (most of `adaptation/registry_io.py`), is left out: each
operation on a file happens or fails. Errors of the task database other than a version
conflict or an illegal transition are not modelled: they end a worker thread
(`executor.py:388`), which is listed as a hazard. The pipeline's rate limiter
(`application/pipeline.py:271`) sleeps under the lock every other task's fetch needs, and a
roll-back reads its row after the lock is released (`executor.py:411`): no property covers
them. Two processes that start together may both migrate the task database
(`repository.py:309`).
