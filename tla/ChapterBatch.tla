---------------------------- MODULE ChapterBatch ----------------------------
(***************************************************************************)
(* ChapterBatchRunner (novel_crawler/task_engine/chapter_batch.py): the    *)
(* crawling handler of one task.  A run goes through the planned chapters  *)
(* from the checkpoint's next_index on, claims, downloads and confirms     *)
(* each, and moves the checkpoint after every batch.  A new generation of  *)
(* the task may start, in this process or in another one that recovered    *)
(* it, while a run of an older one has not noticed yet: both claim for the *)
(* same task.  Other tasks and direct downloads of the book interfere.     *)
(*                                                                         *)
(* A step is one transaction of tasks.db or crawler.db.  The three steps   *)
(* of Storage.mark_done are one here (ChapterStorage has them), and a      *)
(* lease runs out whenever it likes.  The checkpoint's succeeded count is  *)
(* left out: nothing reads it back.                                        *)
(***************************************************************************)
EXTENDS Integers, FiniteSets

CONSTANTS
  Last,            \* the plan's chapters are 1..Last (chapter_start = 1, chapter_end = Last)
  BatchSize,
  Runners,         \* workers that may run the task
  MaxTaskVersion,  \* bound on the task's version
  MaxGeneration    \* bound on a chapter's claim_generation

ASSUME BatchAssumption ==
  /\ Last \in Nat \ {0} /\ BatchSize \in Nat \ {0}
  /\ MaxTaskVersion \in Nat /\ MaxGeneration \in Nat

Chapters == 1..Last

VARIABLES
  status,      \* chapter -> its status in crawler.db
  claims,      \* chapter -> its claim
  checkpoint,  \* the row "chapter-progress"; version -1 for no row
  version,     \* the task's version in tasks.db
  runs         \* what each runner is doing

batchVars == <<status, claims, checkpoint, version, runs>>

NoClaim(generation) == [owner |-> "none", live |-> FALSE, generation |-> generation]

Run == [pc : {"idle", "load", "list", "next", "claim", "process", "mark", "fail", "count",
              "check", "save", "completed", "recoverable"},
        expected : Nat,               \* expected_task_version
        cp : Nat \cup {-1},           \* checkpoint_version
        listed : SUBSET Chapters,     \* what is left of the listed chapters
        done : SUBSET Chapters,       \* those that were done when they were listed
        index : Chapters,             \* the current chapter
        generation : Nat,             \* of the claim on it
        batch : Nat,                  \* pending_batch
        next : 1..Last + 1,           \* final_next
        retry : SUBSET Chapters,      \* retry_indices
        failed : 0..Last]

Idle == [pc |-> "idle", expected |-> 0, cp |-> -1, listed |-> {}, done |-> {}, index |-> 1,
         generation |-> 0, batch |-> 0, next |-> 1, retry |-> {}, failed |-> 0]

BatchTypeOK ==
  /\ status \in [Chapters -> {"pending", "failed", "done"}]
  /\ claims \in [Chapters -> [owner : {"task", "other", "none"}, live : BOOLEAN, generation : Nat]]
  /\ checkpoint \in [version : Nat \cup {-1}, next_index : 1..Last + 1, failed : 0..Last]
  /\ version \in Nat
  /\ runs \in [Runners -> Run]

BatchInit ==
  /\ status = [ch \in Chapters |-> "pending"]
  /\ claims = [ch \in Chapters |-> NoClaim(0)]
  /\ checkpoint = [version |-> -1, next_index |-> 1, failed |-> 0]
  /\ version = 0
  /\ runs = [r \in Runners |-> Idle]

-----------------------------------------------------------------------------
At(r, pc) == runs[r].pc = pc
Goto(r, run) == runs' = [runs EXCEPT ![r] = run]
Step(r, pc) == Goto(r, [runs[r] EXCEPT !.pc = pc])

\* The handler raised: the executor has the worker back.
Leaves(r) == Goto(r, Idle)

\* context.check_control: the task is not in the generation the run was started for.
Controlled(r) == version # runs[r].expected

\* A worker claims the task, which is a transition of it, and calls the handler.
start(r) ==
  /\ runs[r].pc \in {"idle", "completed", "recoverable"} /\ version < MaxTaskVersion
  /\ version' = version + 1
  /\ Goto(r, [Idle EXCEPT !.pc = "load", !.expected = version + 1])
  /\ UNCHANGED <<status, claims, checkpoint>>

\* pause, cancel, or the startup recovery of another process.
interrupt ==
  /\ version < MaxTaskVersion
  /\ version' = version + 1
  /\ UNCHANGED <<status, claims, checkpoint, runs>>

load_checkpoint(r) ==
  /\ At(r, "load")
  /\ Goto(r, [runs[r] EXCEPT !.pc = "list", !.cp = checkpoint.version,
                             !.next = checkpoint.next_index, !.failed = checkpoint.failed])
  /\ UNCHANGED <<status, claims, checkpoint, version>>

all_chapters(r) ==
  LET listed == runs[r].next..Last IN
  /\ At(r, "list")
  /\ Goto(r, [runs[r] EXCEPT !.pc = "next", !.listed = listed,
                             !.done = {ch \in listed : status[ch] = "done"}])
  /\ UNCHANGED <<status, claims, checkpoint, version>>

-----------------------------------------------------------------------------
(* The loop over the listed chapters.                                        *)

\* The chapter is through, and its claim forgotten: is the batch full?
Through(run, batched) ==
  LET batch == IF batched THEN run.batch + 1 ELSE run.batch IN
  [run EXCEPT !.pc = IF batch >= BatchSize THEN "count" ELSE "next", !.batch = batch,
              !.index = 1, !.generation = 0]

\* Mutant: a chapter that could not be claimed is not remembered.
RetriedNever(run) == Through(run, FALSE)

Retried(run) == Through([run EXCEPT !.retry = @ \cup {run.index}], FALSE)

next_chapter(r) ==
  LET run == runs[r]
      ch == CHOOSE c \in run.listed : \A d \in run.listed : c <= d
      here == [run EXCEPT !.pc = "claim", !.listed = @ \ {ch}, !.index = ch,
                          !.next = IF ch + 1 > @ THEN ch + 1 ELSE @] IN
  /\ At(r, "next") /\ run.listed # {}
  /\ IF Controlled(r) THEN Leaves(r)
     ELSE Goto(r, IF ch \in run.done THEN Through(here, TRUE) ELSE here)
  /\ UNCHANGED <<status, claims, checkpoint, version>>

claim_chapter(r) ==
  LET ch == runs[r].index
      free == status[ch] # "done" /\ (claims[ch].owner # "other" \/ ~claims[ch].live) IN
  /\ At(r, "claim")
  /\ \/ /\ free /\ claims[ch].generation < MaxGeneration
        /\ claims' = [claims EXCEPT ![ch] =
             [owner |-> "task", live |-> TRUE, generation |-> claims[ch].generation + 1]]
        /\ Goto(r, [runs[r] EXCEPT !.pc = "process", !.generation = claims[ch].generation + 1])
     \/ /\ ~free
        /\ Goto(r, Retried(runs[r]))
        /\ UNCHANGED claims
  /\ UNCHANGED <<status, checkpoint, version>>

Mine(r) ==
  LET claim == claims[runs[r].index] IN
  claim.owner = "task" /\ claim.generation = runs[r].generation

Release(ch) == claims' = [claims EXCEPT ![ch] = NoClaim(@.generation)]

\* The processor returns, or raises an exception that fails the chapter.
processed(r) ==
  /\ At(r, "process")
  /\ \E pc \in {"mark", "fail"} : Step(r, pc)
  /\ UNCHANGED <<status, claims, checkpoint, version>>

\* It raises TaskControlRequested, TerminalTaskError or KeyboardInterrupt; a claim
\* that is lost by then raises in turn.
release_chapter_claim(r) ==
  LET ch == runs[r].index IN
  /\ At(r, "process")
  /\ IF Mine(r) /\ status[ch] # "done" THEN Release(ch) ELSE UNCHANGED claims
  /\ Leaves(r)
  /\ UNCHANGED <<status, checkpoint, version>>

mark_done(r) ==
  LET ch == runs[r].index IN
  /\ At(r, "mark")
  /\ \/ /\ Mine(r) /\ claims[ch].live /\ status[ch] # "done"
        /\ status' = [status EXCEPT ![ch] = "done"]
        /\ Release(ch)
        /\ Goto(r, Through(runs[r], TRUE))
     \/ /\ Step(r, "fail")  \* the claim is lost, the content empty or a duplicate
        /\ UNCHANGED <<status, claims>>
  /\ UNCHANGED <<checkpoint, version>>

\* A claim conflict is swallowed: the chapter is retried either way.
mark_failed(r) ==
  LET ch == runs[r].index IN
  /\ At(r, "fail")
  /\ \/ /\ Mine(r) /\ claims[ch].live /\ status[ch] # "done"
        /\ status' = [status EXCEPT ![ch] = "failed"]
        /\ Release(ch)
     \/ /\ ~(Mine(r) /\ claims[ch].live /\ status[ch] # "done")
        /\ UNCHANGED <<status, claims>>
  /\ Goto(r, Through([runs[r] EXCEPT !.retry = @ \cup {ch}], TRUE))
  /\ UNCHANGED <<checkpoint, version>>

-----------------------------------------------------------------------------
(* Saving the checkpoint, and the end of the run.                            *)

Failed == Cardinality({ch \in Chapters : status[ch] = "failed"})

counts(r) ==
  /\ At(r, "count")
  /\ Goto(r, [runs[r] EXCEPT !.pc = "check", !.failed = Failed])
  /\ UNCHANGED <<status, claims, checkpoint, version>>

\* TaskExecutionContext.checkpoint looks at the task first ...
check_control(r) ==
  /\ At(r, "check")
  /\ IF Controlled(r) THEN Leaves(r) ELSE Step(r, "save")
  /\ UNCHANGED <<status, claims, checkpoint, version>>

\* min(retry_indices, default=final_next)
NextIndex(run) ==
  IF run.retry = {} THEN run.next ELSE CHOOSE ch \in run.retry : \A d \in run.retry : ch <= d

\* Mutant: the last writer wins.
save_checkpoint_unversioned(r) ==
  /\ At(r, "save")
  /\ checkpoint' = [version |-> runs[r].cp + 1, next_index |-> NextIndex(runs[r]),
                    failed |-> runs[r].failed]
  /\ Goto(r, [runs[r] EXCEPT !.pc = "next", !.cp = @ + 1, !.batch = 0])
  /\ UNCHANGED <<status, claims, version>>

\* ... and the repository compares the checkpoint's version.
save_checkpoint(r) ==
  /\ At(r, "save")
  /\ \/ /\ checkpoint.version = runs[r].cp
        /\ checkpoint' = [version |-> runs[r].cp + 1, next_index |-> NextIndex(runs[r]),
                          failed |-> runs[r].failed]
        /\ Goto(r, [runs[r] EXCEPT !.pc = "next", !.cp = @ + 1, !.batch = 0])
     \/ /\ checkpoint.version # runs[r].cp
        /\ Leaves(r)
        /\ UNCHANGED checkpoint
  /\ UNCHANGED <<status, claims, version>>

\* Mutant: what the last count says decides alone.
returns_by_count(r) ==
  LET run == runs[r] IN
  /\ At(r, "next") /\ run.listed = {}
  /\ Step(r, IF run.batch > 0 \/ run.cp = -1 THEN "count"
             ELSE IF run.failed > 0 THEN "recoverable" ELSE "completed")
  /\ UNCHANGED <<status, claims, checkpoint, version>>

\* The loop is over; what is left of a batch is saved before the status is returned.
returns(r) ==
  LET run == runs[r] IN
  /\ At(r, "next") /\ run.listed = {}
  /\ Step(r, IF run.batch > 0 \/ run.cp = -1 THEN "count"
             ELSE IF run.failed > 0 \/ run.retry # {} THEN "recoverable" ELSE "completed")
  /\ UNCHANGED <<status, claims, checkpoint, version>>

\* The process dies: everything but the databases is gone.
crash(r) ==
  /\ runs[r].pc # "idle"
  /\ Leaves(r)
  /\ UNCHANGED <<status, claims, checkpoint, version>>

-----------------------------------------------------------------------------
(* The rest of the book's users (ChapterStorage has their rules).            *)

expire(ch) ==
  /\ claims[ch].live
  /\ claims' = [claims EXCEPT ![ch].live = FALSE]
  /\ UNCHANGED <<status, checkpoint, version, runs>>

other_claims(ch) ==
  /\ status[ch] # "done" /\ claims[ch].generation < MaxGeneration
  /\ claims[ch].owner = "task" => ~claims[ch].live
  /\ claims' = [claims EXCEPT ![ch] =
       [owner |-> "other", live |-> TRUE, generation |-> @.generation + 1]]
  /\ UNCHANGED <<status, checkpoint, version, runs>>

\* Another task ends the chapter it claimed, or a direct download one nobody claims.
other_ends(ch) ==
  /\ status[ch] # "done"
  /\ claims[ch].live => claims[ch].owner = "other"
  /\ \E to \in {"done", "failed"} : status' = [status EXCEPT ![ch] = to]
  /\ Release(ch)
  /\ UNCHANGED <<checkpoint, version, runs>>

reset_failed ==
  /\ status' = [ch \in Chapters |-> IF status[ch] = "failed" THEN "pending" ELSE status[ch]]
  /\ UNCHANGED <<claims, checkpoint, version, runs>>

RunnerStep(r) ==
  \/ start(r) \/ load_checkpoint(r) \/ all_chapters(r)
  \/ next_chapter(r) \/ claim_chapter(r) \/ processed(r) \/ release_chapter_claim(r)
  \/ mark_done(r) \/ mark_failed(r)
  \/ counts(r) \/ check_control(r) \/ save_checkpoint(r) \/ returns(r) \/ crash(r)

BatchNext ==
  \/ \E r \in Runners : RunnerStep(r)
  \/ \E ch \in Chapters : expire(ch) \/ other_claims(ch) \/ other_ends(ch)
  \/ interrupt \/ reset_failed

BatchSpec == BatchInit /\ [][BatchNext]_batchVars

-----------------------------------------------------------------------------
(* Properties. *)

\* The next run starts at the checkpoint, so nothing below it may be missing: neither a
\* failed chapter, nor one another task held, nor one whose claim ran out.
NothingSkipped == \A ch \in Chapters : ch < checkpoint.next_index => status[ch] = "done"

\* A run that reports COMPLETED leaves no planned chapter undone, whatever it had
\* counted and listed before.
CompletedIsComplete ==
  \A r \in Runners : runs[r].pc = "completed" => \A ch \in Chapters : status[ch] = "done"

\* The checkpoint never moves back: a run of an older generation that saves late cannot
\* undo what a newer one has saved.
CheckpointAdvances == [][checkpoint'.next_index >= checkpoint.next_index]_checkpoint
=============================================================================
