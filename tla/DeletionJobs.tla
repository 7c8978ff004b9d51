----------------------------- MODULE DeletionJobs -----------------------------
(***************************************************************************)
(* How Storage (core/storage.py) deletes a book.  One transaction takes the *)
(* book out of the database and puts a job there, with the files and trees  *)
(* that were the book's alone.  Whoever runs the job removes them outside   *)
(* any lock, and takes the job off the table when all is gone.  A job that  *)
(* is left over is run again when a storage is opened, by as many threads   *)
(* and processes as open one.                                              *)
(*                                                                         *)
(* Chapters are written to the book's own directory, named by its id; books *)
(* of an earlier version have theirs in a directory named by the title,     *)
(* which two books may share.  (No title is the number of a book.)          *)
(***************************************************************************)
EXTENDS Naturals, FiniteSets

CONSTANTS
  Books,      \* ids, in the order they are given out: AUTOINCREMENT never gives one out twice
  Titles,
  Chapters,
  Runners,    \* threads, of one process or several
  MaxFaults   \* bound on the faults

ASSUME DeletionAssumption ==
  /\ Books \subseteq Nat \ {0} /\ Books # {} /\ IsFiniteSet(Books)
  /\ Titles \cap Books = {} /\ Chapters # {} /\ Runners # {} /\ MaxFaults \in Nat

VARIABLES
  books,    \* the rows of books and chapters: each book's title, and where its chapters are
  content,  \* the files under contents/
  cache,    \* the titles that have a tree under cache/
  jobs,     \* the row of deletion_jobs of each book that was deleted
  runners,
  faults

vars == <<books, content, cache, jobs, runners, faults>>

Trees == Books \cup Titles
Paths == Trees \X Chapters
Tree(path) == path[1]

NoTitle == "no title"
NoJob == [state |-> "none", error |-> "", files |-> {}, trees |-> {}, caches |-> {}]
Idle == [pc |-> "idle", job |-> 0, todo |-> {}]

Stored == {b \in Books : books[b].state = "stored"}
Others(b) == Stored \ {b}

\* A database of an earlier version, in which every chapter has its content.
Legacy ==
  UNION {{[state |-> "stored", title |-> t, paths |-> {t} \X cs] : cs \in SUBSET Chapters} : t \in Titles}

Unknown == [state |-> "unknown", title |-> NoTitle, paths |-> {}]

Init ==
  /\ books \in [Books -> {Unknown} \cup Legacy]
  /\ \A b, c \in Books : b < c /\ books[c].state = "stored" => books[b].state = "stored"
  /\ content = UNION {books[b].paths : b \in Books}
  /\ cache = {books[b].title : b \in Stored}
  /\ jobs = [b \in Books |-> NoJob]
  /\ runners = [r \in Runners |-> Idle]
  /\ faults = 0

-----------------------------------------------------------------------------
Fault == faults < MaxFaults /\ faults' = faults + 1
At(r, pc) == runners[r].pc = pc
IsIdle(r) == At(r, "idle")
Job(r) == jobs[runners[r].job]
Goto(r, pc) == runners' = [runners EXCEPT ![r].pc = pc]

\* A job is done with, for now: the storage that is being opened takes the next.
NextJob(todo) ==
  IF todo = {} THEN Idle
  ELSE LET b == CHOOSE b \in todo : \A c \in todo : b <= c IN
       [pc |-> "take", job |-> b, todo |-> todo \ {b}]

Returns(r) == runners' = [runners EXCEPT ![r] = NextJob(@.todo)]

-----------------------------------------------------------------------------
(* Books come, and their chapters are stored. *)

upsert_book ==
  /\ \E b \in Books, t \in Titles :
       /\ books[b].state = "unknown" /\ \A c \in Books : c < b => books[c].state # "unknown"
       /\ books' = [books EXCEPT ![b] = [state |-> "stored", title |-> t, paths |-> {}]]
  /\ UNCHANGED <<content, cache, jobs, runners, faults>>

\* The page is fetched into the cache, and the chapter written, in a transaction that finds its
\* row.  If the process dies in it, the file is there and the row is not.
mark_done(b, c) ==
  /\ b \in Stored /\ \A path \in books[b].paths : path[2] # c
  /\ content' = content \cup {<<b, c>>}
  /\ cache' = cache \cup {books[b].title}
  /\ \/ books' = [books EXCEPT ![b].paths = @ \cup {<<b, c>>}] /\ UNCHANGED faults
     \/ Fault /\ UNCHANGED books
  /\ UNCHANGED <<jobs, runners>>

-----------------------------------------------------------------------------
(* delete_book *)

\* Mutant: what other books have is not looked at.
_build_deletion_manifest_locked_alone(b) ==
  [state |-> "pending", error |-> "", files |-> books[b].paths,
   trees |-> {b} \cup {Tree(path) : path \in books[b].paths}, caches |-> {books[b].title}]

\* Files no other book's chapter is in; trees no other book's chapter is under, and no other
\* book's title; the cache, if no other book goes by the title.
_build_deletion_manifest_locked(b) ==
  LET shared == UNION {books[c].paths : c \in Others(b)}
      titles == {books[c].title : c \in Others(b)}
      candidates == {b} \cup ({Tree(path) : path \in books[b].paths} \ titles) IN
  [state |-> "pending", error |-> "",
   files |-> books[b].paths \ shared,
   trees |-> {tree \in candidates : \A path \in shared : Tree(path) # tree},
   caches |-> {books[b].title} \ titles]

delete_book(r, b) ==
  /\ IsIdle(r) /\ b \in Stored
  /\ jobs' = [jobs EXCEPT ![b] = _build_deletion_manifest_locked(b)]
  /\ books' = [books EXCEPT ![b] = [Unknown EXCEPT !.state = "deleted"]]
  /\ runners' = [runners EXCEPT ![r] = [Idle EXCEPT !.pc = "take", !.job = b]]
  /\ UNCHANGED <<content, cache, faults>>

-----------------------------------------------------------------------------
(* _process_deletion_job *)

\* A job that is no longer pending is somebody else's, and counts as completed.
take(r) ==
  /\ At(r, "take")
  /\ IF Job(r).state = "pending" THEN Goto(r, "files") ELSE Returns(r)
  /\ UNCHANGED <<books, content, cache, jobs, faults>>

\* OSError: the disk fails, or another at the same job takes away what this one has just seen.
Hindered(r, gone) ==
  \/ Fault
  \/ /\ gone # {} /\ UNCHANGED faults
     /\ \E q \in Runners \ {r} : runners[q].job = runners[r].job /\ At(q, runners[r].pc)

\* Mutant: what could not be removed is passed over.
removes_all_it_can(r, pc, next, things, there) ==
  /\ At(r, pc)
  /\ \E gone \in SUBSET (things \cap there) :
       /\ there' = there \ gone
       /\ \/ gone = things \cap there /\ UNCHANGED faults
          \/ Hindered(r, gone)
  /\ Goto(r, next)
  /\ UNCHANGED jobs

\* All of it goes, or a part, and the job is left for another time: whatever its state is now.
removes(r, pc, next, things, there) ==
  /\ At(r, pc)
  /\ \E gone \in SUBSET (things \cap there) :
       /\ there' = there \ gone
       /\ \/ gone = things \cap there /\ Goto(r, next) /\ UNCHANGED <<jobs, faults>>
          \/ /\ Hindered(r, gone)
             /\ jobs' = [jobs EXCEPT ![runners[r].job] =
                  IF @.state = "none" THEN @ ELSE [@ EXCEPT !.state = "pending", !.error = "retryable"]]
             /\ Returns(r)

Under(trees) == {path \in content : Tree(path) \in trees}

remove_files(r) == removes(r, "files", "trees", Job(r).files, content) /\ UNCHANGED <<books, cache>>
remove_trees(r) == removes(r, "trees", "caches", Under(Job(r).trees), content) /\ UNCHANGED <<books, cache>>
remove_caches(r) == removes(r, "caches", "finish", Job(r).caches, cache) /\ UNCHANGED <<books, content>>

finish(r) ==
  /\ At(r, "finish")
  /\ jobs' = [jobs EXCEPT ![runners[r].job].state = IF @ = "pending" THEN "none" ELSE @]
  /\ Returns(r)
  /\ UNCHANGED <<books, content, cache, faults>>

\* A path that is not safe, or the database's own failure.
_block_deletion_job(r) ==
  /\ runners[r].pc \in {"files", "trees", "caches", "finish"} /\ Fault
  /\ jobs' = [jobs EXCEPT ![runners[r].job] =
       IF @.state = "none" THEN @ ELSE [@ EXCEPT !.state = "blocked", !.error = "blocked"]]
  /\ Returns(r)
  /\ UNCHANGED <<books, content, cache>>

-----------------------------------------------------------------------------
(* Jobs that are left. *)

\* Mutant: a job that failed once is not listed.
Pending_untried == {b \in Books : jobs[b].state = "pending" /\ jobs[b].error = ""}

Pending == {b \in Books : jobs[b].state = "pending"}

\* A storage is opened.
_retry_deletion_jobs(r) ==
  /\ IsIdle(r) /\ Pending # {}
  /\ runners' = [runners EXCEPT ![r] = NextJob(Pending)]
  /\ UNCHANGED <<books, content, cache, jobs, faults>>

\* A job that is blocked is run again when it is insisted on.
retry_deletion_job(r, b) ==
  /\ IsIdle(r) /\ jobs[b].state # "none"
  /\ jobs' = [jobs EXCEPT ![b].state = "pending", ![b].error = IF jobs[b].state = "blocked" THEN "" ELSE @]
  /\ runners' = [runners EXCEPT ![r] = [Idle EXCEPT !.pc = "take", !.job = b]]
  /\ UNCHANGED <<books, content, cache, faults>>

dies(r) ==
  /\ ~ IsIdle(r) /\ Fault
  /\ runners' = [runners EXCEPT ![r] = Idle]
  /\ UNCHANGED <<books, content, cache, jobs>>

-----------------------------------------------------------------------------
Runs(r) == take(r) \/ remove_files(r) \/ remove_trees(r) \/ remove_caches(r) \/ finish(r)

Next ==
  \/ upsert_book
  \/ \E b \in Books, c \in Chapters : mark_done(b, c)
  \/ \E r \in Runners : Runs(r) \/ _block_deletion_job(r) \/ dies(r) \/ _retry_deletion_jobs(r)
  \/ \E r \in Runners, b \in Books : delete_book(r, b) \/ retry_deletion_job(r, b)

Spec == Init /\ [][Next]_vars

\* Threads run, and the program is started again and again.
FairSpec ==
  /\ Spec
  /\ \A r \in Runners : WF_vars(Runs(r) \/ _block_deletion_job(r))
  /\ WF_vars(\E r \in Runners : _retry_deletion_jobs(r))

-----------------------------------------------------------------------------
TypeOK ==
  /\ \A b \in Books :
       /\ books[b].state \in {"unknown", "stored", "deleted"}
       /\ books[b].title \in Titles \cup {NoTitle} /\ books[b].paths \subseteq Paths
       /\ jobs[b].state \in {"none", "pending", "blocked"}
       /\ jobs[b].state # "none" => books[b].state = "deleted"
  /\ content \subseteq Paths /\ cache \subseteq Titles /\ faults \in 0..MaxFaults

\* No deletion, however late and however many run it, takes a chapter of a book that is there:
\* not of one by the same title, and not of one that shares the file.
KeepsContent == \A b \in Stored : books[b].paths \subseteq content

\* No content is left that nobody answers for: it is a book's that is there, or on the list of a
\* job, pending or blocked, that can be run again.
NoOrphanContent ==
  \A path \in content :
    \/ \E b \in Stored : path \in books[b].paths \/ Tree(path) = b
    \/ \E b \in Books : jobs[b].state # "none" /\ (path \in jobs[b].files \/ Tree(path) \in jobs[b].trees)

\* A job does not stay pending: two that hinder each other at it do not do so for ever.
JobsEnd == \A b \in Books : jobs[b].state = "pending" ~> jobs[b].state # "pending"

=============================================================================
