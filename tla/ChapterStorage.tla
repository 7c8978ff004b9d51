--------------------------- MODULE ChapterStorage ---------------------------
(***************************************************************************)
(* The chapters of one book in novel_crawler/core/storage.py: the rows of  *)
(* crawler.db with their claims, and the content files a row points to.    *)
(* A runner downloads chapters: under a claim for a task                   *)
(* (task_engine/chapter_batch.py), or directly and without one             *)
(* (CrawlerService._process_chapter in core/crawler.py).  The runners of a *)
(* process share one Storage, its connection and its lock; processes meet  *)
(* in the database's write reservation (BEGIN IMMEDIATE) and in the files. *)
(*                                                                         *)
(* mark_done is three steps, because it replaces the file before it        *)
(* commits the row.  Everything else is one transaction.  Titles, URLs,    *)
(* error codes and attempt counts are left out; a content and its SHA-256  *)
(* are one value; the claim token is as unique as the generation.          *)
(***************************************************************************)
EXTENDS Naturals

CONSTANTS
  Chapters,
  Contents,       \* what a download may yield
  Runners,
  Processes,
  ProcessOf,      \* runner -> process
  OwnerOf,        \* runner -> the task it claims for, or NONE for a direct download
  LeaseSeconds,   \* claim_lease_seconds, in ticks
  IoFails,        \* may a write to the disk or a commit fail?
  MaxGeneration,  \* bound on claim_generation
  MaxTime,        \* bound on the clock
  MaxCrashes      \* bound on process crashes

NONE == "none"

ASSUME StorageAssumption ==
  /\ Chapters # {}
  /\ ProcessOf \in [Runners -> Processes]
  /\ LeaseSeconds \in Nat \ {0}
  /\ IoFails \in BOOLEAN
  /\ MaxGeneration \in Nat /\ MaxTime \in Nat /\ MaxCrashes \in Nat
  /\ NONE \notin Contents /\ NONE \notin Runners

VARIABLES
  rows,      \* chapter -> its row
  files,     \* chapter -> the content at its path, or NONE
  reserved,  \* the runner whose transaction has the write reservation, or NONE
  locks,     \* process -> the runner inside its Storage lock, or NONE
  runners,   \* what each runner is doing
  now,
  crashes

vars == <<rows, files, reserved, locks, runners, now, crashes>>

Owners == {OwnerOf[r] : r \in Runners} \cup {NONE}

\* The claim columns are set and cleared together.
Row == {row \in [status : {"pending", "failed", "done"}, content : Contents \cup {NONE},
                 owner : Owners, until : Nat, generation : Nat] :
          row.owner = NONE <=> row.until = 0}

NewRow == [status |-> "pending", content |-> NONE, owner |-> NONE, until |-> 0, generation |-> 0]

\* generation and until are the ClaimLease the runner holds, if it works under one.
Runner == [pc : {"idle", "working", "replace", "commit", "unlink", "failing"},
           chapter : Chapters, generation : Nat, until : Nat, content : Contents \cup {NONE}]

TypeOK ==
  /\ rows \in [Chapters -> Row]
  /\ files \in [Chapters -> Contents \cup {NONE}]
  /\ reserved \in Runners \cup {NONE}
  /\ locks \in [Processes -> Runners \cup {NONE}]
  /\ runners \in [Runners -> Runner]
  /\ now \in Nat /\ crashes \in Nat

\* An idle runner's chapter means nothing.
Idle == [pc |-> "idle", chapter |-> CHOOSE ch \in Chapters : TRUE,
         generation |-> 0, until |-> 0, content |-> NONE]

Init ==
  /\ rows = [ch \in Chapters |-> NewRow]
  /\ files = [ch \in Chapters |-> NONE]
  /\ reserved = NONE
  /\ locks = [p \in Processes |-> NONE]
  /\ runners = [r \in Runners |-> Idle]
  /\ now = 0 /\ crashes = 0

-----------------------------------------------------------------------------
At(r, pc) == runners[r].pc = pc
Chapter(r) == runners[r].chapter
Claims(r) == OwnerOf[r] # NONE

Goto(r, pc) == runners' = [runners EXCEPT ![r].pc = pc]
Drops(r, pc) == runners' = [runners EXCEPT ![r].pc = pc, ![r].content = NONE]
Rests(r) == runners' = [runners EXCEPT ![r] = Idle]

\* The process's lock and the database's reservation are both free: a transaction
\* that is one step can run.
CanWrite(r) == reserved = NONE /\ locks[ProcessOf[r]] = NONE

Active(row) == row.owner # NONE /\ row.until > now

\* The claim the runner holds is the row's, and neither has run out (_validate_claim).
ValidClaim(r) ==
  LET row == rows[Chapter(r)] IN
  IF Claims(r)
  THEN /\ Active(row)
       /\ row.owner = OwnerOf[r] /\ row.generation = runners[r].generation
       /\ runners[r].until > now
  ELSE ~Active(row)

Unclaimed(row, status) == [row EXCEPT !.status = status, !.owner = NONE, !.until = 0]

\* Mutant: a claim is granted whoever holds the chapter.
claim_chapter_taken(r, ch, current) ==
  /\ At(r, "idle") /\ Claims(r) /\ CanWrite(r)
  /\ rows[ch].status # "done" /\ rows[ch].generation < MaxGeneration
  /\ rows' = [rows EXCEPT ![ch] = [rows[ch] EXCEPT
       !.owner = OwnerOf[r], !.until = current + LeaseSeconds,
       !.generation = rows[ch].generation + 1]]
  /\ runners' = [runners EXCEPT ![r] =
       [pc |-> "working", chapter |-> ch, generation |-> rows[ch].generation + 1,
        until |-> current + LeaseSeconds, content |-> NONE]]
  /\ UNCHANGED <<files, reserved, locks, now, crashes>>

\* The clock is read before the transaction waits for the reservation.
claim_chapter(r, ch, current) ==
  /\ At(r, "idle") /\ Claims(r) /\ CanWrite(r)
  /\ rows[ch].status # "done" /\ rows[ch].generation < MaxGeneration
  /\ \/ rows[ch].owner \in {NONE, OwnerOf[r]}
     \/ rows[ch].until <= current
  /\ rows' = [rows EXCEPT ![ch] = [rows[ch] EXCEPT
       !.owner = OwnerOf[r], !.until = current + LeaseSeconds,
       !.generation = rows[ch].generation + 1]]
  /\ runners' = [runners EXCEPT ![r] =
       [pc |-> "working", chapter |-> ch, generation |-> rows[ch].generation + 1,
        until |-> current + LeaseSeconds, content |-> NONE]]
  /\ UNCHANGED <<files, reserved, locks, now, crashes>>

\* A direct download of a chapter pending_chapters listed: nothing is claimed.
pending_chapter(r, ch) ==
  /\ At(r, "idle") /\ ~Claims(r) /\ CanWrite(r)
  /\ rows[ch].status # "done"
  /\ runners' = [runners EXCEPT ![r] = [Idle EXCEPT !.pc = "working", !.chapter = ch]]
  /\ UNCHANGED <<rows, files, reserved, locks, now, crashes>>

\* The processor raised: the chapter is about to be marked failed.
processor_raises(r) ==
  /\ At(r, "working")
  /\ Goto(r, "failing")
  /\ UNCHANGED <<rows, files, reserved, locks, now, crashes>>

\* reject_duplicate_content: another chapter of the book is done with this content.
Duplicate(r, content) ==
  \E ch \in Chapters \ {Chapter(r)} : rows[ch].status = "done" /\ rows[ch].content = content

\* Mutant: the checks before the file is replaced skip the duplicate.
Accepted_duplicates(r, content) ==
  ValidClaim(r) /\ rows[Chapter(r)].status # "done"

\* What mark_done checks before it touches the disk.
Accepted(r, content) ==
  ValidClaim(r) /\ rows[Chapter(r)].status # "done" /\ ~Duplicate(r, content)

\* A repeated call with the content the chapter already has returns its path.
AlreadyDone(r, content) ==
  LET row == rows[Chapter(r)] IN
  /\ ValidClaim(r) /\ row.status = "done"
  /\ row.content = content /\ files[Chapter(r)] # NONE

BeginImmediate(r) ==
  reserved' = r /\ locks' = [locks EXCEPT ![ProcessOf[r]] = r]

mark_done(r, content) ==
  /\ At(r, "working") /\ CanWrite(r)
  /\ \/ /\ Accepted(r, content)
        /\ runners' = [runners EXCEPT ![r].pc = "replace", ![r].content = content]
        /\ BeginImmediate(r)
     \/ /\ AlreadyDone(r, content)
        /\ Rests(r)
        /\ UNCHANGED <<reserved, locks>>
     \/ /\ ~Accepted(r, content) /\ ~AlreadyDone(r, content)
        /\ Goto(r, "failing")
        /\ UNCHANGED <<reserved, locks>>
  /\ UNCHANGED <<rows, files, now, crashes>>

Unlocked(r) == [locks EXCEPT ![ProcessOf[r]] = NONE]

\* mkstemp, write, fsync, os.replace.
mark_done_replace(r) ==
  /\ At(r, "replace")
  /\ files' = [files EXCEPT ![Chapter(r)] = runners[r].content]
  /\ Goto(r, "commit")
  /\ UNCHANGED <<rows, reserved, locks, now, crashes>>

\* The temporary file cannot be written: it is removed, and the path was not touched.
mark_done_write_fails(r) ==
  /\ IoFails /\ At(r, "replace")
  /\ Drops(r, "failing")
  /\ reserved' = NONE /\ locks' = Unlocked(r)
  /\ UNCHANGED <<rows, files, now, crashes>>

\* _commit_done compares with the clock mark_done read: the claim cannot run out
\* between the check and the commit.
mark_done_commit(r) ==
  /\ At(r, "commit")
  /\ rows' = [rows EXCEPT ![Chapter(r)] =
       [Unclaimed(@, "done") EXCEPT !.content = runners[r].content]]
  /\ Rests(r)
  /\ reserved' = NONE /\ locks' = Unlocked(r)
  /\ UNCHANGED <<files, now, crashes>>

\* Mutant: the process's lock is given back with the reservation.
mark_done_rollback_unlocked(r) ==
  /\ IoFails /\ At(r, "commit")
  /\ Drops(r, "unlink")
  /\ reserved' = NONE /\ locks' = Unlocked(r)
  /\ UNCHANGED <<rows, files, now, crashes>>

\* The directory cannot be synced or the row not be committed: the transaction is
\* rolled back first, which gives the reservation to whoever waits for it, ...
mark_done_rollback(r) ==
  /\ IoFails /\ At(r, "commit")
  /\ Drops(r, "unlink")
  /\ reserved' = NONE
  /\ UNCHANGED <<rows, files, locks, now, crashes>>

\* ... and only then is the file removed from the chapter's path.
mark_done_unlink(r) ==
  /\ At(r, "unlink")
  /\ files' = [files EXCEPT ![Chapter(r)] = NONE]
  /\ Goto(r, "failing")
  /\ locks' = Unlocked(r)
  /\ UNCHANGED <<rows, reserved, now, crashes>>

\* Mutant: the failure is recorded whatever happened to the chapter since.
mark_failed_unfenced(r) ==
  /\ At(r, "failing") /\ CanWrite(r)
  /\ rows' = [rows EXCEPT ![Chapter(r)] = Unclaimed(@, "failed")]
  /\ Rests(r)
  /\ UNCHANGED <<files, reserved, locks, now, crashes>>

\* A claim conflict, and a chapter done meanwhile, leave the row alone.
mark_failed(r) ==
  /\ At(r, "failing") /\ CanWrite(r)
  /\ rows' = IF ValidClaim(r) /\ rows[Chapter(r)].status # "done"
             THEN [rows EXCEPT ![Chapter(r)] = Unclaimed(@, "failed")] ELSE rows
  /\ Rests(r)
  /\ UNCHANGED <<files, reserved, locks, now, crashes>>

\* The processor raised a control or terminal signal: the claim is given back, run
\* out or not.
release_chapter_claim(r) ==
  LET row == rows[Chapter(r)]
      own == /\ row.status # "done" /\ row.owner = OwnerOf[r]
             /\ row.generation = runners[r].generation IN
  /\ At(r, "working") /\ Claims(r) /\ CanWrite(r)
  /\ rows' = IF own THEN [rows EXCEPT ![Chapter(r)] = Unclaimed(@, row.status)] ELSE rows
  /\ Rests(r)
  /\ UNCHANGED <<files, reserved, locks, now, crashes>>

\* retry_failed starts with it; claims stay as they are.
reset_failed(p) ==
  /\ reserved = NONE /\ locks[p] = NONE
  /\ rows' = [ch \in Chapters |-> IF rows[ch].status = "failed"
                                  THEN [rows[ch] EXCEPT !.status = "pending"] ELSE rows[ch]]
  /\ UNCHANGED <<files, reserved, locks, runners, now, crashes>>

\* The process dies: an open transaction is rolled back, the files stay.
crash(p) ==
  /\ crashes < MaxCrashes
  /\ crashes' = crashes + 1
  /\ runners' = [r \in Runners |-> IF ProcessOf[r] = p THEN Idle ELSE runners[r]]
  /\ locks' = [locks EXCEPT ![p] = NONE]
  /\ reserved' = IF reserved # NONE /\ ProcessOf[reserved] = p THEN NONE ELSE reserved
  /\ UNCHANGED <<rows, files, now>>

Tick ==
  /\ now < MaxTime
  /\ now' = now + 1
  /\ UNCHANGED <<rows, files, reserved, locks, runners, crashes>>

RunnerStep(r) ==
  \/ \E ch \in Chapters : \E current \in {now - 1, now} \cap Nat : claim_chapter(r, ch, current)
  \/ \E ch \in Chapters : pending_chapter(r, ch)
  \/ processor_raises(r)
  \/ \E content \in Contents : mark_done(r, content)
  \/ mark_done_replace(r) \/ mark_done_write_fails(r)
  \/ mark_done_commit(r) \/ mark_done_rollback(r) \/ mark_done_unlink(r)
  \/ mark_failed(r) \/ release_chapter_claim(r)

Next ==
  \/ \E r \in Runners : RunnerStep(r)
  \/ \E p \in Processes : reset_failed(p) \/ crash(p)
  \/ Tick

Spec == Init /\ [][Next]_vars

-----------------------------------------------------------------------------
(* Properties. *)

\* A done chapter has its file, with the content the row was confirmed with: neither a
\* crash between file and commit nor another runner's write or clean-up breaks the pair.
DoneIsConfirmed ==
  \A ch \in Chapters : rows[ch].status = "done" =>
    rows[ch].content # NONE /\ files[ch] = rows[ch].content

\* Two chapters of the book are never confirmed with one content, whichever runners
\* and processes downloaded them at the same time (reject_duplicate_content).
NoDuplicateContent ==
  \A ch, dh \in Chapters :
    ch # dh /\ rows[ch].status = "done" /\ rows[dh].status = "done" =>
      rows[ch].content # rows[dh].content

\* A confirmed row is final: a late failure, reset, claim or release does not touch it, and
\* (in ChapterEdits) neither do the commands that set out to change it.
DoneIsFinal ==
  [][\A ch \in Chapters : rows[ch].status = "done" => rows'[ch] = rows[ch]]_rows

\* A claim that has not run out is ended only by runners of the task that holds it:
\* direct downloads, resets and other tasks leave it alone.  (A claim that runs out
\* while its runner is committing counts as held.)
LiveClaimIsKept ==
  [][\A ch \in Chapters :
       Active(rows[ch]) /\ rows'[ch].owner # rows[ch].owner =>
         \E r \in Runners : /\ OwnerOf[r] = rows[ch].owner
                            /\ runners'[r] # runners[r]]_<<rows, runners>>
=============================================================================
