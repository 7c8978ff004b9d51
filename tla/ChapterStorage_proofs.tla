------------------------ MODULE ChapterStorage_proofs ------------------------
(***************************************************************************)
(* Proofs about ChapterStorage, and about its done rows under the commands *)
(* of ChapterEdits, for every set of chapters, runners and processes and   *)
(* every bound.  The argument is the write reservation: a runner between   *)
(* its checks and its commit holds it (WriterInv), so no other step        *)
(* changes a row in between and the checks still hold when the row is      *)
(* committed.                                                              *)
(***************************************************************************)
EXTENDS ChapterEdits, TLAPS

\* A runner that works under a claim has the chapter's, and a direct download is at a chapter
\* nobody has a live claim on.
Fenced(r) == IF Claims(r) THEN rows[Chapter(r)].owner = OwnerOf[r] ELSE ~Active(rows[Chapter(r)])

\* What a runner has checked is still true while it holds the reservation.
Cleared(r) ==
  /\ Fenced(r)
  /\ runners[r].content \in Contents
  /\ rows[Chapter(r)].status # "done"
  /\ ~Duplicate(r, runners[r].content)

WriterInv ==
  \A r \in Runners : runners[r].pc \in {"replace", "commit"} => reserved = r /\ Cleared(r)

\* Without a failing disk the file of a chapter is written only by its committer.
FilesInv ==
  /\ DoneIsConfirmed
  /\ \A r \in Runners :
       /\ runners[r].pc # "unlink"
       /\ runners[r].pc = "commit" => files[Chapter(r)] = runners[r].content

IInv ==
  /\ TypeOK
  /\ WriterInv
  /\ NoDuplicateContent
  /\ IoFails = FALSE => FilesInv

USE DEF At, Chapter, CanWrite, BeginImmediate

LEMMA NewTyped ==
  /\ NewRow \in Row
  /\ Idle \in Runner /\ Idle.pc = "idle"
<1>1. (CHOOSE ch \in Chapters : TRUE) \in Chapters
  BY StorageAssumption
<1> QED BY <1>1 DEF NewRow, Idle, Row, Runner, Owners

LEMMA InitInv == Init => IInv
<1> SUFFICES ASSUME Init PROVE IInv
  OBVIOUS
<1>1. TypeOK
  BY NewTyped DEF Init, TypeOK
<1>2. \A r \in Runners : runners[r].pc = "idle"
  BY NewTyped DEF Init
<1>3. WriterInv
  BY <1>2 DEF WriterInv
<1>4. \A ch \in Chapters : rows[ch].status # "done"
  BY DEF Init, NewRow
<1>5. NoDuplicateContent /\ FilesInv
  BY <1>2, <1>4 DEF NoDuplicateContent, FilesInv, DoneIsConfirmed
<1> QED BY <1>1, <1>3, <1>5 DEF IInv

-----------------------------------------------------------------------------
(* A step that needs the reservation free finds nobody between check and     *)
(* commit, and may do what it likes to rows that are not done.               *)

\* Only rows that are not done change, and none becomes done.
Undone ==
  \A ch \in Chapters : \/ rows'[ch] = rows[ch]
                       \/ rows[ch].status # "done" /\ rows'[ch].status # "done"

\* Runner r, or nobody, moves, and to a pc outside mark_done.
Aside(r) ==
  \A s \in Runners : \/ runners'[s] = runners[s]
                     \/ s = r /\ runners'[s].pc \in {"idle", "working", "failing"}

LEMMA AsideStep ==
  ASSUME IInv, NEW r, reserved = NONE, Undone, Aside(r), TypeOK', UNCHANGED <<files, reserved>>
  PROVE  IInv'
<1>1. \A s \in Runners : runners'[s].pc \notin {"replace", "commit"}
  BY StorageAssumption DEF IInv, WriterInv, Aside
<1>2. WriterInv'
  BY <1>1 DEF WriterInv
<1>3. NoDuplicateContent'
  BY DEF IInv, NoDuplicateContent, Undone
<1>4. ASSUME IoFails = FALSE PROVE FilesInv'
  <2>1. FilesInv
    BY <1>4 DEF IInv
  <2>2. DoneIsConfirmed'
    BY <2>1 DEF FilesInv, DoneIsConfirmed, Undone
  <2>3. \A s \in Runners : runners'[s].pc # "unlink"
    BY <2>1 DEF FilesInv, Aside
  <2> QED BY <1>1, <2>2, <2>3 DEF FilesInv
<1> QED BY <1>2, <1>3, <1>4 DEF IInv

LEMMA ClaimTyped ==
  ASSUME NEW row \in Row, NEW r \in Runners, Claims(r), NEW until \in Nat \ {0}
  PROVE  [row EXCEPT !.owner = OwnerOf[r], !.until = until, !.generation = row.generation + 1] \in Row
<1>1. OwnerOf[r] \in Owners /\ OwnerOf[r] # NONE
  BY DEF Owners, Claims
<1>2. row.generation + 1 \in Nat
  BY DEF Row
<1> QED BY <1>1, <1>2 DEF Row

LEMMA UnclaimedTyped ==
  ASSUME NEW row \in Row, NEW status \in {"pending", "failed", "done"}
  PROVE  Unclaimed(row, status) \in Row /\ Unclaimed(row, status).status = status
BY DEF Unclaimed, Row, Owners

LEMMA ClaimStep ==
  ASSUME IInv, NEW r \in Runners, NEW ch \in Chapters, NEW current \in Nat,
         claim_chapter(r, ch, current)
  PROVE  IInv'
<1> DEFINE new == [rows[ch] EXCEPT !.owner = OwnerOf[r], !.until = current + LeaseSeconds,
                                   !.generation = rows[ch].generation + 1]
           lease == [pc |-> "working", chapter |-> ch, generation |-> rows[ch].generation + 1,
                     until |-> current + LeaseSeconds, content |-> NONE]
<1>1. TypeOK /\ rows[ch] \in Row /\ current + LeaseSeconds \in Nat \ {0} /\ Claims(r)
  BY StorageAssumption DEF IInv, TypeOK, claim_chapter
<1>2. new \in Row /\ new.status = rows[ch].status
  BY <1>1, ClaimTyped DEF Row
<1>3. lease \in Runner
  BY <1>1 DEF Runner, Row
<1>4. rows' = [rows EXCEPT ![ch] = new] /\ runners' = [runners EXCEPT ![r] = lease]
  BY DEF claim_chapter
<1> HIDE DEF new
<1>5. TypeOK'
  BY <1>1, <1>2, <1>3, <1>4 DEF claim_chapter, TypeOK
<1>6. Undone
  BY <1>1, <1>2, <1>4 DEF claim_chapter, Undone, TypeOK
<1>7. Aside(r)
  BY <1>1, <1>4 DEF Aside, TypeOK
<1> QED BY <1>5, <1>6, <1>7, AsideStep DEF claim_chapter

LEMMA PendingStep ==
  ASSUME IInv, NEW r \in Runners, NEW ch \in Chapters, pending_chapter(r, ch)
  PROVE  IInv'
<1>1. TypeOK
  BY DEF IInv
<1>2. [Idle EXCEPT !.pc = "working", !.chapter = ch] \in Runner
  BY <1>1, NewTyped DEF Runner
<1>3. TypeOK'
  BY <1>1, <1>2 DEF pending_chapter, TypeOK
<1>4. Aside(r)
  BY <1>1, NewTyped DEF pending_chapter, Aside, TypeOK, Runner
<1>5. Undone
  BY DEF pending_chapter, Undone
<1> QED BY <1>3, <1>4, <1>5, AsideStep DEF pending_chapter

\* A write of one undone row by a runner that then rests.
LEMMA UndoneWrite ==
  ASSUME IInv, NEW r \in Runners, NEW row \in Row, reserved = NONE,
         rows[Chapter(r)].status # "done" => row.status # "done",
         rows' = rows \/ (/\ rows[Chapter(r)].status # "done"
                          /\ rows' = [rows EXCEPT ![Chapter(r)] = row]),
         Rests(r), UNCHANGED <<files, reserved, locks, now, crashes>>
  PROVE  IInv'
<1>1. TypeOK /\ Idle \in Runner /\ Idle.pc = "idle" /\ Chapter(r) \in Chapters
  BY NewTyped DEF IInv, TypeOK, Runner
<1>2. TypeOK'
  BY <1>1 DEF TypeOK, Rests
<1>3. Undone
  BY <1>1 DEF Undone, TypeOK
<1>4. Aside(r)
  BY <1>1 DEF Aside, Rests, TypeOK
<1> QED BY <1>2, <1>3, <1>4, AsideStep

LEMMA FailedStep ==
  ASSUME IInv, NEW r \in Runners, mark_failed(r)
  PROVE  IInv'
<1>1. Unclaimed(rows[Chapter(r)], "failed") \in Row
        /\ Unclaimed(rows[Chapter(r)], "failed").status = "failed"
  BY UnclaimedTyped DEF IInv, TypeOK, Runner
<1> QED BY <1>1, UndoneWrite DEF mark_failed

LEMMA ReleaseStep ==
  ASSUME IInv, NEW r \in Runners, release_chapter_claim(r)
  PROVE  IInv'
<1> DEFINE row == rows[Chapter(r)]
<1>1. row \in Row /\ row.status \in {"pending", "failed", "done"}
  BY DEF IInv, TypeOK, Runner, Row
<1>2. Unclaimed(row, row.status) \in Row /\ Unclaimed(row, row.status).status = row.status
  BY <1>1, UnclaimedTyped
<1> QED BY <1>2, UndoneWrite DEF release_chapter_claim

LEMMA ResetStep ==
  ASSUME IInv, NEW p \in Processes, reset_failed(p)
  PROVE  IInv'
<1>1. TypeOK
  BY DEF IInv
<1>2. \A ch \in Chapters : [rows[ch] EXCEPT !.status = "pending"] \in Row
  BY <1>1 DEF TypeOK, Row
<1>3. TypeOK'
  BY <1>1, <1>2 DEF reset_failed, TypeOK
<1>4. Undone
  BY <1>1 DEF reset_failed, Undone, TypeOK, Row
<1>5. Aside(NONE)
  BY DEF reset_failed, Aside
<1> QED BY <1>3, <1>4, <1>5, AsideStep DEF reset_failed

-----------------------------------------------------------------------------
(* mark_done.                                                                *)

LEMMA AcceptStep ==
  ASSUME IInv, NEW r \in Runners, NEW content \in Contents, mark_done(r, content)
  PROVE  IInv'
<1>0. TypeOK /\ reserved = NONE /\ UNCHANGED <<rows, files>>
  BY DEF IInv, mark_done
<1>1. CASE Accepted(r, content) /\ reserved' = r
  <2>1. runners' = [runners EXCEPT ![r].pc = "replace", ![r].content = content]
    BY <1>1, StorageAssumption DEF mark_done
  <2>2. TypeOK'
    <3>1. runners' \in [Runners -> Runner]
      <4> DEFINE next == [runners[r] EXCEPT !.pc = "replace", !.content = content]
      <4>1. runners \in [Runners -> Runner] /\ runners[r] \in Runner
        BY <1>0 DEF TypeOK
      <4>2. next \in Runner
        BY <4>1 DEF Runner
      <4>3. runners' = [runners EXCEPT ![r] = next]
        BY <2>1, <4>1
      <4> HIDE DEF next
      <4> QED BY <4>1, <4>2, <4>3
    <3>2. locks' = locks \/ locks' = [locks EXCEPT ![ProcessOf[r]] = r]
      BY DEF mark_done
    <3>3. locks' \in [Processes -> Runners \cup {NONE}] /\ UNCHANGED <<now, crashes>>
      BY <1>0, <3>2 DEF mark_done, TypeOK
    <3> QED BY <1>0, <1>1, <3>1, <3>3 DEF TypeOK
  <2>3. \A s \in Runners \ {r} : runners[s].pc \notin {"replace", "commit"}
    BY <1>0, StorageAssumption DEF IInv, WriterInv
  <2>4. WriterInv'
    BY <1>0, <1>1, <2>1, <2>3 DEF mark_done, WriterInv, Cleared, Fenced, ValidClaim, Active, Accepted,
       Duplicate, TypeOK, Runner
  <2>5. NoDuplicateContent'
    BY <1>0 DEF IInv, NoDuplicateContent
  <2>6. ASSUME IoFails = FALSE PROVE FilesInv'
    BY <1>0, <2>1, <2>3, <2>6 DEF IInv, FilesInv, DoneIsConfirmed, TypeOK, Runner
  <2> QED BY <2>2, <2>4, <2>5, <2>6 DEF IInv
<1>2. CASE reserved' = reserved
  <2>1. Rests(r) \/ Goto(r, "failing")
    BY <1>0, <1>2, StorageAssumption DEF mark_done
  <2>2. Aside(r)
    BY <1>0, <2>1, NewTyped DEF Aside, Rests, Goto, TypeOK, Runner
  <2>3. locks' = locks /\ UNCHANGED <<now, crashes>>
    BY <1>0, <1>2, StorageAssumption DEF mark_done
  <2>4. TypeOK'
    BY <1>0, <1>2, <2>1, <2>3, NewTyped DEF Rests, Goto, TypeOK, Runner
  <2>5. Undone
    BY <1>0 DEF Undone
  <2> QED BY <1>0, <1>2, <2>2, <2>4, <2>5, AsideStep
<1> QED BY <1>1, <1>2 DEF mark_done

LEMMA ReplaceStep ==
  ASSUME IInv, NEW r \in Runners, mark_done_replace(r)
  PROVE  IInv'
<1>1. TypeOK /\ reserved = r /\ Cleared(r) /\ Chapter(r) \in Chapters
  BY DEF IInv, WriterInv, mark_done_replace, TypeOK, Runner
<1>2. TypeOK'
  BY <1>1 DEF mark_done_replace, Goto, Cleared, TypeOK, Runner
<1>3. \A s \in Runners \ {r} : runners'[s].pc \notin {"replace", "commit"}
  BY <1>1 DEF mark_done_replace, Goto, IInv, WriterInv, TypeOK
<1>4. WriterInv'
  BY <1>1, <1>3 DEF mark_done_replace, Goto, WriterInv, Cleared, Fenced, Active, Duplicate, TypeOK, Runner
<1>5. NoDuplicateContent'
  BY DEF mark_done_replace, IInv, NoDuplicateContent
<1>6. ASSUME IoFails = FALSE PROVE FilesInv'
  <2>1. DoneIsConfirmed'
    BY <1>1, <1>6 DEF mark_done_replace, IInv, FilesInv, DoneIsConfirmed, Cleared, TypeOK
  <2>2. \A s \in Runners : runners'[s].pc # "unlink"
    BY <1>6 DEF mark_done_replace, Goto, IInv, FilesInv, TypeOK
  <2>3. files'[runners'[r].chapter] = runners'[r].content
    BY <1>1 DEF mark_done_replace, Goto, TypeOK, Runner
  <2> QED BY <1>3, <2>1, <2>2, <2>3 DEF FilesInv
<1> QED BY <1>2, <1>4, <1>5, <1>6 DEF IInv

LEMMA CommitStep ==
  ASSUME IInv, NEW r \in Runners, mark_done_commit(r)
  PROVE  IInv'
<1> DEFINE ch == Chapter(r)
           content == runners[r].content
           new == [Unclaimed(rows[ch], "done") EXCEPT !.content = content]
<1>1. TypeOK /\ reserved = r /\ Cleared(r) /\ ch \in Chapters
  BY DEF IInv, WriterInv, mark_done_commit, TypeOK, Runner
<1>2. new \in Row /\ new.status = "done" /\ new.content = content
  <2> DEFINE freed == Unclaimed(rows[ch], "done")
  <2>1. freed \in Row /\ freed.status = "done"
    BY <1>1, UnclaimedTyped DEF TypeOK
  <2>2. content \in Contents
    BY <1>1 DEF Cleared
  <2> HIDE DEF freed, content
  <2>3. [freed EXCEPT !.content = content] \in Row
    BY <2>1, <2>2 DEF Row
  <2>4. /\ [freed EXCEPT !.content = content].status = "done"
        /\ [freed EXCEPT !.content = content].content = content
    BY <2>1 DEF Row
  <2> QED BY <2>3, <2>4 DEF freed
<1>3. rows' = [rows EXCEPT ![ch] = new] /\ files' = files
  BY DEF mark_done_commit
<1> HIDE DEF new
<1>4. TypeOK'
  BY <1>1, <1>2, <1>3, NewTyped, StorageAssumption
     DEF mark_done_commit, Rests, Unlocked, TypeOK
<1>5. \A s \in Runners : runners'[s].pc \notin {"replace", "commit"}
  BY <1>1, NewTyped DEF mark_done_commit, Rests, IInv, WriterInv, TypeOK
<1>6. WriterInv'
  BY <1>5 DEF WriterInv
<1>7. NoDuplicateContent'
  <2> SUFFICES ASSUME NEW c \in Chapters, NEW d \in Chapters, c # d,
                      rows'[c].status = "done", rows'[d].status = "done"
               PROVE  rows'[c].content # rows'[d].content
    BY DEF NoDuplicateContent
  <2>1. CASE c # ch /\ d # ch
    BY <1>1, <1>3, <2>1 DEF IInv, NoDuplicateContent, TypeOK
  <2>2. CASE c = ch
    BY <1>1, <1>2, <1>3, <2>2 DEF Cleared, Duplicate, TypeOK
  <2>3. CASE d = ch
    BY <1>1, <1>2, <1>3, <2>3 DEF Cleared, Duplicate, TypeOK
  <2> QED BY <2>1, <2>2, <2>3
<1>8. ASSUME IoFails = FALSE PROVE FilesInv'
  <2>1. files[ch] = content /\ content # NONE
    BY <1>1, <1>8, StorageAssumption DEF IInv, FilesInv, mark_done_commit, Cleared
  <2>2. DoneIsConfirmed'
    BY <1>1, <1>2, <1>3, <1>8, <2>1 DEF IInv, FilesInv, DoneIsConfirmed, TypeOK
  <2>3. \A s \in Runners : runners'[s].pc # "unlink"
    BY <1>1, <1>8, NewTyped DEF mark_done_commit, Rests, IInv, FilesInv, TypeOK
  <2> QED BY <1>5, <2>2, <2>3 DEF FilesInv
<1> QED BY <1>4, <1>6, <1>7, <1>8 DEF IInv

\* The steps of mark_done that a failing disk allows: no row changes.
LEMMA FailingDiskStep ==
  ASSUME IInv, NEW r \in Runners,
         mark_done_write_fails(r) \/ mark_done_rollback(r) \/ mark_done_unlink(r)
  PROVE  IInv'
<1>1. TypeOK /\ rows' = rows /\ UNCHANGED <<now, crashes>>
  BY DEF IInv, mark_done_write_fails, mark_done_rollback, mark_done_unlink
<1>2. \E pc \in {"failing", "unlink"} : Goto(r, pc) \/ Drops(r, pc)
  BY DEF mark_done_write_fails, mark_done_rollback, mark_done_unlink
<1>3. TypeOK'
  <2>1. runners' \in [Runners -> Runner] /\ Chapter(r) \in Chapters
    BY <1>1, <1>2 DEF Goto, Drops, TypeOK, Runner
  <2>2. locks' \in [Processes -> Runners \cup {NONE}] /\ reserved' \in Runners \cup {NONE}
    BY <1>1 DEF mark_done_write_fails, mark_done_rollback, mark_done_unlink, Unlocked, TypeOK
  <2>3. files' \in [Chapters -> Contents \cup {NONE}]
    BY <1>1 DEF mark_done_write_fails, mark_done_rollback, mark_done_unlink, TypeOK
  <2> QED BY <1>1, <2>1, <2>2, <2>3 DEF TypeOK
<1>4. WriterInv'
  <2> SUFFICES ASSUME NEW s \in Runners, runners'[s].pc \in {"replace", "commit"}
               PROVE  reserved' = s /\ Cleared(s)'
    BY DEF WriterInv
  <2>1. s # r /\ runners'[s] = runners[s]
    BY <1>1, <1>2 DEF Goto, Drops, TypeOK, Runner
  <2>2. reserved = s /\ Cleared(s)
    BY <2>1 DEF IInv, WriterInv
  <2>3. reserved' = reserved
    BY <2>1, <2>2 DEF IInv, WriterInv, mark_done_write_fails, mark_done_rollback, mark_done_unlink
  <2>4. Cleared(s)'
    BY <1>1, <2>1, <2>2 DEF Cleared, Fenced, Active, Duplicate
  <2> QED BY <2>2, <2>3, <2>4
<1>5. NoDuplicateContent'
  BY <1>1 DEF IInv, NoDuplicateContent
<1>6. ASSUME IoFails = FALSE PROVE FilesInv'
  BY <1>6 DEF IInv, FilesInv, mark_done_write_fails, mark_done_rollback, mark_done_unlink
<1> QED BY <1>3, <1>4, <1>5, <1>6 DEF IInv

\* Steps that change no row and no file, and take no runner into mark_done.
LEMMA QuietStep ==
  ASSUME IInv, TypeOK', UNCHANGED <<rows, files>>, now' \in {now, now + 1},
         \A s \in Runners : \/ runners'[s].pc \in {"idle", "failing"}
                            \/ /\ runners'[s] = runners[s]
                               /\ reserved = s => reserved' = s
  PROVE  IInv'
<1>1. WriterInv'
  <2> SUFFICES ASSUME NEW s \in Runners, runners'[s].pc \in {"replace", "commit"}
               PROVE  reserved' = s /\ Cleared(s)'
    BY DEF WriterInv
  <2>1. runners'[s] = runners[s] /\ reserved' = s /\ Cleared(s)
    BY DEF IInv, WriterInv
  <2>2. rows[Chapter(s)].until \in Nat /\ now \in Nat /\ now' \in Nat
    BY DEF IInv, TypeOK, Row, Runner
  <2>3. Fenced(s)'
    BY <2>1, <2>2 DEF Cleared, Fenced, Active
  <2> QED BY <2>1, <2>3 DEF Cleared, Duplicate
<1>2. NoDuplicateContent'
  BY DEF IInv, NoDuplicateContent
<1>3. ASSUME IoFails = FALSE PROVE FilesInv'
  BY <1>3 DEF IInv, FilesInv, DoneIsConfirmed
<1> QED BY <1>1, <1>2, <1>3 DEF IInv

LEMMA RaisesStep ==
  ASSUME IInv, NEW r \in Runners, processor_raises(r)
  PROVE  IInv'
<1>1. TypeOK'
  BY DEF IInv, processor_raises, Goto, TypeOK, Runner
<1> QED BY <1>1, QuietStep DEF IInv, processor_raises, Goto, TypeOK, Runner

LEMMA CrashStep ==
  ASSUME IInv, NEW p \in Processes, crash(p)
  PROVE  IInv'
<1>1. TypeOK /\ Idle \in Runner /\ Idle.pc = "idle"
  BY NewTyped DEF IInv
<1>2. TypeOK'
  BY <1>1 DEF crash, TypeOK
<1>3. \A s \in Runners : \/ runners'[s].pc \in {"idle", "failing"}
                         \/ /\ runners'[s] = runners[s]
                            /\ reserved = s => reserved' = s
  BY <1>1 DEF crash
<1> QED BY <1>2, <1>3, QuietStep DEF crash

LEMMA NextInv == IInv /\ [Next]_vars => IInv'
<1> SUFFICES ASSUME IInv, [Next]_vars PROVE IInv'
  OBVIOUS
<1>0. TypeOK
  BY DEF IInv
<1>1. ASSUME NEW r \in Runners, RunnerStep(r) PROVE IInv'
  <2>1. CASE \E ch \in Chapters : \E current \in {now - 1, now} \cap Nat : claim_chapter(r, ch, current)
    BY <2>1, ClaimStep
  <2>2. CASE \E ch \in Chapters : pending_chapter(r, ch)
    BY <2>2, PendingStep
  <2>3. CASE \E content \in Contents : mark_done(r, content)
    BY <2>3, AcceptStep
  <2> QED BY <1>1, <2>1, <2>2, <2>3, RaisesStep, ReplaceStep, FailingDiskStep, CommitStep,
             FailedStep, ReleaseStep DEF RunnerStep
<1>2. ASSUME NEW p \in Processes, reset_failed(p) \/ crash(p) PROVE IInv'
  BY <1>2, ResetStep, CrashStep
<1>3. CASE Tick
  <2>1. TypeOK'
    BY <1>0, <1>3 DEF Tick, TypeOK
  <2> QED BY <1>3, <2>1, QuietStep DEF Tick
<1>4. CASE UNCHANGED vars
  <2>1. TypeOK'
    BY <1>0, <1>4 DEF vars, TypeOK
  <2> QED BY <1>4, <2>1, QuietStep DEF vars
<1> QED BY <1>1, <1>2, <1>3, <1>4 DEF Next

LEMMA Invariance == Spec => []IInv
BY InitInv, NextInv, PTL DEF Spec

-----------------------------------------------------------------------------
\* Type correctness of rows, files and runners.
THEOREM TypeCorrect == Spec => []TypeOK
<1>1. IInv => TypeOK
  BY DEF IInv
<1> QED BY <1>1, Invariance, PTL

\* No two chapters are confirmed with one content, whether or not the disk fails.
THEOREM ContentsAreDistinct == Spec => []NoDuplicateContent
<1>1. IInv => NoDuplicateContent
  BY DEF IInv
<1> QED BY <1>1, Invariance, PTL

\* While disk writes and commits do not fail, a done chapter always has its file,
\* through crashes and with any number of processes.
THEOREM DoneChaptersHaveFiles ==
  ASSUME IoFails = FALSE
  PROVE  Spec => []DoneIsConfirmed
<1>1. IInv => DoneIsConfirmed
  BY DEF IInv, FilesInv
<1> QED BY <1>1, Invariance, PTL

\* No step changes a row that is done.
LEMMA FinalStep ==
  ASSUME IInv, [Next]_vars, NEW ch \in Chapters, rows[ch].status = "done"
  PROVE  rows'[ch] = rows[ch]
<1>0. TypeOK
  BY DEF IInv
<1>1. ASSUME NEW r \in Runners, RunnerStep(r) PROVE rows'[ch] = rows[ch]
  <2>1. CASE \E dh \in Chapters : \E current \in {now - 1, now} \cap Nat : claim_chapter(r, dh, current)
    BY <1>0, <2>1 DEF claim_chapter, TypeOK
  <2>2. CASE mark_done_commit(r)
    BY <1>0, <2>2 DEF mark_done_commit, IInv, WriterInv, Cleared, TypeOK
  <2>3. CASE mark_failed(r)
    BY <1>0, <2>3 DEF mark_failed, TypeOK
  <2>4. CASE release_chapter_claim(r)
    BY <1>0, <2>4 DEF release_chapter_claim, TypeOK
  <2> QED BY <1>1, <2>1, <2>2, <2>3, <2>4 DEF RunnerStep, pending_chapter, processor_raises,
             mark_done, mark_done_replace, mark_done_write_fails, mark_done_rollback, mark_done_unlink
<1>2. ASSUME NEW p \in Processes, reset_failed(p) \/ crash(p) PROVE rows'[ch] = rows[ch]
  BY <1>2 DEF reset_failed, crash
<1> QED BY <1>1, <1>2 DEF Next, Tick, vars

\* A step that ends a live claim is its task's own.
LEMMA ClaimEnds ==
  ASSUME IInv, [Next]_vars, NEW ch \in Chapters, Active(rows[ch]), rows'[ch].owner # rows[ch].owner
  PROVE  \E r \in Runners : OwnerOf[r] = rows[ch].owner /\ runners'[r] # runners[r]
<1>0. TypeOK /\ rows[ch] \in Row /\ Idle.pc = "idle" /\ rows[ch].owner # NONE
  BY NewTyped DEF IInv, TypeOK, Active
<1>1. ASSUME NEW r \in Runners, RunnerStep(r)
      PROVE  OwnerOf[r] = rows[ch].owner /\ runners'[r] # runners[r]
  <2>1. ASSUME NEW dh \in Chapters, NEW current \in {now - 1, now} \cap Nat, claim_chapter(r, dh, current)
        PROVE  FALSE
    <3>1. dh = ch /\ rows'[ch].owner = OwnerOf[r]
      BY <1>0, <2>1 DEF claim_chapter, TypeOK, Row
    <3>2. rows[ch].until > current
      BY <1>0, <2>1 DEF Active, TypeOK, Row
    <3>3. current \in Nat /\ rows[ch].until \in Nat
      BY <1>0 DEF Row
    <3>4. rows[ch].owner = OwnerOf[r]
      BY <1>0, <2>1, <3>1, <3>2, <3>3 DEF claim_chapter
    <3> QED BY <3>1, <3>4
  <2>2. CASE mark_done_commit(r)
    <3>1. Chapter(r) = ch /\ Fenced(r)
      BY <1>0, <2>2 DEF mark_done_commit, IInv, WriterInv, Cleared, TypeOK
    <3>2. runners'[r] # runners[r]
      BY <1>0, <2>2 DEF mark_done_commit, Rests, TypeOK
    <3> QED BY <3>1, <3>2 DEF Fenced
  <2>3. CASE mark_failed(r)
    <3>1. Chapter(r) = ch /\ ValidClaim(r)
      BY <1>0, <2>3 DEF mark_failed, TypeOK
    <3>2. runners'[r] # runners[r]
      BY <1>0, <2>3 DEF mark_failed, Rests, TypeOK
    <3> QED BY <3>1, <3>2 DEF ValidClaim
  <2>4. CASE release_chapter_claim(r)
    <3>1. Chapter(r) = ch /\ rows[ch].owner = OwnerOf[r]
      BY <1>0, <2>4 DEF release_chapter_claim, TypeOK
    <3>2. runners'[r] # runners[r]
      BY <1>0, <2>4 DEF release_chapter_claim, Rests, TypeOK
    <3> QED BY <3>1, <3>2
  <2> QED BY <1>1, <2>1, <2>2, <2>3, <2>4 DEF RunnerStep, pending_chapter, processor_raises,
             mark_done, mark_done_replace, mark_done_write_fails, mark_done_rollback, mark_done_unlink
<1>2. ASSUME NEW p \in Processes, reset_failed(p) \/ crash(p) PROVE rows'[ch].owner = rows[ch].owner
  BY <1>0, <1>2 DEF reset_failed, crash, TypeOK, Row
<1> QED BY <1>1, <1>2 DEF Next, Tick, vars

\* A claim that has not run out is ended only by its own task (claim_chapter, mark_done,
\* mark_failed, release_chapter_claim, reset_failed).
THEOREM LiveClaimsAreKept == Spec => LiveClaimIsKept
<1>1. IInv /\ [Next]_vars =>
        [\A ch \in Chapters :
           Active(rows[ch]) /\ rows'[ch].owner # rows[ch].owner =>
             \E r \in Runners : /\ OwnerOf[r] = rows[ch].owner
                                /\ runners'[r] # runners[r]]_<<rows, runners>>
  BY ClaimEnds
<1> QED BY <1>1, Invariance, PTL DEF Spec, LiveClaimIsKept
-----------------------------------------------------------------------------
(* The commands of ChapterEdits: what they list is done already, so that     *)
(* mark_failed's update skips it.                                            *)

ListsDone ==
  /\ edits \in [Editors -> Edit]
  /\ \A p \in Editors : edits[p].todo \subseteq {ch \in Chapters : rows[ch].status = "done"}

LEMMA RemainingTyped ==
  /\ Ended \in Edit /\ Ended.todo = {}
  /\ \A op \in {"none", "remove", "titles"}, todo \in SUBSET Chapters :
       Remaining(op, todo) \in Edit /\ Remaining(op, todo).todo = todo
BY DEF Ended, Remaining, Edit

LEMMA EditInitInv == EditInit => IInv /\ ListsDone
BY InitInv, RemainingTyped DEF EditInit, ListsDone

\* Every title that is to be fixed can be.
LEMMA FixedTyped ==
  ASSUME NEW ch \in Chapters, NEW content \in Contents, ~RightTitle(ch, content)
  PROVE  FixedTitle(ch, content) \in Contents
<1>1. \E fixed \in Contents : Number[fixed] = ch /\ Body[fixed] = Body[content]
  BY EditsAssumption DEF RightTitle
<1> QED BY <1>1 DEF FixedTitle

\* No row changes, and a command's list only loses chapters or is made of done ones.
LEMMA CommandStep ==
  ASSUME IInv, ListsDone, NEW p \in Editors, EditStep(p)
  PROVE  UNCHANGED vars /\ ListsDone'
<1>0. edits[p] \in Edit /\ edits[p].op \in {"none", "remove", "titles"} /\ edits[p].todo \in SUBSET Chapters
  BY DEF ListsDone, Edit
<1>1. CASE remove_duplicates(p) \/ fix_titles(p)
  <2>1. PICK op \in {"remove", "titles"}, list \in SUBSET {ch \in Chapters : rows[ch].status = "done"} :
          Lists(p, op, list)
    BY <1>1 DEF remove_duplicates, fix_titles, Duplicates, Readable
  <2> QED BY <2>1, RemainingTyped DEF Lists, ListsDone, vars
<1>2. CASE edit_dies(p)
  BY <1>2, RemainingTyped DEF edit_dies, Ends, ListsDone, vars
<1>3. ASSUME NEW ch \in Chapters, mark_duplicate(p, ch) \/ read_chapter(p, ch) \/ fix_title(p, ch)
      PROVE  UNCHANGED vars /\ ListsDone'
  <2>1. rows[ch].status = "done"
    BY <1>3 DEF ListsDone, mark_duplicate, read_chapter, fix_title, Reaches
  <2>2. UNCHANGED vars
    BY <1>3, <2>1 DEF mark_duplicate, read_chapter, fix_title, vars
  <2> DEFINE fixing == [edits[p] EXCEPT !.content = FixedTitle(ch, files[ch])]
  <2>3. PICK next : /\ edits' = [edits EXCEPT ![p] = next]
                    /\ next \in Edit /\ next.todo \subseteq edits[p].todo
    <3>1. CASE Passes(p, ch) \/ Ends(p)
      BY <1>0, <3>1, RemainingTyped DEF Passes, Ends
    <3>2. CASE /\ files[ch] # NONE /\ ~RightTitle(ch, files[ch])
               /\ edits' = [edits EXCEPT ![p].content = FixedTitle(ch, files[ch])]
      <4>1. FixedTitle(ch, files[ch]) \in Contents
        BY <3>2, FixedTyped DEF IInv, TypeOK
      <4>2. fixing \in Edit /\ fixing.todo = edits[p].todo
        BY <1>0, <4>1 DEF Edit
      <4>3. edits' = [edits EXCEPT ![p] = fixing]
        BY <3>2 DEF ListsDone
      <4> QED BY <4>2, <4>3
    <3> QED BY <1>3, <3>1, <3>2 DEF mark_duplicate, read_chapter, fix_title
  <2> QED BY <2>2, <2>3 DEF ListsDone, vars
<1> QED BY <1>1, <1>2, <1>3 DEF EditStep

\* To the chapters and runners every step is one of ChapterStorage or none.
LEMMA EditRefines ==
  ASSUME IInv, ListsDone, [EditNext]_evars
  PROVE  [Next]_vars
BY CommandStep DEF EditNext, evars

LEMMA EditNextInv == IInv /\ ListsDone /\ [EditNext]_evars => IInv' /\ ListsDone'
<1> SUFFICES ASSUME IInv, ListsDone, [EditNext]_evars PROVE IInv' /\ ListsDone'
  OBVIOUS
<1>1. [Next]_vars
  BY EditRefines
<1>2. IInv' /\ \A ch \in Chapters : rows[ch].status = "done" => rows'[ch] = rows[ch]
  BY <1>1, NextInv, FinalStep
<1>3. CASE \E p \in Editors : EditStep(p)
  BY <1>2, <1>3, CommandStep
<1>4. CASE UNCHANGED edits
  BY <1>2, <1>4 DEF ListsDone
<1> QED BY <1>2, <1>3, <1>4 DEF EditNext, evars

\* Type correctness with the commands: every title they are to fix can be.
THEOREM CommandsTyped == EditSpec => []EditsTypeOK
<1>1. IInv /\ ListsDone => EditsTypeOK
  BY DEF IInv, ListsDone, EditsTypeOK
<1> QED BY <1>1, EditInitInv, EditNextInv, PTL DEF EditSpec

\* A confirmed row is final, whichever runners and commands go over it.
THEOREM DoneRowsAreFinal == EditSpec => DoneIsFinal
<1>1. IInv /\ ListsDone /\ [EditNext]_evars =>
        [\A ch \in Chapters : rows[ch].status = "done" => rows'[ch] = rows[ch]]_rows
  BY EditRefines, FinalStep
<1> QED BY <1>1, EditInitInv, EditNextInv, PTL DEF EditSpec, DoneIsFinal
=============================================================================
