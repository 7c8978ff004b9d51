------------------------- MODULE TaskExecutor_proofs -------------------------
(***************************************************************************)
(* Proofs about TaskExecutor, for any number of tasks, workers, clients,   *)
(* operations and restarts, and any queue size.                            *)
(*                                                                         *)
(* The invariant has two halves.  ThreadInv says what the row a thread     *)
(* keeps is still worth when the thread writes: a version names a row, and *)
(* each pc remembers the statuses that led to it.  OwnInv states           *)
(* OneOwnerPerTask without counting: the places of the queue and the       *)
(* workers that hold a task are the members of _scheduled, one each.       *)
(*                                                                         *)
(* LiveRow is weaker than TaskRow in that any status may be a resume       *)
(* origin: which one is the subject of TaskRepository_proofs.  What the    *)
(* third part needs of the origins is in SoundRow.                         *)
(*                                                                         *)
(* The second part is about the tasks in an active status.  Served says of *)
(* each of them who takes it out of that status: an item of the queue, a   *)
(* note in _pending_resumes, a worker that drives it, or a thread about to *)
(* schedule it or to roll it back.                                         *)
(*                                                                         *)
(* The third part is about roll-backs.  A task that is resumed has a row   *)
(* that allows its roll-back (Allows), and no step takes that away while   *)
(* the resume is scheduled, noted or carried by a worker.                  *)
(***************************************************************************)
EXTENDS TaskExecutor, FiniteSetTheorems, SequenceTheorems, WellFoundedInduction, TLAPS

LiveRow == [status : TaskStatus, version : Nat,
            resume_status : TaskStatus \cup {NONE}, resume_gate : ResumeGate]

PCs == Holding \cup ClientPcs \cup {"idle", "exited", "dead"}
Resting == {"idle", "exited", "dead"}

\* The pcs at which cur is a row the thread has read and may act upon.
Informed == {"claim", "check", "handler", "schedule", "unscheduled", "returned", "complete",
             "handoff", "submit", "request", "resume", "schedule_resumed", "apply", "rollback"}

Working == {"handler", "schedule", "unscheduled", "returned", "complete"}

Suspended == TERMINAL_STATUSES \cup RESUMABLE_STATUSES
Failures == {"recoverable_failed", "terminal_failed"}

AThread == [pc : PCs, task : Tasks \cup {0}, preclaimed : BOOLEAN, cur : LiveRow \cup {NoRow},
            goal : TaskStatus \cup {NONE}, latest : Nat, tries : Nat]

Item == [task : Tasks, preclaimed : BOOLEAN]
Resume == [preclaimed : BOOLEAN, rollback : TaskStatus \cup {NONE}]

Types ==
  /\ tasks \in [Tasks -> LiveRow \cup {NoRow}]
  /\ queue \in Seq(Item)
  /\ scheduled \subseteq Tasks
  /\ pending_resumes \in [Tasks -> Resume]
  /\ threads \in [Threads -> AThread]
  /\ todo \subseteq Tasks

\* What a thread knows about the rows.
ThreadInv(th, rows) ==
  /\ th.pc \notin Resting => th.task \in Tasks /\ rows[th.task] \in LiveRow
  /\ th.pc \in Informed =>
       /\ th.cur \in LiveRow
       /\ th.cur.version <= rows[th.task].version
       /\ th.cur.version = rows[th.task].version => th.cur = rows[th.task]
  /\ th.pc = "claim" => th.cur.status \in {"created", "ready"}
  /\ th.pc \in Working => th.cur.status \in ACTIVE_STATUSES
  /\ th.pc = "handoff" => th.cur.status = "ready"
  /\ th.pc = "resume" => th.cur.resume_status \in TaskStatus
  /\ th.pc \in {"returned", "complete"} => th.goal \in TaskStatus
  /\ th.pc \in {"fail", "fail_cas"} => th.goal \in Failures
  /\ th.pc = "fail_cas" =>
       /\ th.latest <= rows[th.task].version
       /\ th.latest = rows[th.task].version => rows[th.task].status \notin Suspended

ThreadsInv == \A p \in Threads : ThreadInv(threads[p], tasks)

\* Whatever is queued or listed is in the table.
ListedInv ==
  /\ \A i \in 1..Len(queue) : tasks[queue[i].task] \in LiveRow
  /\ \A t \in todo : tasks[t] \in LiveRow

Has(th, t) == th.pc \in Holding /\ th.task = t

OwnInv ==
  /\ \A i, j \in 1..Len(queue) : queue[i].task = queue[j].task => i = j
  /\ \A w, v \in Workers, t \in Tasks : Has(threads[w], t) /\ Has(threads[v], t) => w = v
  /\ \A w \in Workers, i \in 1..Len(queue) : ~ Has(threads[w], queue[i].task)
  /\ \A t \in Tasks : t \in scheduled <=> \/ \E i \in 1..Len(queue) : queue[i].task = t
                                          \/ \E w \in Workers : Has(threads[w], t)

IInv == Types /\ ThreadsInv /\ ListedInv /\ OwnInv /\ PendingResumeIsCarried

-----------------------------------------------------------------------------
(* Rows.                                                                    *)

\* What a step does to the rows, as those who read them see it.
Advances(new, row) == new \in LiveRow /\ (new = row \/ new.version > row.version)

RowsAdvance ==
  /\ tasks' \in [Tasks -> LiveRow \cup {NoRow}]
  /\ \A t \in Tasks : tasks[t] \in LiveRow => Advances(tasks'[t], tasks[t])

LEMMA RowFacts ==
  /\ NoRow \notin LiveRow /\ NoRow.status = "absent" /\ NoRow.version = 0
  /\ \A row \in LiveRow : row.version \in Nat /\ row.status \in TaskStatus
  /\ NewTask \in LiveRow
  /\ ACTIVE_STATUSES \subseteq TaskStatus /\ Suspended \subseteq TaskStatus
  /\ Failures \subseteq TaskStatus /\ "absent" \notin TaskStatus /\ NONE \notin TaskStatus
BY DEF NoRow, LiveRow, NewTask, TaskStatus, ACTIVE_STATUSES, Suspended, Failures, NONE,
       TERMINAL_STATUSES, RESUMABLE_STATUSES, ResumeGate

\* A row an operation writes over row.
Follows(new, row) == new \in LiveRow /\ new.version = row.version + 1

LEMMA TransitionedRow ==
  ASSUME NEW row \in LiveRow, NEW to \in TaskStatus
  PROVE  Follows(Transitioned(row, to), row) /\ Transitioned(row, to).status = to
BY DEF Follows, Transitioned, LiveRow, ResumeGate, NONE

LEMMA GatedRow ==
  ASSUME NEW row \in LiveRow
  PROVE  Follows(Gated(row), row) /\ Gated(row).status = "recoverable_failed"
BY DEF Follows, Gated, LiveRow, ResumeGate, NONE, TaskStatus, ACTIVE_STATUSES,
       RESUMABLE_STATUSES

LEMMA LostRow ==
  ASSUME NEW row \in LiveRow
  PROVE  Follows(Lost(row), row) /\ Lost(row).status = "recoverable_failed"
BY DEF Follows, Lost, LiveRow, ResumeGate, NONE, TaskStatus, ACTIVE_STATUSES,
       RESUMABLE_STATUSES

LEMMA AllowedTargets ==
  ASSUME NEW row, NEW to, CanTransition(row, to)
  PROVE  to \in TaskStatus
BY DEF CanTransition, ALLOWED_TRANSITIONS, OriginStatus, TaskStatus, ACTIVE_STATUSES,
       RESUMABLE_STATUSES, TERMINAL_STATUSES

LEMMA PutAdvances ==
  ASSUME Types, NEW t \in Tasks, NEW row, Put(t, row), tasks[t] \in LiveRow,
         Follows(row, tasks[t]) \/ row = tasks[t]
  PROVE  RowsAdvance /\ tasks'[t] = row
<1>1. row \in LiveRow
  BY DEF Follows
<1>2. tasks' \in [Tasks -> LiveRow \cup {NoRow}] /\ tasks'[t] = row
  BY <1>1 DEF Types, Put
<1>3. ASSUME NEW u \in Tasks, tasks[u] \in LiveRow PROVE Advances(tasks'[u], tasks[u])
  <2>1. CASE u = t
    <3>1. tasks[t].version \in Nat
      BY RowFacts
    <3>2. Advances(row, tasks[t])
      BY <1>1, <3>1 DEF Follows, Advances
    <3> QED BY <1>2, <2>1, <3>2
  <2>2. CASE u # t
    BY <1>3, <2>2 DEF Types, Put, Advances
  <2> QED BY <2>1, <2>2
<1> QED BY <1>2, <1>3 DEF RowsAdvance

LEMMA UnchangedAdvances ==
  ASSUME Types, UNCHANGED tasks
  PROVE  RowsAdvance
BY DEF Types, RowsAdvance, Advances

-----------------------------------------------------------------------------
(* Threads.                                                                 *)

LEMMA PCNames ==
  /\ {"idle", "exited", "dead", "load", "claim", "check", "handler", "schedule", "unscheduled",
      "returned", "complete", "handoff", "fail", "fail_cas", "finish", "get", "submit",
      "compensate", "request", "resume", "schedule_resumed", "apply", "rollback"} \subseteq PCs
  /\ PCs \subseteq
     {"idle", "exited", "dead", "load", "claim", "check", "handler", "schedule", "unscheduled",
      "returned", "complete", "handoff", "fail", "fail_cas", "finish", "get", "submit",
      "compensate", "request", "resume", "schedule_resumed", "apply", "rollback"}
  /\ Working \subseteq Informed /\ Informed \cap Resting = {} /\ Holding \cap Resting = {}
BY DEF PCs, Holding, ClientPcs, Informed, Resting, Working

\* What a thread knows stays true while others write.
LEMMA ThreadInvKept ==
  ASSUME NEW th \in AThread, NEW rows \in [Tasks -> LiveRow \cup {NoRow}],
         NEW rows2 \in [Tasks -> LiveRow \cup {NoRow}], ThreadInv(th, rows),
         \A t \in Tasks : rows[t] \in LiveRow => Advances(rows2[t], rows[t])
  PROVE  ThreadInv(th, rows2)
<1>1. CASE th.pc \in Resting
  BY <1>1 DEF ThreadInv, Resting, Informed, Working
<1>2. CASE th.pc \notin Resting
  <2>1. th.task \in Tasks /\ rows[th.task] \in LiveRow
    BY <1>2 DEF ThreadInv
  <2>2. Advances(rows2[th.task], rows[th.task])
    BY <2>1
  <2>3. /\ rows2[th.task] \in LiveRow
        /\ rows2[th.task] = rows[th.task] \/ rows2[th.task].version > rows[th.task].version
        /\ rows[th.task].version \in Nat /\ rows2[th.task].version \in Nat
    BY <2>1, <2>2, RowFacts DEF Advances
  <2>4. th.latest \in Nat /\ (th.cur \in LiveRow => th.cur.version \in Nat)
    BY RowFacts DEF AThread
  <2>5. th.pc \in Informed =>
          /\ th.cur \in LiveRow
          /\ th.cur.version <= rows2[th.task].version
          /\ th.cur.version = rows2[th.task].version => th.cur = rows2[th.task]
    BY <2>3, <2>4 DEF ThreadInv
  <2>6. th.pc = "fail_cas" =>
          /\ th.latest <= rows2[th.task].version
          /\ th.latest = rows2[th.task].version => rows2[th.task].status \notin Suspended
    BY <2>3, <2>4 DEF ThreadInv
  <2> QED BY <2>1, <2>3, <2>5, <2>6 DEF ThreadInv
<1> QED BY <1>1, <1>2

LEMMA ThreadMoves ==
  ASSUME Types, ThreadsInv, NEW p \in Threads, NEW th \in AThread, Goto(p, th), RowsAdvance,
         ThreadInv(th, tasks')
  PROVE  threads' \in [Threads -> AThread] /\ ThreadsInv'
<1>1. threads' \in [Threads -> AThread]
  BY DEF Types, Goto
<1>2. ASSUME NEW q \in Threads PROVE ThreadInv(threads'[q], tasks')
  <2>1. CASE q = p
    BY <2>1 DEF Types, Goto
  <2>2. CASE q # p
    <3>1. threads'[q] = threads[q] /\ threads[q] \in AThread /\ ThreadInv(threads[q], tasks)
      BY <2>2 DEF Types, Goto, ThreadsInv
    <3>2. /\ tasks \in [Tasks -> LiveRow \cup {NoRow}] /\ tasks' \in [Tasks -> LiveRow \cup {NoRow}]
          /\ \A t \in Tasks : tasks[t] \in LiveRow => Advances(tasks'[t], tasks[t])
      BY DEF Types, RowsAdvance
    <3>3. ThreadInv(threads[q], tasks')
      BY <3>1, <3>2, ThreadInvKept
    <3> QED BY <3>1, <3>3
  <2> QED BY <2>1, <2>2
<1> QED BY <1>1, <1>2 DEF ThreadsInv

LEMMA QueuedItem ==
  ASSUME Types, NEW i \in 1..Len(queue)
  PROVE  queue[i] \in Item /\ queue[i].task \in Tasks
<1>1. queue[i] \in Item
  BY ElementOfSeq DEF Types
<1> QED BY <1>1 DEF Item

LEMMA ListedKept ==
  ASSUME Types, ListedInv, RowsAdvance, queue' = queue, todo' \subseteq todo
  PROVE  ListedInv'
<1>1. ASSUME NEW i \in 1..Len(queue) PROVE tasks'[queue[i].task] \in LiveRow
  <2>1. queue[i].task \in Tasks /\ tasks[queue[i].task] \in LiveRow
    BY QueuedItem DEF ListedInv
  <2> QED BY <2>1 DEF RowsAdvance, Advances
<1>2. ASSUME NEW t \in todo' PROVE tasks'[t] \in LiveRow
  BY DEF Types, ListedInv, RowsAdvance, Advances
<1> QED BY <1>1, <1>2 DEF ListedInv

-----------------------------------------------------------------------------
(* Places.                                                                  *)

LEMMA ThreadNames ==
  /\ Workers \subseteq Threads /\ Clients \subseteq Threads /\ Reconciler \in Threads
  /\ \A c \in Clients : c \notin Workers
  /\ Reconciler \notin Workers /\ Tasks \subseteq Nat \ {0}
BY ExecutorAssumption DEF Threads

\* A worker keeps the place of its task; nobody else has one to keep.
SamePlace(p, th) ==
  p \in Workers => /\ th.pc \in Holding <=> threads[p].pc \in Holding
                   /\ threads[p].pc \in Holding => th.task = threads[p].task

LEMMA PlacesKept ==
  ASSUME Types, NEW p \in Threads, NEW th \in AThread, Goto(p, th), SamePlace(p, th),
         NEW w \in Workers, NEW t
  PROVE  Has(threads'[w], t) <=> Has(threads[w], t)
<1>1. CASE w = p
  <2>1. threads'[w] = th
    BY <1>1 DEF Types, Goto
  <2> QED BY <1>1, <2>1 DEF Has, SamePlace
<1>2. CASE w # p
  <2>1. threads'[w] = threads[w]
    BY <1>2, ThreadNames DEF Types, Goto
  <2> QED BY <2>1 DEF Has
<1> QED BY <1>1, <1>2

LEMMA OwnKept ==
  ASSUME Types, OwnInv, NEW p \in Threads, NEW th \in AThread, Goto(p, th), SamePlace(p, th),
         UNCHANGED <<queue, scheduled>>
  PROVE  OwnInv'
<1>1. \A w \in Workers : \A t : Has(threads'[w], t) <=> Has(threads[w], t)
  BY PlacesKept
<1>2. \A i, j \in 1..Len(queue') : queue'[i].task = queue'[j].task => i = j
  BY DEF OwnInv
<1>3. \A w, v \in Workers, t \in Tasks : Has(threads'[w], t) /\ Has(threads'[v], t) => w = v
  BY <1>1 DEF OwnInv
<1>4. \A w \in Workers, i \in 1..Len(queue') : ~ Has(threads'[w], queue'[i].task)
  BY <1>1 DEF OwnInv
<1>5. \A t \in Tasks : t \in scheduled' <=> \/ \E i \in 1..Len(queue') : queue'[i].task = t
                                            \/ \E w \in Workers : Has(threads'[w], t)
  BY <1>1 DEF OwnInv
<1> QED BY <1>2, <1>3, <1>4, <1>5 DEF OwnInv

\* Most steps: one thread goes on, the queue is as it was.
LEMMA ThreadStep ==
  ASSUME IInv, NEW p \in Threads, NEW th \in AThread, Goto(p, th), SamePlace(p, th),
         RowsAdvance, ThreadInv(th, tasks'), UNCHANGED schedVars, todo' \subseteq todo
  PROVE  IInv'
<1>1. Types /\ ThreadsInv /\ ListedInv /\ OwnInv /\ PendingResumeIsCarried
  BY DEF IInv
<1>2. threads' \in [Threads -> AThread] /\ ThreadsInv'
  BY <1>1, ThreadMoves
<1>3. ListedInv'
  BY <1>1, ListedKept DEF schedVars
<1>4. OwnInv'
  BY <1>1, OwnKept DEF schedVars
<1>5. Types' /\ PendingResumeIsCarried'
  BY <1>1, <1>2 DEF Types, RowsAdvance, PendingResumeIsCarried, schedVars
<1> QED BY <1>2, <1>3, <1>4, <1>5 DEF IInv

\* The same with a resume recorded for a task that has its place.
LEMMA PendingStep ==
  ASSUME IInv, NEW p \in Threads, NEW th \in AThread, Goto(p, th), SamePlace(p, th),
         RowsAdvance, ThreadInv(th, tasks'), UNCHANGED <<queue, scheduled, todo>>,
         NEW t \in scheduled, NEW resume \in Resume,
         pending_resumes' = [pending_resumes EXCEPT ![t] = resume]
  PROVE  IInv'
<1>1. Types /\ ThreadsInv /\ ListedInv /\ OwnInv /\ PendingResumeIsCarried
  BY DEF IInv
<1>2. threads' \in [Threads -> AThread] /\ ThreadsInv'
  BY <1>1, ThreadMoves
<1>3. ListedInv'
  BY <1>1, ListedKept
<1>4. OwnInv'
  BY <1>1, OwnKept
<1>5. Types' /\ PendingResumeIsCarried'
  BY <1>1, <1>2 DEF Types, RowsAdvance, PendingResumeIsCarried
<1> QED BY <1>2, <1>3, <1>4, <1>5 DEF IInv

LEMMA Appended ==
  ASSUME Types, NEW item \in Item
  PROVE  LET longer == Append(queue, item)
         IN  /\ longer \in Seq(Item) /\ Len(longer) = Len(queue) + 1 /\ Len(queue) \in Nat
             /\ \A i \in 1..Len(queue) : longer[i] = queue[i]
             /\ longer[Len(queue) + 1] = item
             /\ \A i \in 1..Len(longer) : i \in 1..Len(queue) \/ i = Len(queue) + 1
BY AppendProperties DEF Types

\* A task that has no place gets one at the end of the queue.
LEMMA EnqueueStep ==
  ASSUME IInv, NEW p \in Threads, NEW th \in AThread, Goto(p, th), SamePlace(p, th),
         UNCHANGED tasks, ThreadInv(th, tasks), todo' \subseteq todo,
         NEW t \in Tasks, t \notin scheduled, tasks[t] \in LiveRow,
         NEW preclaimed \in BOOLEAN, NEW version, Enqueue(t, preclaimed, version)
  PROVE  IInv'
<1> DEFINE item == [task |-> t, preclaimed |-> preclaimed]
           n == Len(queue)
<1>1. Types /\ ThreadsInv /\ ListedInv /\ OwnInv /\ PendingResumeIsCarried
  BY DEF IInv
<1>2. item \in Item /\ item.task = t
  BY DEF Item
<1>3. queue' = Append(queue, item) /\ scheduled' = scheduled \cup {t}
      /\ UNCHANGED pending_resumes
  BY DEF Enqueue
<1> HIDE DEF item
<1>4. /\ queue' \in Seq(Item) /\ Len(queue') = n + 1 /\ n \in Nat
      /\ \A i \in 1..n : queue'[i] = queue[i]
      /\ queue'[n + 1] = item
      /\ \A i \in 1..Len(queue') : i \in 1..n \/ i = n + 1
  BY <1>1, <1>2, <1>3, Appended
<1>5. n + 1 \in 1..Len(queue') /\ 1..n \subseteq 1..Len(queue')
  BY <1>4
<1>6. \A w \in Workers : \A u : Has(threads'[w], u) <=> Has(threads[w], u)
  BY <1>1, PlacesKept
<1>7. /\ \A i \in 1..n : queue[i].task # t
      /\ \A w \in Workers : ~ Has(threads[w], t)
  BY <1>1 DEF OwnInv
<1> HIDE DEF n
<1>8. threads' \in [Threads -> AThread] /\ ThreadsInv'
  BY <1>1, ThreadMoves, UnchangedAdvances
<1>9. ListedInv'
  <2>1. \A i \in 1..n : tasks[queue[i].task] \in LiveRow
    BY <1>1 DEF ListedInv, n
  <2>2. \A i \in 1..Len(queue') : tasks'[queue'[i].task] \in LiveRow
    BY <1>2, <1>4, <2>1
  <2> QED BY <1>1, <2>2 DEF ListedInv
<1>10. OwnInv'
  <2>1. \A i, j \in 1..n : queue[i].task = queue[j].task => i = j
    BY <1>1 DEF OwnInv, n
  <2>2. \A i, j \in 1..Len(queue') : queue'[i].task = queue'[j].task => i = j
    BY <1>2, <1>4, <1>7, <2>1
  <2>3. \A w, v \in Workers, u \in Tasks : Has(threads'[w], u) /\ Has(threads'[v], u) => w = v
    BY <1>1, <1>6 DEF OwnInv
  <2>4. \A w \in Workers, i \in 1..n : ~ Has(threads[w], queue[i].task)
    BY <1>1 DEF OwnInv, n
  <2>5. \A w \in Workers, i \in 1..Len(queue') : ~ Has(threads'[w], queue'[i].task)
    BY <1>2, <1>4, <1>6, <1>7, <2>4
  <2>6. \A u \in Tasks : u \in scheduled <=> \/ \E i \in 1..n : queue[i].task = u
                                             \/ \E w \in Workers : Has(threads[w], u)
    BY <1>1 DEF OwnInv, n
  <2>7. \A u \in Tasks : (\E i \in 1..Len(queue') : queue'[i].task = u)
                            <=> (\E i \in 1..n : queue[i].task = u) \/ u = t
    BY <1>2, <1>4, <1>5
  <2>8. \A u \in Tasks : u \in scheduled' <=> \/ \E i \in 1..Len(queue') : queue'[i].task = u
                                              \/ \E w \in Workers : Has(threads'[w], u)
    BY <1>3, <1>6, <2>6, <2>7
  <2> QED BY <2>2, <2>3, <2>5, <2>8 DEF OwnInv
<1>11. Types' /\ PendingResumeIsCarried'
  BY <1>1, <1>3, <1>4, <1>8 DEF Types, PendingResumeIsCarried
<1> QED BY <1>8, <1>9, <1>10, <1>11 DEF IInv

-----------------------------------------------------------------------------
(* Moves of a thread.                                                       *)

LEMMA MyThread ==
  ASSUME IInv, NEW p \in Threads
  PROVE  /\ threads[p] \in AThread /\ ThreadInv(threads[p], tasks)
         /\ threads[p].pc \notin Resting =>
              threads[p].task \in Tasks /\ tasks[threads[p].task] \in LiveRow
BY DEF IInv, Types, ThreadsInv, ThreadInv

LEMMA MyTypes == IInv => Types
BY DEF IInv

LEMMA IdleThread ==
  /\ Idle \in AThread /\ Idle.pc = "idle" /\ Idle.pc \notin Holding
  /\ \A rows : ThreadInv(Idle, rows)
<1>1. Idle \in AThread /\ Idle.pc = "idle"
  BY PCNames DEF Idle, AThread
<1>2. \A rows : ThreadInv(Idle, rows)
  BY <1>1 DEF ThreadInv, Resting, Informed, Working
<1> QED BY <1>1, <1>2 DEF Holding

\* The thread returns to its caller, or goes back to the queue.
LEMMA IdleStep ==
  ASSUME IInv, NEW p \in Threads, Goto(p, Idle), p \in Workers => threads[p].pc \notin Holding,
         RowsAdvance, UNCHANGED <<schedVars, todo>>
  PROVE  IInv'
<1>1. SamePlace(p, Idle)
  BY IdleThread DEF SamePlace
<1> QED BY <1>1, IdleThread, ThreadStep

LEMMA DoneStep ==
  ASSUME IInv, NEW p \in Threads, Goto(p, Done(p)), p \in Workers => threads[p].pc \in Holding,
         RowsAdvance, UNCHANGED <<schedVars, todo>>
  PROVE  IInv'
<1>1. CASE p \notin Workers
  BY <1>1, IdleStep DEF Done
<1>2. CASE p \in Workers
  <2> DEFINE task == threads[p].task
             new == [Idle EXCEPT !.pc = "finish", !.task = task]
  <2>1. threads[p].pc \notin Resting
    BY <1>2, PCNames
  <2>2. task \in Tasks /\ tasks[task] \in LiveRow
    BY <2>1, MyThread
  <2>3. Goto(p, new)
    BY <1>2 DEF Done
  <2>4. tasks'[task] \in LiveRow
    BY <2>2 DEF RowsAdvance, Advances
  <2> HIDE DEF task
  <2>5. new \in AThread /\ new.pc = "finish" /\ new.task = task
    BY <2>2, IdleThread, PCNames DEF AThread
  <2> HIDE DEF new
  <2>6. ThreadInv(new, tasks')
    BY <2>2, <2>4, <2>5 DEF ThreadInv, Resting, Informed, Working
  <2>7. SamePlace(p, new)
    BY <1>2, <2>5 DEF SamePlace, Holding, task
  <2> QED BY <2>3, <2>5, <2>6, <2>7, ThreadStep
<1> QED BY <1>1, <1>2

\* A step that only reads: the thread's pc, and perhaps more of it, changes.
LEMMA ReadStep ==
  ASSUME IInv, NEW p \in Threads, NEW th \in AThread, Goto(p, th), SamePlace(p, th),
         ThreadInv(th, tasks), UNCHANGED <<tasks, schedVars>>, todo' \subseteq todo
  PROVE  IInv'
<1>1. RowsAdvance /\ ThreadInv(th, tasks')
  BY MyTypes, UnchangedAdvances
<1> QED BY <1>1, ThreadStep

\* Only the pc changes, and what the new one requires was known.
LEMMA PcThread ==
  ASSUME NEW th \in AThread, NEW pc \in PCs
  PROVE  LET new == [th EXCEPT !.pc = pc]
         IN  /\ new \in AThread /\ new.pc = pc /\ new.task = th.task /\ new.cur = th.cur
             /\ new.goal = th.goal /\ new.latest = th.latest
BY DEF AThread

LEMMA PcStep ==
  ASSUME IInv, NEW p \in Threads, NEW pc \in PCs, Step(p, pc),
         threads[p].pc \notin Resting, pc \notin {"claim", "handoff", "resume", "fail_cas"},
         pc \in Informed => threads[p].pc \in Informed,
         pc \in Working => threads[p].cur.status \in ACTIVE_STATUSES,
         pc \in {"returned", "complete"} => threads[p].goal \in TaskStatus,
         pc = "fail" => threads[p].goal \in Failures,
         p \in Workers => (pc \in Holding <=> threads[p].pc \in Holding),
         UNCHANGED <<tasks, schedVars, todo>>
  PROVE  IInv'
<1> DEFINE me == threads[p]
           new == [me EXCEPT !.pc = pc]
<1>1. me \in AThread /\ ThreadInv(me, tasks) /\ me.task \in Tasks /\ tasks[me.task] \in LiveRow
  BY MyThread
<1>2. /\ new \in AThread /\ new.pc = pc /\ new.task = me.task /\ new.cur = me.cur
      /\ new.goal = me.goal /\ new.latest = me.latest
  BY <1>1, PcThread
<1>3. Goto(p, new)
  BY DEF Step
<1> HIDE DEF new
<1>4. ThreadInv(new, tasks)
  BY <1>1, <1>2 DEF ThreadInv
<1>5. SamePlace(p, new)
  BY <1>2 DEF SamePlace
<1> QED BY <1>2, <1>3, <1>4, <1>5, ReadStep

-----------------------------------------------------------------------------
(* The steps of a worker.                                                   *)

LEMMA GetStep ==
  ASSUME IInv, NEW w \in Workers, get(w)
  PROVE  IInv'
<1> DEFINE item == Head(queue)
           task == item.task
           preclaimed == item.preclaimed
           new == [Idle EXCEPT !.pc = "load", !.task = task, !.preclaimed = preclaimed]
           n == Len(queue)
<1>1. Types /\ ThreadsInv /\ ListedInv /\ OwnInv /\ PendingResumeIsCarried
  BY DEF IInv
<1>2. /\ queue # <<>> /\ queue' = Tail(queue) /\ threads[w].pc = "idle" /\ Goto(w, new)
      /\ UNCHANGED <<tasks, scheduled, pending_resumes, todo>>
  BY DEF get, At, envVars
<1>3. /\ queue' \in Seq(Item) /\ Len(queue') = n - 1 /\ n \in Nat /\ n # 0
      /\ \A i \in 1..Len(queue') : queue'[i] = queue[i + 1]
      /\ queue[1] = item /\ item \in Item
  BY <1>1, <1>2, HeadTailProperties, EmptySeq DEF Types
<1>4. 1 \in 1..n /\ \A i \in 1..Len(queue') : i + 1 \in 1..n /\ i + 1 # 1
  BY <1>3
<1>5. /\ task \in Tasks /\ preclaimed \in BOOLEAN /\ tasks[task] \in LiveRow
      /\ queue[1].task = task
  BY <1>1, <1>3, <1>4 DEF Item, ListedInv
<1> HIDE DEF item, task, preclaimed
<1>6. new \in AThread /\ new.pc = "load" /\ new.task = task
  BY <1>5, IdleThread, PCNames DEF AThread
<1> HIDE DEF new
<1>7. ThreadInv(new, tasks)
  BY <1>5, <1>6 DEF ThreadInv, Resting, Informed, Working
<1>8. w \in Threads
  BY ThreadNames
<1>9. threads' \in [Threads -> AThread] /\ ThreadsInv'
  BY <1>1, <1>2, <1>6, <1>7, <1>8, ThreadMoves, UnchangedAdvances
<1>10. ListedInv'
  <2>1. \A i \in 1..Len(queue') : tasks'[queue'[i].task] \in LiveRow
    BY <1>1, <1>2, <1>3, <1>4 DEF ListedInv, n
  <2> QED BY <1>1, <1>2, <2>1 DEF ListedInv
<1>11. \A v \in Workers : \A u : Has(threads'[v], u) <=> Has(threads[v], u) \/ (v = w /\ u = task)
  <2> SUFFICES ASSUME NEW v \in Workers, NEW u
               PROVE  Has(threads'[v], u) <=> Has(threads[v], u) \/ (v = w /\ u = task)
    OBVIOUS
  <2>1. CASE v = w
    <3>1. threads'[v] = new
      BY <1>1, <1>2, <1>8, <2>1 DEF Types, Goto
    <3> QED BY <1>2, <1>6, <2>1, <3>1 DEF Has, Holding
  <2>2. CASE v # w
    <3>1. threads'[v] = threads[v]
      BY <1>1, <1>2, <2>2, ThreadNames DEF Types, Goto
    <3> QED BY <2>2, <3>1
  <2> QED BY <2>1, <2>2
<1>12. OwnInv'
  <2>1. /\ \A i, j \in 1..n : queue[i].task = queue[j].task => i = j
        /\ \A v \in Workers, i \in 1..n : ~ Has(threads[v], queue[i].task)
        /\ \A v, x \in Workers, u \in Tasks : Has(threads[v], u) /\ Has(threads[x], u) => v = x
        /\ \A u \in Tasks : u \in scheduled <=> \/ \E i \in 1..n : queue[i].task = u
                                                \/ \E v \in Workers : Has(threads[v], u)
    BY <1>1 DEF OwnInv, n
  <2>2. \A i, j \in 1..Len(queue') : queue'[i].task = queue'[j].task => i = j
    <3> SUFFICES ASSUME NEW i \in 1..Len(queue'), NEW j \in 1..Len(queue'),
                        queue'[i].task = queue'[j].task
                 PROVE  i = j
      OBVIOUS
    <3>1. queue[i + 1].task = queue[j + 1].task /\ i + 1 \in 1..n /\ j + 1 \in 1..n
      BY <1>3, <1>4
    <3>2. i + 1 = j + 1
      BY <2>1, <3>1
    <3> QED BY <3>2
  <2>3. \A v \in Workers : ~ Has(threads[v], task)
    BY <1>4, <1>5, <2>1
  <2>4. \A v, x \in Workers, u \in Tasks : Has(threads'[v], u) /\ Has(threads'[x], u) => v = x
    BY <1>11, <2>1, <2>3
  <2>5. \A i \in 1..Len(queue') : queue'[i].task # task
    BY <1>3, <1>4, <1>5, <2>1
  <2>6. \A v \in Workers, i \in 1..Len(queue') : ~ Has(threads'[v], queue'[i].task)
    <3> SUFFICES ASSUME NEW v \in Workers, NEW i \in 1..Len(queue')
                 PROVE  ~ Has(threads'[v], queue'[i].task)
      OBVIOUS
    <3>1. queue'[i].task = queue[i + 1].task /\ i + 1 \in 1..n
      BY <1>3, <1>4
    <3>2. ~ Has(threads[v], queue'[i].task)
      BY <2>1, <3>1
    <3> QED BY <1>11, <2>5, <3>2
  <2>7. \A u \in Tasks : (\E i \in 1..n : queue[i].task = u)
                            <=> (\E i \in 1..Len(queue') : queue'[i].task = u) \/ u = task
    <3> SUFFICES ASSUME NEW u \in Tasks
                 PROVE  (\E i \in 1..n : queue[i].task = u)
                            <=> (\E i \in 1..Len(queue') : queue'[i].task = u) \/ u = task
      OBVIOUS
    <3>1. ASSUME NEW i \in 1..n, queue[i].task = u, u # task
          PROVE  \E j \in 1..Len(queue') : queue'[j].task = u
      <4>1. i # 1 /\ i - 1 \in 1..Len(queue')
        BY <1>3, <1>5, <3>1
      <4>2. (i - 1) + 1 = i
        OBVIOUS
      <4>3. queue'[i - 1] = queue[i]
        BY <1>3, <4>1, <4>2
      <4> QED BY <3>1, <4>1, <4>3
    <3>2. ASSUME NEW j \in 1..Len(queue'), queue'[j].task = u
          PROVE  \E i \in 1..n : queue[i].task = u
      BY <1>3, <1>4, <3>2
    <3>3. u = task => \E i \in 1..n : queue[i].task = u
      BY <1>4, <1>5
    <3> QED BY <3>1, <3>2, <3>3
  <2>8. \A u \in Tasks : u \in scheduled' <=> \/ \E i \in 1..Len(queue') : queue'[i].task = u
                                              \/ \E v \in Workers : Has(threads'[v], u)
    BY <1>2, <1>11, <2>1, <2>7
  <2> QED BY <2>2, <2>4, <2>6, <2>8 DEF OwnInv
<1>13. Types' /\ PendingResumeIsCarried'
  BY <1>1, <1>2, <1>3, <1>9 DEF Types, PendingResumeIsCarried
<1> QED BY <1>9, <1>10, <1>12, <1>13 DEF IInv

LEMMA ExitStep ==
  ASSUME IInv, NEW w \in Workers, exit(w)
  PROVE  IInv'
<1> DEFINE new == [Idle EXCEPT !.pc = "exited"]
<1>1. Goto(w, new) /\ UNCHANGED <<tasks, schedVars, todo>> /\ threads[w].pc = "idle"
  BY DEF exit, At, envVars
<1>2. new \in AThread /\ new.pc = "exited"
  BY IdleThread, PCNames, PcThread
<1> HIDE DEF new
<1>3. ThreadInv(new, tasks) /\ SamePlace(w, new)
  BY <1>1, <1>2 DEF ThreadInv, Resting, Informed, Working, SamePlace, Holding
<1> QED BY <1>1, <1>2, <1>3, ThreadNames, ReadStep

\* A thread takes a row it has just read, or written, as the one it works from.
LEMMA InformedThread ==
  ASSUME NEW th \in AThread, NEW pc \in Informed, NEW row \in LiveRow,
         NEW new \in AThread, new.pc = pc, new.task = th.task, new.cur = row,
         NEW rows, rows[th.task] = row, th.task \in Tasks,
         pc = "claim" => row.status \in {"created", "ready"},
         pc \in Working => row.status \in ACTIVE_STATUSES,
         pc = "handoff" => row.status = "ready",
         pc = "resume" => row.resume_status \in TaskStatus,
         pc \in {"returned", "complete"} => new.goal \in TaskStatus
  PROVE  ThreadInv(new, rows)
<1>1. row.version \in Nat
  BY RowFacts
<1>2. pc \notin {"fail", "fail_cas"} /\ pc \notin Resting
  BY PCNames DEF Informed
<1> QED BY <1>1, <1>2 DEF ThreadInv

LEMMA LoadStep ==
  ASSUME IInv, NEW w \in Workers, load(w)
  PROVE  IInv'
<1> DEFINE me == threads[w]
           row == tasks[me.task]
           one == [me EXCEPT !.pc = "check", !.cur = row, !.preclaimed = FALSE]
           two == [me EXCEPT !.pc = "claim", !.cur = row]
<1>1. me.pc = "load" /\ UNCHANGED <<tasks, schedVars, todo>> /\ w \in Threads
  BY ThreadNames DEF load, At, envVars
<1>2. me \in AThread /\ me.task \in Tasks /\ row \in LiveRow
  BY <1>1, MyThread DEF Resting
<1>3. CASE Goto(w, one)
  <2> HIDE DEF me, row
  <2>1. one \in AThread /\ one.pc = "check" /\ one.task = me.task /\ one.cur = row
    BY <1>2, PCNames DEF AThread
  <2> HIDE DEF one
  <2>2. ThreadInv(one, tasks)
    BY <1>2, <2>1, InformedThread DEF Informed, Working, row
  <2>3. SamePlace(w, one)
    BY <1>1, <2>1 DEF SamePlace, Holding, me
  <2> QED BY <1>1, <1>3, <2>1, <2>2, <2>3, ReadStep
<1>4. CASE row.status \in {"created", "ready"} /\ Goto(w, two)
  <2> HIDE DEF me, row
  <2>1. two \in AThread /\ two.pc = "claim" /\ two.task = me.task /\ two.cur = row
    BY <1>2, PCNames DEF AThread
  <2> HIDE DEF two
  <2>2. ThreadInv(two, tasks)
    BY <1>2, <1>4, <2>1, InformedThread DEF Informed, Working, row
  <2>3. SamePlace(w, two)
    BY <1>1, <2>1 DEF SamePlace, Holding, me
  <2> QED BY <1>1, <1>4, <2>1, <2>2, <2>3, ReadStep
<1>5. CASE Goto(w, Done(w))
  BY <1>1, <1>5, DoneStep, MyTypes, UnchangedAdvances DEF Holding
<1> QED BY <1>3, <1>4, <1>5 DEF load

\* The row a thread's version still matches is the row it has read.
LEMMA FreshRow ==
  ASSUME IInv, NEW p \in Threads, threads[p].pc \in Informed, Fresh(p)
  PROVE  tasks[threads[p].task] = threads[p].cur
BY MyThread DEF ThreadInv, Fresh

\* A worker writes a row and goes on from it.
LEMMA WrittenStep ==
  ASSUME IInv, NEW p \in Threads, NEW row, NEW new \in AThread, Goto(p, new),
         threads[p].pc \notin Resting,
         Put(threads[p].task, row),
         Follows(row, tasks[threads[p].task]) \/ row = tasks[threads[p].task],
         new.task = threads[p].task, new.cur = row,
         new.pc \in {"check", "handoff", "schedule", "schedule_resumed"},
         new.pc = "schedule" => row.status \in ACTIVE_STATUSES,
         new.pc = "handoff" => row.status = "ready",
         p \in Workers => threads[p].pc \in Holding /\ new.pc # "schedule_resumed",
         UNCHANGED <<schedVars, todo>>
  PROVE  IInv'
<1> DEFINE me == threads[p]
<1>1. Types /\ me \in AThread /\ me.task \in Tasks /\ tasks[me.task] \in LiveRow
  BY MyThread, MyTypes
<1>2. RowsAdvance /\ tasks'[me.task] = row /\ row \in LiveRow
  BY <1>1, PutAdvances DEF Follows
<1>3. new.pc \in Informed /\ new.pc \notin {"claim", "resume", "returned", "complete"}
      /\ (new.pc \in Working => new.pc = "schedule")
  BY DEF Informed, Working
<1>4. ThreadInv(new, tasks')
  BY <1>1, <1>2, <1>3, InformedThread
<1>5. SamePlace(p, new)
  BY DEF SamePlace, Holding
<1> QED BY <1>2, <1>4, <1>5, ThreadStep

LEMMA ClaimStep ==
  ASSUME IInv, NEW w \in Workers, claim(w)
  PROVE  IInv'
<1> DEFINE me == threads[w]
           row == Transitioned(tasks[me.task], ClaimTarget(me.cur.status))
           new == [me EXCEPT !.pc = "check", !.cur = row]
<1>1. me.pc = "claim" /\ UNCHANGED <<schedVars, todo>> /\ w \in Threads
  BY ThreadNames DEF claim, At, envVars
<1>2. me \in AThread /\ me.task \in Tasks /\ tasks[me.task] \in LiveRow
  BY <1>1, MyThread DEF Resting
<1>3. CASE Put(me.task, row) /\ Goto(w, new)
  <2>1. Follows(row, tasks[me.task])
    BY <1>2, TransitionedRow DEF ClaimTarget, TaskStatus, ACTIVE_STATUSES
  <2> HIDE DEF row, me
  <2>2. new \in AThread /\ new.pc = "check" /\ new.task = me.task /\ new.cur = row
    BY <1>2, <2>1, PCNames DEF AThread, Follows
  <2> HIDE DEF new
  <2> QED BY <1>1, <1>3, <2>1, <2>2, WrittenStep DEF me, Holding, Resting
<1>4. CASE Goto(w, Done(w)) /\ UNCHANGED tasks
  BY <1>1, <1>4, DoneStep, MyTypes, UnchangedAdvances DEF Holding
<1> QED BY <1>3, <1>4 DEF claim

LEMMA CheckStep ==
  ASSUME IInv, NEW w \in Workers, check_control(w)
  PROVE  IInv'
<1>1. threads[w].pc = "check" /\ UNCHANGED <<tasks, schedVars, todo>> /\ w \in Threads
  BY ThreadNames DEF check_control, At, envVars
<1>2. CASE threads[w].cur.status \in ACTIVE_STATUSES /\ Step(w, "handler")
  BY <1>1, <1>2, PcStep, PCNames DEF Resting, Informed, Working, Holding
<1>3. CASE Goto(w, Done(w))
  BY <1>1, <1>3, DoneStep, MyTypes, UnchangedAdvances DEF Holding
<1> QED BY <1>2, <1>3 DEF check_control

\* The steps that only end a worker's run.
LEMMA StopStep ==
  ASSUME IInv, NEW w \in Workers, handler_stops(w)
  PROVE  IInv'
<1>1. threads[w].pc = "handler" /\ UNCHANGED <<tasks, schedVars, todo>> /\ w \in Threads
  BY ThreadNames DEF handler_stops, At, envVars
<1> QED BY <1>1, DoneStep, MyTypes, UnchangedAdvances DEF handler_stops, Holding

\* A handler's outcome is kept in goal.
LEMMA OutcomeStep ==
  ASSUME IInv, NEW w \in Workers, threads[w].pc \in {"handler", "complete", "handoff"},
         NEW pc \in {"returned", "fail"}, NEW to \in TaskStatus,
         Goto(w, [threads[w] EXCEPT !.pc = pc, !.goal = to]),
         pc = "fail" => to \in Failures, pc = "returned" => threads[w].pc = "handler",
         UNCHANGED <<tasks, schedVars, todo>>
  PROVE  IInv'
<1> DEFINE me == threads[w]
           new == [me EXCEPT !.pc = pc, !.goal = to]
<1>1. me.pc \notin Resting /\ me.pc \in Holding /\ w \in Threads
  BY ThreadNames DEF Holding, Resting
<1>2. me \in AThread /\ ThreadInv(me, tasks) /\ me.task \in Tasks /\ tasks[me.task] \in LiveRow
  BY <1>1, MyThread
<1> HIDE DEF me
<1>3. pc \in PCs
  BY PCNames
<1>4. /\ new \in AThread /\ new.pc = pc /\ new.goal = to
      /\ new.task = me.task /\ new.cur = me.cur
  BY <1>2, <1>3 DEF AThread
<1> HIDE DEF new
<1>5. CASE pc = "fail"
  <2>1. ThreadInv(new, tasks)
    BY <1>2, <1>4, <1>5 DEF ThreadInv, Resting, Informed, Working
  <2>2. SamePlace(w, new)
    BY <1>1, <1>4, <1>5 DEF SamePlace, Holding, me
  <2> QED BY <1>1, <1>4, <2>1, <2>2, ReadStep DEF new, me
<1>6. CASE pc = "returned"
  <2>1. ThreadInv(new, tasks)
    BY <1>2, <1>4, <1>6 DEF ThreadInv, Resting, Informed, Working, me
  <2>2. SamePlace(w, new)
    BY <1>1, <1>4, <1>6 DEF SamePlace, Holding, me
  <2> QED BY <1>1, <1>4, <2>1, <2>2, ReadStep DEF new, me
<1> QED BY <1>5, <1>6

LEMMA HandlerStep ==
  ASSUME IInv, NEW w \in Workers, handler_returns(w) \/ handler_raises(w)
  PROVE  IInv'
<1>1. threads[w].pc = "handler" /\ UNCHANGED <<tasks, schedVars, todo>>
  BY DEF handler_returns, handler_raises, At, envVars
<1>2. CASE handler_returns(w)
  <2>1. PICK to \in {"ready", "completed", "recoverable_failed"} :
          Goto(w, [threads[w] EXCEPT !.pc = "returned", !.goal = to])
    BY <1>2 DEF handler_returns
  <2>2. to \in TaskStatus
    BY DEF TaskStatus, TERMINAL_STATUSES, RESUMABLE_STATUSES
  <2> QED BY <1>1, <2>1, <2>2, OutcomeStep
<1>3. CASE handler_raises(w)
  <2>1. PICK to \in {"recoverable_failed", "terminal_failed"} :
          Goto(w, [threads[w] EXCEPT !.pc = "fail", !.goal = to])
    BY <1>3 DEF handler_raises
  <2>2. to \in Failures /\ to \in TaskStatus
    BY RowFacts DEF Failures
  <2> QED BY <1>1, <2>1, <2>2, OutcomeStep
<1> QED BY <1>2, <1>3

LEMMA RecheckStep ==
  ASSUME IInv, NEW w \in Workers, recheck(w)
  PROVE  IInv'
<1>1. threads[w].pc = "returned" /\ UNCHANGED <<tasks, schedVars, todo>> /\ w \in Threads
  BY ThreadNames DEF recheck, At, envVars
<1>2. CASE Step(w, "complete")
  <2>1. threads[w].cur.status \in ACTIVE_STATUSES /\ threads[w].goal \in TaskStatus
    BY <1>1, MyThread DEF ThreadInv, Working
  <2> QED BY <1>1, <1>2, <2>1, PcStep, PCNames DEF Resting, Informed, Working, Holding
<1>3. CASE Goto(w, Done(w))
  BY <1>1, <1>3, DoneStep, MyTypes, UnchangedAdvances DEF Holding
<1> QED BY <1>2, <1>3 DEF recheck

LEMMA ConflictedStep ==
  ASSUME IInv, NEW w \in Workers, threads[w].pc \in {"complete", "handoff"},
         Goto(w, Conflicted(w)), UNCHANGED <<tasks, schedVars, todo>>
  PROVE  IInv'
<1>1. "recoverable_failed" \in TaskStatus /\ "recoverable_failed" \in Failures
  BY DEF TaskStatus, RESUMABLE_STATUSES, Failures
<1> QED BY <1>1, OutcomeStep DEF Conflicted

LEMMA CompleteStep ==
  ASSUME IInv, NEW w \in Workers, complete(w)
  PROVE  IInv'
<1> DEFINE me == threads[w]
           row == Transitioned(tasks[me.task], me.goal)
           pc == IF row.status = "ready" THEN "handoff" ELSE "check"
           new == [me EXCEPT !.pc = pc, !.cur = row, !.goal = NONE]
<1>1. me.pc = "complete" /\ UNCHANGED <<schedVars, todo>> /\ w \in Threads
  BY ThreadNames DEF complete, At, envVars
<1>2. me \in AThread /\ me.task \in Tasks /\ tasks[me.task] \in LiveRow /\ me.goal \in TaskStatus
  BY <1>1, MyThread DEF Resting, ThreadInv
<1>3. CASE Put(me.task, row) /\ Goto(w, new)
  <2>1. Follows(row, tasks[me.task])
    BY <1>2, TransitionedRow
  <2>2. pc \in {"check", "handoff"} /\ (pc = "handoff" => row.status = "ready") /\ pc \in PCs
    BY PCNames
  <2> HIDE DEF row, me, pc
  <2>3. new \in AThread /\ new.pc = pc /\ new.task = me.task /\ new.cur = row
    BY <1>2, <2>1, <2>2 DEF AThread, Follows
  <2> HIDE DEF new
  <2> QED BY <1>1, <1>3, <2>1, <2>2, <2>3, WrittenStep DEF me, Holding, Resting
<1>4. CASE Goto(w, Conflicted(w)) /\ UNCHANGED tasks
  BY <1>1, <1>4, ConflictedStep
<1> QED BY <1>3, <1>4 DEF complete

LEMMA HandoffStep ==
  ASSUME IInv, NEW w \in Workers, ready_handoff(w)
  PROVE  IInv'
<1> DEFINE me == threads[w]
           row == Transitioned(tasks[me.task], "crawling")
           new == [me EXCEPT !.pc = "check", !.cur = row]
<1>1. me.pc = "handoff" /\ UNCHANGED <<schedVars, todo>> /\ w \in Threads
  BY ThreadNames DEF ready_handoff, At, envVars
<1>2. me \in AThread /\ me.task \in Tasks /\ tasks[me.task] \in LiveRow
  BY <1>1, MyThread DEF Resting
<1>3. CASE Put(me.task, row) /\ Goto(w, new)
  <2>1. Follows(row, tasks[me.task])
    BY <1>2, TransitionedRow DEF TaskStatus, ACTIVE_STATUSES
  <2> HIDE DEF row, me
  <2>2. new \in AThread /\ new.pc = "check" /\ new.task = me.task /\ new.cur = row
    BY <1>2, <2>1, PCNames DEF AThread, Follows
  <2> HIDE DEF new
  <2> QED BY <1>1, <1>3, <2>1, <2>2, WrittenStep DEF me, Holding, Resting
<1>4. CASE Goto(w, Conflicted(w)) /\ UNCHANGED tasks
  BY <1>1, <1>4, ConflictedStep
<1> QED BY <1>3, <1>4 DEF ready_handoff

LEMMA RecordStep ==
  ASSUME IInv, NEW w \in Workers, record_failure(w)
  PROVE  IInv'
<1> DEFINE me == threads[w]
           row == tasks[me.task]
           latest == row.version
           new == [me EXCEPT !.pc = "fail_cas", !.latest = latest]
<1>1. me.pc = "fail" /\ UNCHANGED <<tasks, schedVars, todo>> /\ w \in Threads
  BY ThreadNames DEF record_failure, At, envVars
<1>2. /\ me \in AThread /\ me.task \in Tasks /\ row \in LiveRow /\ me.goal \in Failures
      /\ latest \in Nat
  BY <1>1, MyThread, RowFacts DEF Resting, ThreadInv
<1>3. CASE row.status \notin Suspended /\ Goto(w, new)
  <2>1. latest <= row.version
    BY <1>2
  <2> HIDE DEF me, row, latest
  <2>2. /\ new \in AThread /\ new.pc = "fail_cas" /\ new.task = me.task /\ new.goal = me.goal
        /\ new.latest = latest
    BY <1>2, PCNames DEF AThread
  <2> HIDE DEF new
  <2>3. ThreadInv(new, tasks)
    BY <1>2, <1>3, <2>1, <2>2 DEF ThreadInv, Resting, Informed, Working, row
  <2>4. SamePlace(w, new)
    BY <1>1, <2>2 DEF SamePlace, Holding, me
  <2> QED BY <1>1, <1>3, <2>2, <2>3, <2>4, ReadStep
<1>4. CASE Goto(w, Done(w))
  BY <1>1, <1>4, DoneStep, MyTypes, UnchangedAdvances DEF Holding
<1> QED BY <1>3, <1>4 DEF record_failure, Suspended

LEMMA RecordCasStep ==
  ASSUME IInv, NEW w \in Workers, record_failure_cas(w)
  PROVE  IInv'
<1> DEFINE me == threads[w]
           row == Transitioned(tasks[me.task], me.goal)
           tries == me.tries + 1
           latest == 0
           new == [me EXCEPT !.pc = "fail", !.latest = latest, !.tries = tries]
<1>1. me.pc = "fail_cas" /\ UNCHANGED <<schedVars, todo>> /\ w \in Threads
  BY ThreadNames DEF record_failure_cas, At, envVars
<1>2. /\ Types /\ me \in AThread /\ me.task \in Tasks /\ tasks[me.task] \in LiveRow
      /\ me.goal \in Failures /\ me.goal \in TaskStatus /\ tries \in Nat /\ latest \in Nat
  BY <1>1, MyThread, MyTypes, RowFacts DEF Resting, ThreadInv, AThread
<1>3. Put(me.task, row) \/ UNCHANGED tasks
  BY DEF record_failure_cas
<1>4. Follows(row, tasks[me.task])
  BY <1>2, TransitionedRow
<1>5. RowsAdvance
  BY <1>2, <1>3, <1>4, PutAdvances, UnchangedAdvances
<1>6. CASE Goto(w, Done(w))
  BY <1>1, <1>5, <1>6, DoneStep DEF Holding
<1>7. CASE UNCHANGED tasks /\ Goto(w, new)
  <2> HIDE DEF me, row, latest, tries
  <2>1. new \in AThread /\ new.pc = "fail" /\ new.task = me.task /\ new.goal = me.goal
    BY <1>2, PCNames DEF AThread
  <2> HIDE DEF new
  <2>2. ThreadInv(new, tasks)
    BY <1>2, <2>1 DEF ThreadInv, Resting, Informed, Working
  <2>3. SamePlace(w, new)
    BY <1>1, <2>1 DEF SamePlace, Holding, me
  <2> QED BY <1>1, <1>7, <2>1, <2>2, <2>3, ReadStep
<1> QED BY <1>6, <1>7 DEF record_failure_cas

-----------------------------------------------------------------------------
(* finish: the place of a task is given up, or goes to the end of the queue. *)

LEMMA FinishThread ==
  ASSUME IInv, NEW w \in Workers, finish(w)
  PROVE  /\ threads' \in [Threads -> AThread] /\ ThreadsInv'
         /\ \A v \in Workers : \A u :
              Has(threads'[v], u) <=> Has(threads[v], u) /\ v # w
<1> DEFINE t == threads[w].task
           goal == pending_resumes[t].rollback
           row == tasks[t]
           new == [Idle EXCEPT !.pc = "rollback", !.task = t, !.cur = row, !.goal = goal]
<1>1. /\ threads[w].pc = "finish" /\ UNCHANGED tasks /\ w \in Threads
      /\ Types /\ ThreadsInv
  BY ThreadNames DEF finish, At, IInv
<1>2. t \in Tasks /\ row \in LiveRow
  BY <1>1, MyThread DEF Resting
<1>3. goal \in TaskStatus \cup {NONE}
  BY <1>1, <1>2 DEF Types, Resume
<1>4. Goto(w, Idle) \/ Goto(w, new)
  BY DEF finish
<1> HIDE DEF t, goal, row
<1>5. new \in AThread /\ new.pc = "rollback" /\ new.task = t /\ new.cur = row
  BY <1>2, <1>3, IdleThread, PCNames DEF AThread
<1> HIDE DEF new
<1>6. ThreadInv(new, tasks)
  BY <1>2, <1>5, InformedThread DEF Informed, Working, row
<1>7. PICK th \in {Idle, new} : Goto(w, th)
  BY <1>4
<1>8. th \in AThread /\ ThreadInv(th, tasks) /\ th.pc \notin Holding
  BY <1>5, <1>6, IdleThread DEF Holding
<1>9. threads' \in [Threads -> AThread] /\ ThreadsInv'
  BY <1>1, <1>7, <1>8, ThreadMoves, UnchangedAdvances
<1>10. \A v \in Workers : \A u : Has(threads'[v], u) <=> Has(threads[v], u) /\ v # w
  <2> SUFFICES ASSUME NEW v \in Workers, NEW u
               PROVE  Has(threads'[v], u) <=> Has(threads[v], u) /\ v # w
    OBVIOUS
  <2>1. CASE v = w
    <3>1. threads'[v] = th
      BY <1>1, <1>7, <2>1 DEF Types, Goto
    <3> QED BY <1>8, <2>1, <3>1 DEF Has
  <2>2. CASE v # w
    <3>1. threads'[v] = threads[v]
      BY <1>1, <1>7, <2>2, ThreadNames DEF Types, Goto
    <3> QED BY <2>2, <3>1
  <2> QED BY <2>1, <2>2
<1> QED BY <1>9, <1>10

LEMMA FinishStep ==
  ASSUME IInv, NEW w \in Workers, finish(w)
  PROVE  IInv'
<1> DEFINE t == threads[w].task
           preclaimed == pending_resumes[t].preclaimed
           item == [task |-> t, preclaimed |-> preclaimed]
           n == Len(queue)
<1>1. /\ threads[w].pc = "finish" /\ UNCHANGED <<tasks, todo>> /\ w \in Threads
      /\ Types /\ ListedInv /\ OwnInv /\ PendingResumeIsCarried
  BY ThreadNames DEF finish, At, IInv, envVars
<1>2. t \in Tasks /\ tasks[t] \in LiveRow /\ Has(threads[w], t)
  BY <1>1, MyThread DEF Resting, Has, Holding
<1>3. preclaimed \in BOOLEAN /\ NoResume \in Resume
  BY <1>1, <1>2 DEF Types, Resume, NoResume
<1>4. pending_resumes' = [pending_resumes EXCEPT ![t] = NoResume]
  BY DEF finish
<1>5. /\ threads' \in [Threads -> AThread] /\ ThreadsInv'
      /\ \A v \in Workers : \A u : Has(threads'[v], u) <=> Has(threads[v], u) /\ v # w
  BY FinishThread
<1>6. /\ \A i, j \in 1..n : queue[i].task = queue[j].task => i = j
      /\ \A v \in Workers, i \in 1..n : ~ Has(threads[v], queue[i].task)
      /\ \A v, x \in Workers, u \in Tasks : Has(threads[v], u) /\ Has(threads[x], u) => v = x
      /\ \A u \in Tasks : u \in scheduled <=> \/ \E i \in 1..n : queue[i].task = u
                                              \/ \E v \in Workers : Has(threads[v], u)
      /\ \A i \in 1..n : tasks[queue[i].task] \in LiveRow
  BY <1>1 DEF OwnInv, ListedInv
<1>7. /\ \A i \in 1..n : queue[i].task # t
      /\ \A v \in Workers : ~ Has(threads'[v], t)
      /\ \A u : u # t => \A v \in Workers : Has(threads'[v], u) <=> Has(threads[v], u)
  <2>1. \A i \in 1..n : queue[i].task # t
    <3> SUFFICES ASSUME NEW i \in 1..n, queue[i].task = t PROVE FALSE
      OBVIOUS
    <3>1. ~ Has(threads[w], queue[i].task)
      BY <1>6
    <3> HIDE DEF t
    <3> QED BY <1>2, <3>1
  <2>2. \A v \in Workers : ~ Has(threads'[v], t)
    <3> SUFFICES ASSUME NEW v \in Workers, Has(threads'[v], t) PROVE FALSE
      OBVIOUS
    <3>1. Has(threads[v], t) /\ v # w
      BY <1>5
    <3> HIDE DEF t
    <3> QED BY <1>2, <1>6, <3>1
  <2>3. \A u : u # t => ~ Has(threads[w], u)
    BY DEF Has
  <2> HIDE DEF t
  <2>4. \A u : u # t => \A v \in Workers : Has(threads'[v], u) <=> Has(threads[v], u)
    BY <1>5, <2>3
  <2> QED BY <2>1, <2>2, <2>4
<1>8. t \in scheduled
  BY <1>2, <1>6
<1>9. CASE /\ queue' = Append(queue, item) /\ UNCHANGED scheduled
  <2>1. item \in Item /\ item.task = t
    BY <1>2, <1>3 DEF Item
  <2> HIDE DEF item, t
  <2>2. /\ queue' \in Seq(Item) /\ Len(queue') = n + 1 /\ n \in Nat
        /\ \A i \in 1..n : queue'[i] = queue[i]
        /\ queue'[n + 1] = item
        /\ \A i \in 1..Len(queue') : i \in 1..n \/ i = n + 1
    BY <1>1, <1>9, <2>1, Appended
  <2>3. n + 1 \in 1..Len(queue') /\ 1..n \subseteq 1..Len(queue')
    BY <2>2
  <2> HIDE DEF n
  <2>4. ListedInv'
    <3>1. \A i \in 1..Len(queue') : tasks'[queue'[i].task] \in LiveRow
      BY <1>1, <1>2, <1>6, <2>1, <2>2
    <3> QED BY <1>1, <3>1 DEF ListedInv
  <2>5. OwnInv'
    <3>1. \A i, j \in 1..Len(queue') : queue'[i].task = queue'[j].task => i = j
      BY <1>6, <1>7, <2>1, <2>2
    <3>2. \A v, x \in Workers, u \in Tasks : Has(threads'[v], u) /\ Has(threads'[x], u) => v = x
      BY <1>5, <1>6
    <3>3. \A v \in Workers, i \in 1..Len(queue') : ~ Has(threads'[v], queue'[i].task)
      BY <1>5, <1>6, <1>7, <2>1, <2>2
    <3>4. \A u \in Tasks : (\E i \in 1..Len(queue') : queue'[i].task = u)
                              <=> (\E i \in 1..n : queue[i].task = u) \/ u = t
      BY <2>1, <2>2, <2>3
    <3>5. \A u \in Tasks : u \in scheduled' <=> \/ \E i \in 1..Len(queue') : queue'[i].task = u
                                                \/ \E v \in Workers : Has(threads'[v], u)
      BY <1>6, <1>7, <1>8, <1>9, <3>4
    <3> QED BY <3>1, <3>2, <3>3, <3>5 DEF OwnInv
  <2>6. Types' /\ PendingResumeIsCarried'
    BY <1>1, <1>2, <1>3, <1>4, <1>5, <1>9, <2>2 DEF Types, PendingResumeIsCarried
  <2> QED BY <1>5, <2>4, <2>5, <2>6 DEF IInv
<1>10. CASE scheduled' = scheduled \ {t} /\ UNCHANGED queue
  <2> HIDE DEF t, n
  <2>1. ListedInv'
    BY <1>1, <1>10 DEF ListedInv
  <2>2. OwnInv'
    <3>1. \A v, x \in Workers, u \in Tasks : Has(threads'[v], u) /\ Has(threads'[x], u) => v = x
      BY <1>5, <1>6
    <3>2. \A v \in Workers, i \in 1..Len(queue') : ~ Has(threads'[v], queue'[i].task)
      BY <1>5, <1>6, <1>10 DEF n
    <3>3. \A u \in Tasks : u \in scheduled' <=> \/ \E i \in 1..Len(queue') : queue'[i].task = u
                                                \/ \E v \in Workers : Has(threads'[v], u)
      <4> SUFFICES ASSUME NEW u \in Tasks
                   PROVE  u \in scheduled' <=> \/ \E i \in 1..n : queue[i].task = u
                                               \/ \E v \in Workers : Has(threads'[v], u)
        BY <1>10 DEF n
      <4>1. CASE u = t
        BY <1>7, <1>10, <4>1
      <4>2. CASE u # t
        BY <1>6, <1>7, <1>10, <4>2
      <4> QED BY <4>1, <4>2
    <3>4. \A i, j \in 1..Len(queue') : queue'[i].task = queue'[j].task => i = j
      BY <1>6, <1>10 DEF n
    <3> QED BY <3>1, <3>2, <3>3, <3>4 DEF OwnInv
  <2>3. Types' /\ PendingResumeIsCarried'
    BY <1>1, <1>2, <1>3, <1>4, <1>5, <1>10 DEF Types, PendingResumeIsCarried
  <2> QED BY <1>5, <2>1, <2>2, <2>3 DEF IInv
<1> QED BY <1>9, <1>10 DEF finish

-----------------------------------------------------------------------------
(* The steps workers and clients share.                                     *)

LEMMA AppliedRow ==
  ASSUME NEW row \in LiveRow, NEW kind \in ResolutionKind
  PROVE  Follows(Applied(row, kind), row) \/ Applied(row, kind) = row
<1>1. \A to \in {"validating", "waiting_for_user", "terminal_failed", "cancelled",
                 "recoverable_failed"} : Follows(Transitioned(row, to), row)
  BY TransitionedRow DEF TaskStatus, ACTIVE_STATUSES, TERMINAL_STATUSES, RESUMABLE_STATUSES
<1>2. Follows(Gated(row), row) /\ Follows(Lost(row), row)
  BY GatedRow, LostRow
<1> QED BY <1>1, <1>2 DEF Applied, ResolutionKind

LEMMA ApplyStep ==
  ASSUME IInv, NEW p \in Threads, NEW kind \in Kinds, apply_result(p, kind),
         threads[p].pc \in {"handler", "apply"}, p \in Workers => threads[p].pc = "handler"
  PROVE  IInv'
<1> DEFINE me == threads[p]
           row == IF Fresh(p) THEN Applied(tasks[me.task], kind) ELSE tasks[me.task]
           new == [me EXCEPT !.pc = "schedule", !.cur = row]
<1>1. Put(me.task, row) /\ UNCHANGED <<schedVars, todo>>
  BY DEF apply_result, envVars
<1>2. /\ Types /\ me \in AThread /\ me.task \in Tasks /\ tasks[me.task] \in LiveRow
      /\ me.pc \notin Resting
  BY MyThread, MyTypes DEF Resting
<1>3. kind \in ResolutionKind
  BY ExecutorAssumption
<1>4. Follows(row, tasks[me.task]) \/ row = tasks[me.task]
  BY <1>2, <1>3, AppliedRow
<1>5. row \in LiveRow
  BY <1>2, <1>4 DEF Follows
<1>6. CASE row.status \in ACTIVE_STATUSES /\ Goto(p, new)
  <2> HIDE DEF me, row
  <2>1. new \in AThread /\ new.pc = "schedule" /\ new.task = me.task /\ new.cur = row
    BY <1>2, <1>5, PCNames DEF AThread
  <2> HIDE DEF new
  <2> QED BY <1>1, <1>2, <1>4, <1>6, <2>1, WrittenStep DEF me, Holding
<1>7. CASE Goto(p, Done(p))
  <2>1. RowsAdvance
    BY <1>1, <1>2, <1>4, PutAdvances
  <2> QED BY <1>1, <1>7, <2>1, DoneStep DEF Holding
<1> QED BY <1>6, <1>7 DEF apply_result

\* Where the scheduling sections leave the thread that entered one.
LEMMA DoneThread ==
  ASSUME IInv, NEW p \in Threads, threads[p].pc \notin Resting,
         p \in Workers => threads[p].pc \in Holding
  PROVE  Done(p) \in AThread /\ ThreadInv(Done(p), tasks) /\ SamePlace(p, Done(p))
<1>1. CASE p \notin Workers
  <2>1. Done(p) = Idle
    BY <1>1 DEF Done
  <2> QED BY <1>1, <2>1, IdleThread DEF SamePlace
<1>2. CASE p \in Workers
  <2> DEFINE task == threads[p].task
             new == [Idle EXCEPT !.pc = "finish", !.task = task]
  <2>1. task \in Tasks /\ tasks[task] \in LiveRow
    BY MyThread
  <2>2. Done(p) = new
    BY <1>2 DEF Done
  <2> HIDE DEF task
  <2>3. new \in AThread /\ new.pc = "finish" /\ new.task = task
    BY <2>1, IdleThread, PCNames DEF AThread
  <2> HIDE DEF new
  <2>4. ThreadInv(new, tasks)
    BY <2>1, <2>3 DEF ThreadInv, Resting, Informed, Working
  <2>5. SamePlace(p, new)
    BY <1>2, <2>3 DEF SamePlace, Holding, task
  <2> QED BY <2>2, <2>3, <2>4, <2>5
<1> QED BY <1>1, <1>2

LEMMA ScheduleActiveStep ==
  ASSUME IInv, NEW p \in Threads, schedule_active(p)
  PROVE  IInv'
<1> DEFINE t == threads[p].task
           row == tasks[t]
<1>1. threads[p].pc = "schedule" /\ UNCHANGED <<tasks, todo>>
  BY DEF schedule_active, At, envVars
<1>2. /\ threads[p].pc \notin Resting /\ threads[p].pc \in Holding
      /\ threads[p].pc \in Informed /\ threads[p].cur.status \in ACTIVE_STATUSES
  BY <1>1, MyThread DEF Resting, Holding, Informed, ThreadInv, Working
<1>3. t \in Tasks /\ tasks[t] \in LiveRow /\ Types
  BY <1>2, MyThread, MyTypes
<1>4. PICK raised \in BOOLEAN :
        /\ ScheduleActive(t, raised)
        /\ IF raised THEN Step(p, "unscheduled") ELSE Goto(p, Done(p))
  BY DEF schedule_active
<1>5. Done(p) \in AThread /\ ThreadInv(Done(p), tasks) /\ SamePlace(p, Done(p))
  BY <1>2, DoneThread
<1>6. CASE raised
  <2>1. Step(p, "unscheduled") /\ UNCHANGED schedVars
    BY <1>4, <1>6 DEF ScheduleActive
  <2>2. "unscheduled" \in PCs /\ "unscheduled" \in Holding
    BY PCNames DEF Holding
  <2> QED BY <1>1, <1>2, <2>1, <2>2, PcStep
<1>7. CASE ~raised
  <2>1. Goto(p, Done(p))
    BY <1>4, <1>7
  <2>2. CASE UNCHANGED schedVars
    BY <1>1, <1>5, <2>1, <2>2, ReadStep
  <2>3. CASE t \notin scheduled /\ Enqueue(t, TRUE, row.version)
    BY <1>1, <1>3, <1>5, <2>1, <2>3, EnqueueStep
  <2>4. CASE /\ t \in scheduled /\ UNCHANGED <<queue, scheduled>>
             /\ pending_resumes' = [pending_resumes EXCEPT ![t] =
                  [preclaimed |-> TRUE, rollback |-> "recoverable_failed"]]
    <3> DEFINE resume == [preclaimed |-> TRUE, rollback |-> "recoverable_failed"]
    <3>1. resume \in Resume
      BY RowFacts DEF Resume, Failures
    <3>2. RowsAdvance /\ ThreadInv(Done(p), tasks')
      BY <1>1, <1>3, <1>5, UnchangedAdvances
    <3> HIDE DEF resume
    <3>3. pending_resumes' = [pending_resumes EXCEPT ![t] = resume]
      BY <2>4 DEF resume
    <3> QED BY <1>1, <1>5, <2>1, <2>4, <3>1, <3>2, <3>3, PendingStep
  <2> QED BY <1>4, <1>7, <2>2, <2>3, <2>4 DEF ScheduleActive
<1> QED BY <1>6, <1>7

LEMMA FailUnscheduledStep ==
  ASSUME IInv, NEW p \in Threads, fail_unscheduled(p)
  PROVE  IInv'
<1> DEFINE t == threads[p].task
           row == IF Fresh(p) THEN Transitioned(tasks[t], "recoverable_failed") ELSE tasks[t]
<1>1. /\ threads[p].pc = "unscheduled" /\ UNCHANGED <<schedVars, todo>>
      /\ Put(t, row) /\ Goto(p, Done(p))
  BY DEF fail_unscheduled, At, envVars
<1>2. Types /\ t \in Tasks /\ tasks[t] \in LiveRow
  BY <1>1, MyThread, MyTypes DEF Resting
<1>3. Follows(row, tasks[t]) \/ row = tasks[t]
  BY <1>2, TransitionedRow, RowFacts DEF Failures
<1>4. RowsAdvance
  BY <1>1, <1>2, <1>3, PutAdvances
<1> QED BY <1>1, <1>4, DoneStep DEF Holding

LEMMA RollbackStep ==
  ASSUME IInv, NEW p \in Threads, rollback_resume(p)
  PROVE  IInv'
<1> DEFINE me == threads[p]
           row == Transitioned(tasks[me.task], me.goal)
           read == tasks[me.task]
           tries == me.tries + 1
           again == [me EXCEPT !.cur = read, !.tries = tries]
           gone == [Idle EXCEPT !.pc = "dead"]
<1>1. me.pc = "rollback" /\ UNCHANGED <<schedVars, todo>>
  BY DEF rollback_resume, At, envVars
<1>2. /\ Types /\ me \in AThread /\ me.task \in Tasks /\ read \in LiveRow /\ tries \in Nat
      /\ p \in Workers => me.pc \notin Holding
  BY <1>1, MyThread, MyTypes DEF Resting, Holding, AThread
<1>3. RowsAdvance
  <2>1. CASE CanTransition(tasks[me.task], me.goal) /\ Put(me.task, row)
    <3>1. me.goal \in TaskStatus
      BY <2>1, AllowedTargets
    <3>2. Follows(row, tasks[me.task])
      BY <1>2, <3>1, TransitionedRow
    <3> QED BY <1>2, <2>1, <3>2, PutAdvances
  <2> QED BY <1>2, <2>1, UnchangedAdvances DEF rollback_resume
<1>4. CASE Goto(p, Idle)
  BY <1>1, <1>2, <1>3, <1>4, IdleStep
<1>5. CASE Goto(p, gone)
  <2>1. gone \in AThread /\ gone.pc = "dead"
    BY IdleThread, PCNames, PcThread
  <2> HIDE DEF gone
  <2>2. ThreadInv(gone, tasks') /\ SamePlace(p, gone)
    BY <1>2, <2>1 DEF ThreadInv, Resting, Informed, Working, SamePlace, Holding
  <2> QED BY <1>1, <1>3, <1>5, <2>1, <2>2, ThreadStep
<1>6. CASE UNCHANGED tasks /\ Goto(p, again)
  <2> HIDE DEF me, read, tries
  <2>1. again \in AThread /\ again.pc = me.pc /\ again.task = me.task /\ again.cur = read
    BY <1>2 DEF AThread
  <2> HIDE DEF again
  <2>2. ThreadInv(again, tasks)
    BY <1>1, <1>2, <2>1, InformedThread DEF Informed, Working, read
  <2>3. SamePlace(p, again)
    BY <2>1 DEF SamePlace, me
  <2> QED BY <1>1, <1>6, <2>1, <2>2, <2>3, ReadStep
<1> QED BY <1>2, <1>4, <1>5, <1>6 DEF rollback_resume, RollbackFailed

LEMMA WorkerStep ==
  ASSUME IInv, NEW w \in Workers, Worker(w)
  PROVE  IInv'
<1>1. w \in Threads
  BY ThreadNames
<1>2. CASE probe_handler(w)
  <2>1. PICK kind \in Kinds : apply_result(w, kind)
    BY <1>2 DEF probe_handler
  <2>2. threads[w].pc = "handler"
    BY <1>2 DEF probe_handler, At
  <2> QED BY <1>1, <2>1, <2>2, ApplyStep
<1> QED BY <1>1, <1>2, GetStep, ExitStep, LoadStep, ClaimStep, CheckStep, StopStep, HandlerStep,
           ScheduleActiveStep, FailUnscheduledStep, RecheckStep, CompleteStep, HandoffStep,
           RecordStep, RecordCasStep, FinishStep, RollbackStep DEF Worker

-----------------------------------------------------------------------------
(* The steps of a client.                                                   *)

\* A client goes on, or stops; it keeps no place.
LEMMA ClientNames ==
  ASSUME NEW c \in Clients
  PROVE  c \in Threads /\ c \notin Workers /\ \A th : SamePlace(c, th)
BY ThreadNames DEF SamePlace

LEMMA ClientIdles ==
  ASSUME IInv, NEW c \in Clients, Goto(c, Idle), RowsAdvance, UNCHANGED <<schedVars, todo>>
  PROVE  IInv'
BY ClientNames, IdleStep

LEMMA CreateStep ==
  ASSUME IInv, NEW c \in Clients, NEW t \in Tasks, create_crawl_task(c, t)
  PROVE  IInv'
<1> DEFINE new == [Idle EXCEPT !.pc = "get", !.task = t, !.goal = "paused"]
<1>1. /\ tasks[t] = NoRow /\ Put(t, NewTask) /\ Goto(c, new) /\ UNCHANGED schedVars
      /\ UNCHANGED todo /\ Types
  BY MyTypes DEF create_crawl_task, Starts
<1>2. "paused" \in TaskStatus
  BY DEF TaskStatus, RESUMABLE_STATUSES
<1>3. new \in AThread /\ new.pc = "get" /\ new.task = t
  BY <1>2, IdleThread, PCNames DEF AThread
<1> HIDE DEF new
<1>4. tasks' \in [Tasks -> LiveRow \cup {NoRow}] /\ tasks'[t] = NewTask
  BY <1>1, RowFacts DEF Types, Put
<1>5. RowsAdvance
  <2>1. \A u \in Tasks : tasks[u] \in LiveRow => u # t
    BY <1>1, RowFacts
  <2>2. \A u \in Tasks : u # t => tasks'[u] = tasks[u]
    BY <1>1 DEF Types, Put
  <2> QED BY <1>4, <2>1, <2>2 DEF RowsAdvance, Advances
<1>6. ThreadInv(new, tasks')
  BY <1>3, <1>4, RowFacts DEF ThreadInv, Resting, Informed, Working
<1> QED BY <1>1, <1>3, <1>5, <1>6, ClientNames, ThreadStep

LEMMA SubmitGetStep ==
  ASSUME IInv, NEW c \in Clients, submit_get(c)
  PROVE  IInv'
<1> DEFINE me == threads[c]
           row == tasks[me.task]
           new == [me EXCEPT !.pc = "submit", !.cur = row]
<1>1. me.pc = "get" /\ Goto(c, new) /\ UNCHANGED <<tasks, schedVars, todo>> /\ c \in Threads
  BY ClientNames DEF submit_get, At, envVars
<1>2. me \in AThread /\ me.task \in Tasks /\ row \in LiveRow
  BY <1>1, MyThread DEF Resting
<1> HIDE DEF me, row
<1>3. new \in AThread /\ new.pc = "submit" /\ new.task = me.task /\ new.cur = row
  BY <1>2, PCNames DEF AThread
<1> HIDE DEF new
<1>4. ThreadInv(new, tasks)
  BY <1>2, <1>3, InformedThread DEF Informed, Working, row
<1> QED BY <1>1, <1>3, <1>4, ClientNames, ReadStep

\* submit() by a client or by the reconciler, which then is idle.
LEMMA SubmittedStep ==
  ASSUME IInv, NEW p \in Threads, p \notin Workers, threads[p].pc = "submit", Goto(p, Idle),
         NEW raised, Submit(threads[p].task, threads[p].cur, raised), UNCHANGED tasks,
         todo' \subseteq todo
  PROVE  IInv'
<1> DEFINE t == threads[p].task
<1>1. t \in Tasks /\ tasks[t] \in LiveRow /\ threads[p].cur \in LiveRow
  BY MyThread DEF Resting, ThreadInv, Informed
<1>2. Idle \in AThread /\ ThreadInv(Idle, tasks) /\ SamePlace(p, Idle)
  BY IdleThread DEF SamePlace
<1>3. CASE UNCHANGED schedVars
  BY <1>2, <1>3, ReadStep
<1>4. CASE t \notin scheduled /\ Enqueue(t, FALSE, threads[p].cur.version)
  BY <1>1, <1>2, <1>4, EnqueueStep
<1> QED BY <1>3, <1>4 DEF Submit

LEMMA SubmitStep ==
  ASSUME IInv, NEW c \in Clients, submit(c)
  PROVE  IInv'
<1>1. threads[c].pc = "submit" /\ UNCHANGED <<tasks, todo>> /\ c \in Threads /\ c \notin Workers
  BY ClientNames DEF submit, At, envVars
<1>2. PICK raised \in BOOLEAN :
        /\ Submit(threads[c].task, threads[c].cur, raised)
        /\ IF raised /\ threads[c].goal = "paused" THEN Step(c, "compensate") ELSE Goto(c, Idle)
  BY DEF submit
<1>3. CASE Goto(c, Idle)
  BY <1>1, <1>2, <1>3, SubmittedStep
<1>4. CASE raised /\ Step(c, "compensate")
  <2>1. UNCHANGED schedVars
    BY <1>2, <1>4 DEF Submit
  <2> QED BY <1>1, <1>4, <2>1, PcStep, PCNames DEF Resting, Informed, Working
<1> QED BY <1>2, <1>3, <1>4

LEMMA CompensateStep ==
  ASSUME IInv, NEW c \in Clients, compensate_submission(c)
  PROVE  IInv'
<1> DEFINE t == threads[c].task
           row == IF tasks[t].version = NewTask.version THEN Transitioned(tasks[t], "paused")
                  ELSE tasks[t]
<1>1. /\ threads[c].pc = "compensate" /\ UNCHANGED <<schedVars, todo>>
      /\ Put(t, row) /\ Goto(c, Idle) /\ c \in Threads
  BY ClientNames DEF compensate_submission, At, envVars
<1>2. Types /\ t \in Tasks /\ tasks[t] \in LiveRow
  BY <1>1, MyThread, MyTypes DEF Resting
<1>3. Follows(row, tasks[t]) \/ row = tasks[t]
  BY <1>2, TransitionedRow DEF TaskStatus, RESUMABLE_STATUSES
<1>4. RowsAdvance
  BY <1>1, <1>2, <1>3, PutAdvances
<1> QED BY <1>1, <1>4, ClientIdles

\* An operation starts from the row it reads.
LEMMA StartedThread ==
  ASSUME IInv, NEW c \in Clients, NEW t \in Tasks, NEW pc \in {"request", "resume", "apply"},
         NEW new \in AThread, new.pc = pc, new.task = t, new.cur = tasks[t],
         Goto(c, new), tasks[t] \in LiveRow,
         pc = "resume" => tasks[t].resume_status \in TaskStatus,
         UNCHANGED <<tasks, schedVars, todo>>
  PROVE  IInv'
<1> DEFINE row == tasks[t]
<1>1. row \in LiveRow /\ pc \in Informed
      /\ pc \notin {"claim", "handoff", "returned", "complete"} /\ pc \notin Working
  BY DEF Informed, Working
<1>2. ThreadInv(new, tasks)
  BY <1>1, InformedThread
<1> QED BY <1>2, ClientNames, ReadStep

LEMMA PresentRow ==
  ASSUME Types, NEW t \in Tasks, tasks[t] # NoRow \/ tasks[t].status \in TaskStatus
  PROVE  tasks[t] \in LiveRow
BY RowFacts DEF Types

LEMMA RequestStep ==
  ASSUME IInv, NEW c \in Clients, NEW t \in Tasks, NEW to \in {"paused", "cancelled"},
         request_status(c, t, to)
  PROVE  IInv'
<1> DEFINE row == tasks[t]
           new == [Idle EXCEPT !.pc = "request", !.task = t, !.cur = row, !.goal = to]
<1>1. /\ Goto(c, new) /\ UNCHANGED <<tasks, schedVars, todo>> /\ tasks[t] # NoRow
  BY DEF request_status, Starts
<1>2. to \in TaskStatus /\ tasks[t] \in LiveRow
  BY <1>1, PresentRow, MyTypes DEF TaskStatus, RESUMABLE_STATUSES, TERMINAL_STATUSES
<1> HIDE DEF row
<1>3. new \in AThread /\ new.pc = "request" /\ new.task = t /\ new.cur = row
  BY <1>2, IdleThread, PCNames DEF AThread, row
<1> HIDE DEF new
<1> QED BY <1>1, <1>2, <1>3, StartedThread DEF row

LEMMA InteractStep ==
  ASSUME IInv, NEW c \in Clients, NEW t \in Tasks, interact(c, t)
  PROVE  IInv'
<1> DEFINE row == tasks[t]
           new == [Idle EXCEPT !.pc = "apply", !.task = t, !.cur = row]
<1>1. /\ Goto(c, new) /\ UNCHANGED <<tasks, schedVars, todo>>
      /\ tasks[t].status = "waiting_for_user"
  BY DEF interact, Starts
<1>2. tasks[t] \in LiveRow
  BY <1>1, PresentRow, MyTypes DEF TaskStatus
<1> HIDE DEF row
<1>3. new \in AThread /\ new.pc = "apply" /\ new.task = t /\ new.cur = row
  BY <1>2, IdleThread, PCNames DEF AThread, row
<1> HIDE DEF new
<1> QED BY <1>1, <1>2, <1>3, StartedThread DEF row

LEMMA ResumableRow ==
  ASSUME NEW row, row \in LiveRow \cup {NoRow}, Resumable(row)
  PROVE  row \in LiveRow /\ row.resume_status \in TaskStatus /\ row.status \in TaskStatus
BY RowFacts DEF Resumable, LiveRow, NONE, Suspended

LEMMA ResumeTaskStep ==
  ASSUME IInv, NEW c \in Clients, NEW t \in Tasks, resume_task(c, t)
  PROVE  IInv'
<1> DEFINE row == tasks[t]
           one == [Idle EXCEPT !.pc = "resume", !.task = t, !.cur = row]
           two == [Idle EXCEPT !.pc = "get", !.task = t]
<1>1. UNCHANGED <<tasks, schedVars, todo>> /\ tasks[t] \in LiveRow \cup {NoRow}
  BY MyTypes DEF resume_task, Starts, Types
<1>2. CASE Resumable(tasks[t]) /\ Goto(c, one)
  <2>1. tasks[t] \in LiveRow /\ tasks[t].resume_status \in TaskStatus
    BY <1>1, <1>2, ResumableRow
  <2> HIDE DEF row
  <2>2. one \in AThread /\ one.pc = "resume" /\ one.task = t /\ one.cur = row
    BY <2>1, IdleThread, PCNames DEF AThread, row
  <2> HIDE DEF one
  <2> QED BY <1>1, <1>2, <2>1, <2>2, StartedThread DEF row
<1>3. CASE tasks[t].status \in {"created", "ready"} /\ Goto(c, two)
  <2>1. tasks[t] \in LiveRow
    BY <1>3, PresentRow, MyTypes DEF TaskStatus
  <2>2. two \in AThread /\ two.pc = "get" /\ two.task = t
    BY IdleThread, PCNames DEF AThread
  <2> HIDE DEF two
  <2>3. ThreadInv(two, tasks)
    BY <2>1, <2>2 DEF ThreadInv, Resting, Informed, Working
  <2> QED BY <1>1, <1>3, <2>2, <2>3, ClientNames, ReadStep
<1> QED BY <1>2, <1>3 DEF resume_task

LEMMA RequestCasStep ==
  ASSUME IInv, NEW c \in Clients, request_cas(c)
  PROVE  IInv'
<1> DEFINE me == threads[c]
           row == tasks[me.task]
           again == [me EXCEPT !.cur = row]
<1>1. me.pc = "request" /\ UNCHANGED <<schedVars, todo>> /\ c \in Threads
  BY ClientNames DEF request_cas, At, envVars
<1>2. Types /\ me \in AThread /\ me.task \in Tasks /\ row \in LiveRow
  BY <1>1, MyThread, MyTypes DEF Resting
<1>3. RowsAdvance
  <2>1. CASE CanTransition(row, me.goal) /\ Put(me.task, Transitioned(row, me.goal))
    <3>1. me.goal \in TaskStatus
      BY <2>1, AllowedTargets
    <3>2. Follows(Transitioned(row, me.goal), row)
      BY <1>2, <3>1, TransitionedRow
    <3> QED BY <1>2, <2>1, <3>2, PutAdvances
  <2> QED BY <1>2, <2>1, UnchangedAdvances DEF request_cas
<1>4. CASE Goto(c, Idle)
  BY <1>1, <1>3, <1>4, ClientIdles
<1>5. CASE UNCHANGED tasks /\ Goto(c, again)
  <2> HIDE DEF me, row
  <2>1. again \in AThread /\ again.pc = me.pc /\ again.task = me.task /\ again.cur = row
    BY <1>2 DEF AThread
  <2> HIDE DEF again
  <2>2. ThreadInv(again, tasks)
    BY <1>1, <1>2, <2>1, InformedThread DEF Informed, Working, row
  <2> QED BY <1>1, <1>5, <2>1, <2>2, ClientNames, ReadStep
<1> QED BY <1>4, <1>5 DEF request_cas

LEMMA ResumeCasStep ==
  ASSUME IInv, NEW c \in Clients, resume_cas(c)
  PROVE  IInv'
<1> DEFINE me == threads[c]
           row == tasks[me.task]
           resumed == Transitioned(row, me.cur.resume_status)
           goal == row.status
           preclaimed == resumed.status \in ACTIVE_STATUSES
           new == [me EXCEPT !.pc = "schedule_resumed", !.cur = resumed, !.goal = goal,
                             !.preclaimed = preclaimed]
           again == [me EXCEPT !.cur = row]
<1>1. me.pc = "resume" /\ UNCHANGED <<schedVars, todo>> /\ c \in Threads /\ c \notin Workers
  BY ClientNames DEF resume_cas, At, envVars
<1>2. /\ Types /\ me \in AThread /\ me.task \in Tasks /\ row \in LiveRow
      /\ me.cur.resume_status \in TaskStatus
  BY <1>1, MyThread, MyTypes DEF Resting, ThreadInv
<1>3. Follows(resumed, row) /\ goal \in TaskStatus /\ preclaimed \in BOOLEAN
  BY <1>2, TransitionedRow, RowFacts
<1>4. CASE Put(me.task, resumed) /\ Goto(c, Idle)
  <2>1. RowsAdvance
    BY <1>2, <1>3, <1>4, PutAdvances
  <2> QED BY <1>1, <1>4, <2>1, ClientIdles
<1>5. CASE Put(me.task, resumed) /\ Goto(c, new)
  <2> HIDE DEF me, resumed, goal, preclaimed
  <2>1. /\ new \in AThread /\ new.pc = "schedule_resumed" /\ new.task = me.task
        /\ new.cur = resumed
    BY <1>2, <1>3, PCNames DEF AThread, Follows
  <2> HIDE DEF new
  <2> QED BY <1>1, <1>3, <1>5, <2>1, WrittenStep DEF me, Resting
<1>6. CASE UNCHANGED tasks /\ Goto(c, Idle)
  BY <1>1, <1>2, <1>6, ClientIdles, UnchangedAdvances
<1>7. CASE UNCHANGED tasks /\ Resumable(row) /\ Goto(c, again)
  <2>1. row.resume_status \in TaskStatus
    BY <1>2, <1>7, ResumableRow
  <2> HIDE DEF me, row
  <2>2. again \in AThread /\ again.pc = me.pc /\ again.task = me.task /\ again.cur = row
    BY <1>2 DEF AThread
  <2> HIDE DEF again
  <2>3. ThreadInv(again, tasks)
    BY <1>1, <1>2, <2>1, <2>2, InformedThread DEF Informed, Working, row
  <2> QED BY <1>1, <1>7, <2>2, <2>3, ClientNames, ReadStep
<1> QED BY <1>4, <1>5, <1>6, <1>7 DEF resume_cas

LEMMA ScheduleResumedStep ==
  ASSUME IInv, NEW c \in Clients, schedule_resumed(c)
  PROVE  IInv'
<1> DEFINE me == threads[c]
           t == me.task
           resume == [preclaimed |-> me.preclaimed, rollback |-> me.goal]
<1>1. me.pc = "schedule_resumed" /\ UNCHANGED <<tasks, todo>> /\ c \in Threads /\ c \notin Workers
  BY ClientNames DEF schedule_resumed, At, envVars
<1>2. /\ Types /\ t \in Tasks /\ tasks[t] \in LiveRow
      /\ me.preclaimed \in BOOLEAN /\ me.goal \in TaskStatus \cup {NONE}
  BY <1>1, MyThread, MyTypes DEF Resting, AThread
<1>3. PICK raised \in BOOLEAN :
        /\ ScheduleResumed(t, me.preclaimed, me.goal, raised)
        /\ IF raised THEN Step(c, "rollback") ELSE Goto(c, Idle)
  BY DEF schedule_resumed
<1>4. CASE raised
  <2>1. Step(c, "rollback") /\ UNCHANGED schedVars
    BY <1>3, <1>4 DEF ScheduleResumed
  <2> QED BY <1>1, <2>1, PcStep, PCNames DEF Resting, Informed, Working
<1>5. CASE ~raised
  <2>1. Goto(c, Idle)
    BY <1>3, <1>5
  <2>2. Idle \in AThread /\ ThreadInv(Idle, tasks) /\ ThreadInv(Idle, tasks') /\ SamePlace(c, Idle)
    BY IdleThread, ClientNames
  <2>3. CASE t \notin scheduled
    <3>1. Enqueue(t, me.preclaimed, tasks[t].version)
      BY <1>3, <1>5, <2>3 DEF ScheduleResumed
    <3> QED BY <1>1, <1>2, <2>1, <2>2, <2>3, <3>1, EnqueueStep
  <2>4. CASE t \in scheduled
    <3>1. /\ UNCHANGED <<queue, scheduled>>
          /\ pending_resumes' = [pending_resumes EXCEPT ![t] = resume]
      BY <1>3, <1>5, <2>4 DEF ScheduleResumed
    <3>2. resume \in Resume
      BY <1>2 DEF Resume
    <3>3. RowsAdvance
      BY <1>1, <1>2, UnchangedAdvances
    <3> HIDE DEF resume
    <3> QED BY <1>1, <2>1, <2>2, <2>4, <3>1, <3>2, <3>3, PendingStep
  <2> QED BY <2>3, <2>4
<1> QED BY <1>4, <1>5

\* Steps that leave every thread, row and place alone.
LEMMA QuietStep ==
  ASSUME IInv, UNCHANGED <<tasks, schedVars, threads>>, todo' \subseteq Tasks,
         \A t \in todo' : tasks[t] \in LiveRow
  PROVE  IInv'
<1>1. Types' /\ PendingResumeIsCarried' /\ ThreadsInv'
  BY DEF IInv, Types, PendingResumeIsCarried, schedVars, ThreadsInv
<1>2. ListedInv' /\ OwnInv'
  BY DEF IInv, ListedInv, OwnInv, schedVars
<1> QED BY <1>1, <1>2 DEF IInv

LEMMA ClientStep ==
  ASSUME IInv, NEW c \in Clients, Begins(c) \/ Continues(c)
  PROVE  IInv'
<1>1. c \in Threads /\ c \notin Workers
  BY ClientNames
<1>2. CASE interaction_result(c)
  <2>1. PICK kind \in Kinds : apply_result(c, kind)
    BY <1>2 DEF interaction_result
  <2>2. threads[c].pc = "apply"
    BY <1>2 DEF interaction_result, At
  <2> QED BY <1>1, <2>1, <2>2, ApplyStep
<1>3. CASE shutdown(c)
  BY <1>3, QuietStep DEF shutdown, IInv, Types, ListedInv
<1>4. CASE Begins(c)
  BY <1>3, <1>4, CreateStep, ResumeTaskStep, InteractStep, RequestStep DEF Begins
<1>5. CASE Continues(c)
  BY <1>1, <1>2, <1>5, SubmitGetStep, SubmitStep, CompensateStep, RequestCasStep, ResumeCasStep,
     ScheduleResumedStep, RollbackStep, ScheduleActiveStep, FailUnscheduledStep DEF Continues
<1> QED BY <1>4, <1>5

-----------------------------------------------------------------------------
(* The reconciler and the process.                                          *)

LEMMA LeastListed ==
  ASSUME Types, todo # {}
  PROVE  (CHOOSE u \in todo : \A v \in todo : u <= v) \in todo
<1>1. todo \subseteq Nat
  BY ThreadNames DEF Types
<1>2. PICK u \in todo : \A v \in todo : <<v, u>> \notin OpToRel(<, Nat)
  BY <1>1, NatLessThanWellFounded, WFMin
<1>3. \A v \in todo : u <= v
  <2> SUFFICES ASSUME NEW v \in todo PROVE u <= v
    OBVIOUS
  <2>1. <<v, u>> \notin OpToRel(<, Nat)
    BY <1>2
  <2>2. v \in Nat /\ u \in Nat
    BY <1>1
  <2>3. ~ (v < u)
    BY <2>1, <2>2 DEF OpToRel
  <2> QED BY <2>2, <2>3
<1> QED BY <1>3

LEMMA ReconcileStep ==
  ASSUME IInv, Reconcile
  PROVE  IInv'
<1>1. Types /\ Reconciler \in Threads /\ Reconciler \notin Workers
  BY MyTypes, ThreadNames
<1>2. CASE reconciler_list
  <2>1. \A t \in SafeTasks : t \in Tasks /\ tasks[t] \in LiveRow
    BY <1>1, PresentRow DEF SafeTasks, TaskStatus
  <2> QED BY <1>2, <2>1, QuietStep DEF reconciler_list
<1>3. CASE reconciler_get
  <2> DEFINE t == CHOOSE u \in todo : \A v \in todo : u <= v
             row == tasks[t]
             new == [Idle EXCEPT !.pc = "submit", !.task = t, !.cur = row]
  <2>1. /\ todo # {} /\ todo' = todo \ {t} /\ Goto(Reconciler, new)
        /\ UNCHANGED <<tasks, schedVars>>
    BY <1>3 DEF reconciler_get
  <2>2. t \in todo
    BY <1>1, <2>1, LeastListed
  <2>3. t \in Tasks /\ row \in LiveRow
    BY <2>2 DEF IInv, Types, ListedInv
  <2> HIDE DEF t, row
  <2>4. new \in AThread /\ new.pc = "submit" /\ new.task = t /\ new.cur = row
    BY <2>3, IdleThread, PCNames DEF AThread
  <2> HIDE DEF new
  <2>5. ThreadInv(new, tasks)
    BY <2>3, <2>4, InformedThread DEF Informed, Working, row
  <2>6. SamePlace(Reconciler, new)
    BY <1>1 DEF SamePlace
  <2>7. todo' \subseteq todo
    BY <2>1
  <2> QED BY <1>1, <2>1, <2>4, <2>5, <2>6, <2>7, ReadStep
<1>4. CASE reconciler_submit
  <2>1. /\ threads[Reconciler].pc = "submit" /\ Goto(Reconciler, Idle) /\ UNCHANGED tasks
    BY <1>4 DEF reconciler_submit, At
  <2>2. PICK raised \in BOOLEAN :
          /\ Submit(threads[Reconciler].task, threads[Reconciler].cur, raised)
          /\ todo' = IF raised THEN {} ELSE todo
    BY <1>4 DEF reconciler_submit
  <2>3. todo' \subseteq todo
    BY <2>2
  <2> QED BY <1>1, <2>1, <2>2, <2>3, SubmittedStep
<1> QED BY <1>2, <1>3, <1>4 DEF Reconcile

\* A process that has just been built: nothing is queued and nobody is at work.
Built ==
  /\ tasks \in [Tasks -> LiveRow \cup {NoRow}]
  /\ queue = <<>> /\ scheduled = {} /\ todo = {}
  /\ pending_resumes = [t \in Tasks |-> NoResume]
  /\ threads = [p \in Threads |-> Idle]

LEMMA FreshProcess == Built => IInv
<1> SUFFICES ASSUME Built PROVE IInv
  OBVIOUS
<1> USE DEF Built
<1>1. Types
  <2>1. NoResume \in Resume
    BY DEF NoResume, Resume
  <2>2. queue \in Seq(Item)
    BY EmptySeq
  <2> QED BY <2>1, <2>2, IdleThread DEF Types
<1>2. ThreadsInv
  BY IdleThread DEF ThreadsInv
<1>3. Len(queue) = 0 /\ 1..Len(queue) = {}
  BY EmptySeq
<1>4. \A w \in Workers : \A t : ~ Has(threads[w], t)
  BY IdleThread, ThreadNames DEF Has
<1>5. ListedInv /\ OwnInv
  BY <1>3, <1>4 DEF ListedInv, OwnInv
<1>6. PendingResumeIsCarried
  BY DEF PendingResumeIsCarried
<1> QED BY <1>1, <1>2, <1>5, <1>6 DEF IInv

LEMMA RecoveredRow ==
  ASSUME NEW row \in LiveRow \cup {NoRow}
  PROVE  /\ Recovered(row) \in LiveRow \cup {NoRow}
         /\ row.status = "paused" => Recovered(row) = row
<1>1. CASE row = NoRow
  BY <1>1 DEF Recovered, NoRow, ACTIVE_STATUSES
<1>2. CASE row \in LiveRow
  <2>1. Transitioned(row, "recoverable_failed") \in LiveRow /\ Lost(row) \in LiveRow
    BY <1>2, TransitionedRow, LostRow, RowFacts DEF Follows, Failures
  <2> QED BY <1>2, <2>1 DEF Recovered, ACTIVE_STATUSES
<1> QED BY <1>1, <1>2

LEMMA RestartStep ==
  ASSUME IInv, restart
  PROVE  IInv'
<1>1. tasks' \in [Tasks -> LiveRow \cup {NoRow}]
  BY RecoveredRow DEF restart, IInv, Types
<1>2. Built'
  BY <1>1 DEF restart, Built
<1> QED BY <1>2, FreshProcess, PTL

-----------------------------------------------------------------------------
(* The invariant.                                                           *)

LEMMA Initially ==
  ASSUME Init
  PROVE  IInv
<1>1. tasks \in [Tasks -> LiveRow \cup {NoRow}]
  BY ExecutorAssumption, RowFacts DEF Init
<1> QED BY <1>1, FreshProcess DEF Init, Built

LEMMA Inductive ==
  ASSUME IInv, [Next]_vars
  PROVE  IInv'
<1>1. CASE UNCHANGED vars
  BY <1>1, QuietStep DEF vars, schedVars, IInv, Types, ListedInv
<1>2. CASE Next
  BY <1>2, WorkerStep, ClientStep, ReconcileStep, RestartStep DEF Next
<1> QED BY <1>1, <1>2

LEMMA Invariance == Spec => []IInv
<1>1. Init => IInv
  BY Initially
<1>2. IInv /\ [Next]_vars => IInv'
  BY Inductive
<1> QED BY <1>1, <1>2, PTL DEF Spec

LEMMA Owners ==
  ASSUME IInv
  PROVE  OneOwnerPerTask
<1> SUFFICES ASSUME NEW t \in Tasks
             PROVE  Cardinality(Queued(t)) + Cardinality(Holders(t))
                      = IF t \in scheduled THEN 1 ELSE 0
  BY DEF OneOwnerPerTask
<1> DEFINE n == Len(queue)
<1>1. Types /\ OwnInv
  BY DEF IInv
<1>2. DOMAIN queue = 1..n
  BY <1>1, LenProperties DEF Types
<1>3. Queued(t) = {i \in 1..n : queue[i].task = t}
  BY <1>2 DEF Queued
<1>4. Holders(t) = {w \in Workers : Has(threads[w], t)}
  BY DEF Holders, Has
<1>5. /\ \A i, j \in Queued(t) : i = j
      /\ \A w, v \in Holders(t) : w = v
      /\ Queued(t) = {} \/ Holders(t) = {}
      /\ t \in scheduled <=> Queued(t) # {} \/ Holders(t) # {}
  BY <1>1, <1>3, <1>4 DEF OwnInv
<1>6. ASSUME NEW S, \A i, j \in S : i = j
      PROVE  Cardinality(S) = IF S = {} THEN 0 ELSE 1
  <2>1. CASE S = {}
    BY <2>1, FS_EmptySet
  <2>2. CASE S # {}
    <3>1. PICK x : x \in S
      BY <2>2
    <3>2. S = {x}
      BY <1>6, <3>1
    <3>3. Cardinality({x}) = 1
      BY FS_Singleton
    <3> QED BY <2>2, <3>2, <3>3
  <2> QED BY <2>1, <2>2
<1>7. /\ Cardinality(Queued(t)) = IF Queued(t) = {} THEN 0 ELSE 1
      /\ Cardinality(Holders(t)) = IF Holders(t) = {} THEN 0 ELSE 1
  BY <1>5, <1>6
<1> QED BY <1>5, <1>7

(* _scheduled counts the tasks that are in the queue or in a worker's hands, each once, for
   any number of workers, clients and tasks: submit(), schedule_active(), schedule_resumed()
   and the finally block of _worker never queue a task twice, run it in two workers at once
   or forget the place of one that is done (executor.py). *)
THEOREM TaskHasOneOwner == Spec => []OneOwnerPerTask
<1>1. IInv => OneOwnerPerTask
  BY Owners
<1> QED BY <1>1, Invariance, PTL

(* A resume that came while its task's place was taken is kept with a place that is still
   taken: the worker that gives the place up takes the resume with it (the section under the
   lock in the finally block of _worker). *)
THEOREM PendingResumesAreCarried == Spec => []PendingResumeIsCarried
<1>1. IInv => PendingResumeIsCarried
  BY DEF IInv
<1> QED BY <1>1, Invariance, PTL

-----------------------------------------------------------------------------
(* Who writes what.                                                         *)

LEMMA OnlyThatRow ==
  ASSUME Types, NEW t \in Tasks, NEW row, Put(t, row), NEW u \in Tasks, tasks'[u] # tasks[u]
  PROVE  u = t /\ tasks'[t] = row
BY DEF Types, Put

\* A thread whose version still matches knows the status it writes over.
LEMMA FreshWrite ==
  ASSUME IInv, NEW p \in Threads, threads[p].pc \in Informed, Fresh(p),
         threads[p].cur.status \notin Suspended,
         NEW row, Put(threads[p].task, row), NEW t \in Tasks, tasks'[t] # tasks[t]
  PROVE  /\ t = threads[p].task /\ tasks[t].status \notin Suspended
         /\ tasks[t].version = threads[p].cur.version
<1>1. threads[p].task \in Tasks /\ Types
  BY MyThread, MyTypes, PCNames
<1>2. t = threads[p].task
  BY <1>1, OnlyThatRow
<1>3. tasks[t] = threads[p].cur
  BY <1>2, FreshRow
<1> QED BY <1>2, <1>3

LEMMA NotSuspended ==
  /\ \A status \in ACTIVE_STATUSES \cup {"created", "ready", "waiting_for_user"} :
       status \notin Suspended
  /\ "paused" \in Suspended
BY DEF ACTIVE_STATUSES, Suspended, TERMINAL_STATUSES, RESUMABLE_STATUSES

LEMMA WorkerWrites ==
  ASSUME IInv, NEW w \in Workers, Worker(w), NEW t \in Tasks, tasks'[t] # tasks[t]
  PROVE  /\ t = threads[w].task /\ tasks[t].status \notin Suspended
         /\ \/ tasks[t].version = threads[w].cur.version
            \/ tasks'[t].status \in Failures
<1> DEFINE me == threads[w]
<1>1. w \in Threads /\ Types
  BY ThreadNames, MyTypes
<1>2. CASE claim(w)
  <2>1. me.pc = "claim" /\ me.pc \in Informed /\ me.cur.status \in {"created", "ready"}
    BY <1>1, <1>2, MyThread DEF claim, At, Informed, ThreadInv
  <2>2. Fresh(w) /\ \E row : Put(me.task, row)
    BY <1>2 DEF claim
  <2> QED BY <1>1, <2>1, <2>2, FreshWrite, NotSuspended
<1>3. CASE probe_handler(w)
  <2>1. me.pc = "handler" /\ me.pc \in Informed /\ me.cur.status \in ACTIVE_STATUSES
    BY <1>1, <1>3, MyThread DEF probe_handler, At, Informed, ThreadInv, Working
  <2>2. PICK kind \in Kinds : apply_result(w, kind)
    BY <1>3 DEF probe_handler
  <2>3. PICK row : Put(me.task, row) /\ (~ Fresh(w) => row = tasks[me.task])
    BY <2>2 DEF apply_result
  <2>4. me.task \in Tasks
    BY <1>1, <2>1, MyThread, PCNames
  <2>5. Fresh(w)
    <3>1. t = me.task /\ tasks'[t] = row
      BY <1>1, <2>3, <2>4, OnlyThatRow
    <3> QED BY <2>3, <3>1
  <2> QED BY <1>1, <2>1, <2>3, <2>5, FreshWrite, NotSuspended
<1>4. CASE fail_unscheduled(w)
  <2>1. me.pc = "unscheduled" /\ me.pc \in Informed /\ me.cur.status \in ACTIVE_STATUSES
    BY <1>1, <1>4, MyThread DEF fail_unscheduled, At, Informed, ThreadInv, Working
  <2>2. PICK row : Put(me.task, row) /\ (~ Fresh(w) => row = tasks[me.task])
    BY <1>4 DEF fail_unscheduled
  <2>3. me.task \in Tasks
    BY <1>1, <2>1, MyThread, PCNames
  <2>4. Fresh(w)
    <3>1. t = me.task /\ tasks'[t] = row
      BY <1>1, <2>2, <2>3, OnlyThatRow
    <3> QED BY <2>2, <3>1
  <2> QED BY <1>1, <2>1, <2>2, <2>4, FreshWrite, NotSuspended
<1>5. CASE complete(w)
  <2>1. me.pc = "complete" /\ me.pc \in Informed /\ me.cur.status \in ACTIVE_STATUSES
    BY <1>1, <1>5, MyThread DEF complete, At, Informed, ThreadInv, Working
  <2>2. Fresh(w) /\ \E row : Put(me.task, row)
    BY <1>5 DEF complete
  <2> QED BY <1>1, <2>1, <2>2, FreshWrite, NotSuspended
<1>6. CASE ready_handoff(w)
  <2>1. me.pc = "handoff" /\ me.pc \in Informed /\ me.cur.status = "ready"
    BY <1>1, <1>6, MyThread DEF ready_handoff, At, Informed, ThreadInv
  <2>2. Fresh(w) /\ \E row : Put(me.task, row)
    BY <1>6 DEF ready_handoff
  <2> QED BY <1>1, <2>1, <2>2, FreshWrite, NotSuspended
<1>7. CASE record_failure_cas(w)
  <2> DEFINE row == Transitioned(tasks[me.task], me.goal)
  <2>1. me.pc = "fail_cas" /\ tasks[me.task].version = me.latest /\ Put(me.task, row)
    BY <1>7 DEF record_failure_cas, At
  <2>2. /\ me.task \in Tasks /\ tasks[me.task] \in LiveRow /\ me.goal \in Failures
        /\ tasks[me.task].status \notin Suspended
    BY <1>1, <2>1, MyThread DEF ThreadInv, Resting
  <2>3. t = me.task /\ tasks'[t] = row
    BY <1>1, <2>1, <2>2, OnlyThatRow
  <2>4. row.status = me.goal
    BY <2>2, TransitionedRow, RowFacts
  <2> QED BY <2>2, <2>3, <2>4
<1>8. CASE rollback_resume(w)
  <2>1. me.pc = "rollback" /\ me.pc \in Informed
    BY <1>8 DEF rollback_resume, At, Informed
  <2>2. Fresh(w) /\ me.cur.status \notin Suspended /\ \E row : Put(me.task, row)
    BY <1>8 DEF rollback_resume, Suspended
  <2> QED BY <1>1, <2>1, <2>2, FreshWrite
<1>9. UNCHANGED tasks \/ claim(w) \/ probe_handler(w) \/ fail_unscheduled(w) \/ complete(w)
      \/ ready_handoff(w) \/ record_failure_cas(w) \/ rollback_resume(w)
  BY DEF Worker, get, exit, load, check_control, handler_stops, handler_returns, handler_raises,
         schedule_active, recheck, record_failure, finish
<1> QED BY <1>2, <1>3, <1>4, <1>5, <1>6, <1>7, <1>8, <1>9

\* A client writes the row of the task it is at work on, and is not where it was after it.
LEMMA ClientMoves ==
  ASSUME Types, NEW c \in Clients, NEW th, Goto(c, th), th.pc # threads[c].pc
  PROVE  threads'[c] # threads[c]
BY ClientNames DEF Types, Goto

LEMMA ClientWrites ==
  ASSUME IInv, NEW c \in Clients, Begins(c) \/ Continues(c), NEW t \in Tasks,
         tasks[t].status = "paused", tasks'[t] # tasks[t]
  PROVE  threads[c].task = t /\ threads'[c] # threads[c]
<1> DEFINE me == threads[c]
<1>1. c \in Threads /\ c \notin Workers /\ Types /\ Idle.pc = "idle" /\ Done(c) = Idle
  BY ClientNames, MyTypes, IdleThread DEF Done
<1>2. ASSUME me.pc \notin Resting, NEW row, Put(me.task, row),
             NEW th, Goto(c, th), th.pc # me.pc
      PROVE  me.task = t /\ threads'[c] # threads[c]
  <2>1. me.task \in Tasks
    BY <1>1, <1>2, MyThread
  <2>2. t = me.task
    BY <1>1, <1>2, <2>1, OnlyThatRow
  <2>3. threads'[c] # threads[c]
    BY <1>1, <1>2, ClientMoves
  <2> QED BY <2>2, <2>3
<1>3. CASE interaction_result(c)
  <2>1. me.pc = "apply" /\ \E row : Put(me.task, row)
    BY <1>3 DEF interaction_result, apply_result, At
  <2>2. \E th : Goto(c, th) /\ th.pc \in {"idle", "schedule"}
    <3>1. me \in AThread
      BY <1>1, MyThread
    <3>2. \A row : [me EXCEPT !.pc = "schedule", !.cur = row].pc = "schedule"
      BY <3>1 DEF AThread
    <3> QED BY <1>1, <1>3, <3>2 DEF interaction_result, apply_result
  <2> QED BY <1>2, <2>1, <2>2 DEF Resting
<1>4. CASE fail_unscheduled(c)
  <2>1. me.pc = "unscheduled" /\ Goto(c, Idle) /\ \E row : Put(me.task, row)
    BY <1>1, <1>4 DEF fail_unscheduled, At
  <2> QED BY <1>1, <1>2, <2>1 DEF Resting
<1>5. CASE compensate_submission(c)
  <2>1. me.pc = "compensate" /\ Goto(c, Idle) /\ \E row : Put(me.task, row)
    BY <1>5 DEF compensate_submission, At
  <2> QED BY <1>1, <1>2, <2>1 DEF Resting
<1>6. CASE request_cas(c)
  <2>1. me.pc = "request" /\ Goto(c, Idle) /\ \E row : Put(me.task, row)
    BY <1>6 DEF request_cas, At
  <2> QED BY <1>1, <1>2, <2>1 DEF Resting
<1>7. CASE resume_cas(c)
  <2>1. me.pc = "resume" /\ \E row : Put(me.task, row)
    BY <1>7 DEF resume_cas, At
  <2>2. \E th : Goto(c, th) /\ th.pc \in {"idle", "schedule_resumed"}
    <3>1. me \in AThread
      BY <1>1, MyThread
    <3> DEFINE row == tasks[me.task]
               resumed == Transitioned(row, me.cur.resume_status)
               goal == row.status
               preclaimed == resumed.status \in ACTIVE_STATUSES
               new == [me EXCEPT !.pc = "schedule_resumed", !.cur = resumed, !.goal = goal,
                                 !.preclaimed = preclaimed]
    <3>2. Fresh(c)
      BY <1>7 DEF resume_cas
    <3>3. Goto(c, Idle) \/ Goto(c, new)
      BY <1>7, <3>2 DEF resume_cas
    <3> HIDE DEF row, resumed, goal, preclaimed, me
    <3>4. new.pc = "schedule_resumed"
      BY <3>1 DEF AThread
    <3> QED BY <1>1, <3>3, <3>4
  <2> QED BY <1>2, <2>1, <2>2 DEF Resting
<1>8. CASE rollback_resume(c)
  <2>1. me.pc = "rollback" /\ Goto(c, Idle) /\ \E row : Put(me.task, row)
    BY <1>1, <1>8 DEF rollback_resume, At, RollbackFailed
  <2> QED BY <1>1, <1>2, <2>1 DEF Resting
<1>9. \A u \in Tasks : ~ create_crawl_task(c, u)
  <2> SUFFICES ASSUME NEW u \in Tasks, create_crawl_task(c, u) PROVE FALSE
    OBVIOUS
  <2>1. tasks[u] = NoRow /\ Put(u, NewTask)
    BY DEF create_crawl_task
  <2>2. t = u
    BY <1>1, <2>1, OnlyThatRow
  <2> QED BY <2>1, <2>2 DEF NoRow
<1>10. CASE Begins(c)
  BY <1>9, <1>10 DEF Begins, shutdown, resume_task, interact, request_status
<1>11. CASE Continues(c)
  BY <1>3, <1>4, <1>5, <1>6, <1>7, <1>8, <1>11
     DEF Continues, submit_get, submit, schedule_resumed, schedule_active
<1> QED BY <1>10, <1>11

LEMMA RestartWrites ==
  ASSUME IInv, restart, NEW t \in Tasks, tasks'[t] # tasks[t]
  PROVE  tasks[t].status \notin Suspended /\ tasks'[t].status = "recoverable_failed"
<1>1. tasks[t] \in LiveRow \cup {NoRow} /\ tasks'[t] = Recovered(tasks[t])
  BY DEF IInv, Types, restart
<1>2. tasks[t].status \in ACTIVE_STATUSES \cup {"waiting_for_user"}
  BY <1>1 DEF Recovered
<1>3. tasks[t] \in LiveRow
  BY <1>1, <1>2 DEF NoRow, ACTIVE_STATUSES
<1>4. Transitioned(tasks[t], "recoverable_failed").status = "recoverable_failed"
      /\ Lost(tasks[t]).status = "recoverable_failed"
  BY <1>3, TransitionedRow, LostRow, RowFacts DEF Failures
<1> QED BY <1>1, <1>2, <1>4, NotSuspended DEF Recovered, ACTIVE_STATUSES

LEMMA ReconcileWrites ==
  Reconcile => UNCHANGED tasks
BY DEF Reconcile, reconciler_list, reconciler_get, reconciler_submit

LEMMA PausesStick ==
  ASSUME IInv, [Next]_vars, NEW t \in Tasks, tasks[t].status = "paused", tasks'[t] # tasks[t]
  PROVE  \E c \in Clients : threads[c].task = t /\ threads'[c] # threads[c]
<1>1. Next
  BY DEF vars
<1>2. \A w \in Workers : ~ Worker(w)
  BY WorkerWrites, NotSuspended
<1>3. ~ restart
  BY RestartWrites, NotSuspended
<1>4. ~ Reconcile
  BY ReconcileWrites
<1>5. PICK c \in Clients : Begins(c) \/ Continues(c)
  BY <1>1, <1>2, <1>3, <1>4 DEF Next
<1> QED BY <1>5, ClientWrites

(* Nobody but a client moves a paused task: not a worker whose handler returns or fails after
   the pause, not the worker that could not requeue a pending resume, not the reconciler and
   not the startup recovery of the next process (executor.py). *)
THEOREM PausedTasksStayPaused == Spec => PauseSticks
<1>1. IInv /\ [Next]_vars =>
        [\A t \in Tasks : tasks[t].status = "paused" /\ tasks'[t] # tasks[t] =>
           \E c \in Clients : threads[c].task = t /\ threads'[c] # threads[c]]_vars
  BY PausesStick
<1> QED BY <1>1, Invariance, PTL DEF Spec, PauseSticks

LEMMA StaleWorkersFail ==
  ASSUME IInv, [Next]_vars, NEW w \in Workers, NEW t, t = threads[w].task,
         threads[w].pc \in Holding, threads'[w] # threads[w], tasks'[t] # tasks[t],
         tasks[t].version # threads[w].cur.version
  PROVE  tasks'[t].status \in Failures /\ tasks[t].status \notin Suspended
<1>1. t \in Tasks /\ Types /\ w \in Threads
  BY MyThread, MyTypes, ThreadNames, PCNames
<1>2. Next
  BY DEF vars
<1>3. CASE restart
  BY <1>1, <1>3, RestartWrites DEF Failures
<1>4. ~ Reconcile
  BY ReconcileWrites
<1>5. ASSUME NEW c \in Clients, Begins(c) \/ Continues(c) PROVE FALSE
  <2>1. \A th : Goto(c, th) => threads'[w] = threads[w]
    BY <1>1, ClientNames DEF Types, Goto
  <2>2. UNCHANGED threads \/ \E th : Goto(c, th)
    BY <1>5 DEF Begins, Continues, shutdown, create_crawl_task, resume_task, interact,
       request_status, submit_get, submit, compensate_submission, request_cas, resume_cas,
       schedule_resumed, rollback_resume, RollbackFailed, interaction_result, apply_result,
       schedule_active, fail_unscheduled, Step
  <2> QED BY <2>1, <2>2
<1>6. ASSUME NEW v \in Workers, Worker(v), v # w PROVE FALSE
  <2>1. \A th : Goto(v, th) => threads'[w] = threads[w]
    BY <1>1, <1>6, ThreadNames DEF Types, Goto
  <2>2. \E th : Goto(v, th)
    BY <1>6 DEF Worker, get, exit, load, claim, check_control, handler_stops, probe_handler,
       apply_result, handler_returns, handler_raises, schedule_active, fail_unscheduled, recheck,
       complete, ready_handoff, record_failure, record_failure_cas, finish, rollback_resume,
       RollbackFailed, Step
  <2> QED BY <2>1, <2>2
<1>7. CASE Worker(w)
  BY <1>1, <1>7, WorkerWrites
<1> QED BY <1>2, <1>3, <1>4, <1>5, <1>6, <1>7 DEF Next

(* A worker whose task moved on while it worked, paused and resumed by a client, say, writes
   nothing over the newer generation but a failure, and that only where the task is at work
   again: every other write compares the version the worker claimed, and _record_failure the
   one it has just read. *)
THEOREM StaleWorkersOnlyFail == Spec => StaleWorkerOnlyFails
<1>1. IInv /\ [Next]_vars =>
        [\A w \in Workers : LET t == threads[w].task IN
           /\ threads[w].pc \in Holding /\ threads'[w] # threads[w] /\ tasks'[t] # tasks[t]
           /\ tasks[t].version # threads[w].cur.version
           => /\ tasks'[t].status \in {"recoverable_failed", "terminal_failed"}
              /\ tasks[t].status \notin TERMINAL_STATUSES \cup RESUMABLE_STATUSES]_vars
  BY StaleWorkersFail DEF Failures, Suspended
<1> QED BY <1>1, Invariance, PTL DEF Spec, StaleWorkerOnlyFails

-----------------------------------------------------------------------------
(* A task in an active status has somebody who takes it out of that status. *)

\* Nobody is paused before the first claim, by a client or because the queue was full, and the
\* service's lock admits one client.
Undisturbed ==
  /\ "created" \notin PauseFrom
  /\ \A c, d \in Clients : c = d
  /\ IsFiniteSet(Tasks) /\ Cardinality(Tasks) <= QueueSize

Busy(th, t) == th.pc \notin Resting /\ th.task = t

\* The pcs a thread reaches with a task that has been claimed before.
Late == {"handler", "schedule", "unscheduled", "returned", "complete", "handoff", "fail",
         "fail_cas", "apply", "resume", "schedule_resumed", "rollback"}

RowOk(row) ==
  /\ row.resume_status # "created"
  /\ row.resume_gate # "none" => row.status = "recoverable_failed"

Knows(th, row) ==
  /\ th.pc # "compensate"
  /\ th.pc \in Late \/ (th.pc = "request" /\ th.goal = "paused") => row.status # "created"
  /\ th.pc = "apply" => th.cur.status = "waiting_for_user"
  /\ th.pc = "request" => th.goal \in {"paused", "cancelled"}
  /\ th.pc = "resume" => th.cur.status \in RESUMABLE_STATUSES /\ th.cur.resume_gate = "none"
  /\ th.pc \in {"schedule_resumed", "rollback"} => th.goal \in RESUMABLE_STATUSES
  /\ th.pc \in {"returned", "complete"} => th.goal \in {"ready", "completed", "recoverable_failed"}

\* A worker that will see the active row and write the next one.
Drives(th, row, t) ==
  /\ Has(th, t)
  /\ \/ th.pc = "load" /\ th.preclaimed
     \/ th.pc \in {"check", "handler", "returned", "complete"} /\ th.cur.version = row.version
     \/ th.pc = "fail"
     \/ th.pc = "fail_cas" /\ th.latest = row.version

\* A thread about to schedule the active task, or to send it back to a suspended status.
Helps(p, th, row, t) ==
  /\ th.task = t
  /\ \/ p \in Workers /\ th.pc \in {"schedule", "unscheduled", "rollback"}
        /\ th.cur.version = row.version
     \/ p \in Clients /\ th.pc = "schedule"
     \/ p \in Clients /\ th.pc = "schedule_resumed" /\ th.preclaimed

Waits(t) == \E i \in 1..Len(queue) : queue[i].task = t /\ queue[i].preclaimed
Driven(t) == \E w \in Workers : Drives(threads[w], tasks[t], t)
Carried(t) == Waits(t) \/ pending_resumes[t].preclaimed \/ Driven(t)
Helped(t) == \E p \in Threads : Helps(p, threads[p], tasks[t], t)
Active(row) == row.status \in ACTIVE_STATUSES

Noted(t) ==
  /\ scheduled_versions[t] <= tasks[t].version
  /\ t \notin scheduled => scheduled_versions[t] = -1
  /\ pending_resumes[t] # NoResume =>
       pending_resumes[t].rollback \in RESUMABLE_STATUSES /\ tasks[t].status # "created"

\* A client about to schedule a task it has resumed to ready.
Resumes(th, t) == th.pc = "schedule_resumed" /\ th.task = t /\ ~ th.preclaimed

Owned(t) ==
  /\ RowOk(tasks[t]) /\ Noted(t)
  /\ \A p \in Threads : Busy(threads[p], t) => Knows(threads[p], tasks[t])
  /\ Active(tasks[t]) => Carried(t) \/ Helped(t)
  /\ Active(tasks[t]) /\ scheduled_versions[t] = tasks[t].version => Carried(t)
  /\ \A c \in Clients : Resumes(threads[c], t) =>
       /\ tasks[t].status \notin {"probing", "validating"}
       /\ Active(tasks[t]) => Driven(t)

Versions == scheduled_versions \in [Tasks -> Nat \cup {-1}]
Open == \A c \in Clients : threads[c].pc # "idle" => ~ closing
Served == Versions /\ Open /\ \A t \in Tasks : Owned(t)

-----------------------------------------------------------------------------
\* A step is about the task t.
About(p, th, t) ==
  /\ threads[p].pc \in Resting \/ threads[p].task = t
  /\ th.pc \in Resting \/ th.task = t

Only(t) ==
  \A u \in Tasks \ {t} :
    /\ tasks'[u] = tasks[u] /\ scheduled_versions'[u] = scheduled_versions[u]
    /\ pending_resumes'[u] = pending_resumes[u]
    /\ u \in scheduled' <=> u \in scheduled
    /\ Waits(u)' <=> Waits(u)

LEMMA RestingOut ==
  ASSUME NEW th, th.pc \in Resting, NEW p, NEW row, NEW t
  PROVE  ~ Busy(th, t) /\ ~ Drives(th, row, t) /\ ~ Helps(p, th, row, t) /\ ~ Resumes(th, t)
BY DEF Resting, Busy, Drives, Has, Holding, Helps, Resumes

LEMMA ElsewhereOut ==
  ASSUME NEW th, NEW p, NEW row, NEW t, th.task # t
  PROVE  ~ Busy(th, t) /\ ~ Drives(th, row, t) /\ ~ Helps(p, th, row, t) /\ ~ Resumes(th, t)
BY DEF Busy, Drives, Has, Helps, Resumes

LEMMA OthersOwned ==
  ASSUME IInv, NEW p \in Threads, NEW th, Goto(p, th), NEW t \in Tasks, About(p, th, t),
         Only(t), NEW u \in Tasks \ {t}, Owned(u)
  PROVE  Owned(u)'
<1>1. /\ threads'[p] = th
      /\ \A q \in Threads : q # p => threads'[q] = threads[q]
  BY MyTypes DEF Types, Goto
<1>2. /\ ~ Busy(th, u) /\ ~ Resumes(th, u)
      /\ ~ Drives(th, tasks[u], u) /\ ~ Helps(p, th, tasks[u], u)
  BY RestingOut, ElsewhereOut DEF About
<1>3. /\ ~ Busy(threads[p], u) /\ ~ Resumes(threads[p], u)
      /\ ~ Drives(threads[p], tasks[u], u) /\ ~ Helps(p, threads[p], tasks[u], u)
  BY RestingOut, ElsewhereOut DEF About
<1>4. /\ tasks'[u] = tasks[u] /\ scheduled_versions'[u] = scheduled_versions[u]
      /\ pending_resumes'[u] = pending_resumes[u]
      /\ u \in scheduled' <=> u \in scheduled
      /\ Waits(u)' <=> Waits(u)
  BY DEF Only
<1>5. \A q \in Threads :
        /\ Busy(threads'[q], u) <=> Busy(threads[q], u)
        /\ Busy(threads[q], u) => threads'[q] = threads[q]
        /\ Resumes(threads'[q], u) <=> Resumes(threads[q], u)
        /\ Drives(threads'[q], tasks[u], u) <=> Drives(threads[q], tasks[u], u)
        /\ Helps(q, threads'[q], tasks[u], u) <=> Helps(q, threads[q], tasks[u], u)
  BY <1>1, <1>2, <1>3
<1>6. Driven(u)' <=> Driven(u)
  BY <1>4, <1>5, ThreadNames DEF Driven
<1>7. Helped(u)' <=> Helped(u)
  BY <1>4, <1>5 DEF Helped
<1>8. Carried(u)' <=> Carried(u)
  BY <1>4, <1>6 DEF Carried
<1>9. Noted(u)'
  BY <1>4 DEF Noted, Owned
<1>10. \A q \in Threads : Busy(threads'[q], u) => Knows(threads'[q], tasks'[u])
  BY <1>4, <1>5 DEF Owned
<1>11. \A c \in Clients : Resumes(threads'[c], u) =>
         /\ tasks'[u].status \notin {"probing", "validating"}
         /\ Active(tasks'[u]) => Driven(u)'
  BY <1>4, <1>5, <1>6, ThreadNames DEF Owned
<1> QED BY <1>4, <1>7, <1>8, <1>9, <1>10, <1>11 DEF Owned

-----------------------------------------------------------------------------
(* What a step leaves of its own task. *)

LEMMA Moved ==
  ASSUME IInv, NEW p \in Threads, NEW th, Goto(p, th)
  PROVE  /\ threads'[p] = th
         /\ \A q \in Threads : q # p => threads'[q] = threads[q]
BY MyTypes DEF Types, Goto

\* The thread goes on and does not give up what the task needs of it.
LEMMA OwnedMove ==
  ASSUME IInv, NEW p \in Threads, NEW th, Goto(p, th), NEW t \in Tasks, Owned(t),
         UNCHANGED <<tasks, schedVars>>, About(p, th, t), th.pc # "schedule_resumed",
         Busy(th, t) => Knows(th, tasks[t]),
         Active(tasks[t]) =>
           /\ Drives(threads[p], tasks[t], t) => Drives(th, tasks[t], t)
           /\ Helps(p, threads[p], tasks[t], t) => Helps(p, th, tasks[t], t) \/ Carried(t)
  PROVE  Owned(t)'
<1>1. /\ threads'[p] = th
      /\ \A q \in Threads : q # p => threads'[q] = threads[q]
  BY Moved
<1>2. Active(tasks[t]) => (Driven(t) => Driven(t)') /\ (Helped(t) => Helped(t)' \/ Carried(t))
  BY <1>1, ThreadNames DEF Driven, Helped
<1>3. Active(tasks[t]) => (Carried(t) => Carried(t)')
  BY <1>2 DEF Carried, Waits, schedVars
<1>4. Noted(t)'
  BY DEF Noted, schedVars, Owned
<1>5. \A q \in Threads : Busy(threads'[q], t) => Knows(threads'[q], tasks'[t])
  BY <1>1 DEF Owned
<1>6. ~ Resumes(th, t)
  BY DEF Resumes
<1>7. \A c \in Clients : Resumes(threads'[c], t) =>
        /\ tasks'[t].status \notin {"probing", "validating"}
        /\ Active(tasks'[t]) => Driven(t)'
  BY <1>1, <1>2, <1>6, ThreadNames DEF Owned
<1> QED BY <1>2, <1>3, <1>4, <1>5, <1>7 DEF Owned, schedVars

\* The rest of the threads know as much of the row written as of the one before.
LEMMA KnowsKept ==
  ASSUME NEW th, NEW row, NEW new, Knows(th, row), new.status # "created"
  PROVE  Knows(th, new)
BY DEF Knows

LEMMA NotedKept ==
  ASSUME IInv, NEW t \in Tasks, Noted(t), tasks[t] \in LiveRow, Follows(tasks'[t], tasks[t]),
         tasks'[t].status # "created", Versions, UNCHANGED schedVars
  PROVE  Noted(t)' /\ scheduled_versions'[t] < tasks'[t].version
<1>1. tasks[t].version \in Nat /\ tasks'[t].version = tasks[t].version + 1
      /\ scheduled_versions[t] \in Int
  BY RowFacts DEF Follows, Versions
<1> QED BY <1>1 DEF Noted, schedVars

\* A row is written in which nobody is at work.
LEMMA OwnedRest ==
  ASSUME IInv, NEW p \in Threads, NEW th, Goto(p, th), NEW t \in Tasks, Owned(t), Versions,
         NEW row, Put(t, row), Follows(row, tasks[t]), tasks[t] \in LiveRow,
         ~ Active(row), row.status # "created", RowOk(row),
         UNCHANGED schedVars, Busy(th, t) => Knows(th, row)
  PROVE  Owned(t)'
<1>1. /\ threads'[p] = th
      /\ \A q \in Threads : q # p => threads'[q] = threads[q]
  BY Moved
<1>2. tasks'[t] = row
  BY MyTypes DEF Types, Put
<1>3. Noted(t)'
  BY <1>2, NotedKept DEF Owned
<1>4. \A q \in Threads : Busy(threads'[q], t) => Knows(threads'[q], tasks'[t])
  BY <1>1, <1>2, KnowsKept DEF Owned
<1>5. row.status \notin {"probing", "validating"}
  BY DEF Active, ACTIVE_STATUSES
<1> QED BY <1>2, <1>3, <1>4, <1>5 DEF Owned

\* A row is written in which the thread is at work.
LEMMA OwnedWork ==
  ASSUME IInv, NEW p \in Threads, NEW th, Goto(p, th), NEW t \in Tasks, Owned(t), Versions,
         NEW row, Put(t, row), Follows(row, tasks[t]), tasks[t] \in LiveRow,
         row.status # "created", RowOk(row), UNCHANGED schedVars,
         Busy(th, t) => Knows(th, row),
         (p \in Workers /\ Drives(th, row, t)) \/ Helps(p, th, row, t),
         \A c \in Clients : Resumes(threads'[c], t) =>
           row.status \notin {"probing", "validating"} /\ p \in Workers /\ Drives(th, row, t)
  PROVE  Owned(t)'
<1>1. /\ threads'[p] = th
      /\ \A q \in Threads : q # p => threads'[q] = threads[q]
  BY Moved
<1>2. tasks'[t] = row
  BY MyTypes DEF Types, Put
<1>3. Noted(t)' /\ scheduled_versions'[t] < tasks'[t].version
  BY <1>2, NotedKept DEF Owned
<1>4. \A q \in Threads : Busy(threads'[q], t) => Knows(threads'[q], tasks'[t])
  BY <1>1, <1>2, KnowsKept DEF Owned
<1>5. p \in Workers /\ Drives(th, row, t) => Driven(t)'
  BY <1>1, <1>2 DEF Driven
<1>6. Carried(t)' \/ Helped(t)'
  BY <1>1, <1>2, <1>5 DEF Carried, Helped
<1>7. scheduled_versions'[t] # tasks'[t].version
  <2>1. row.version \in Nat /\ scheduled_versions[t] \in Int
    BY RowFacts DEF Follows, Versions
  <2> QED BY <1>2, <1>3, <2>1 DEF schedVars
<1> QED BY <1>2, <1>3, <1>4, <1>5, <1>6, <1>7 DEF Owned

LEMMA OnlyOwn ==
  ASSUME IInv, NEW t \in Tasks, UNCHANGED schedVars,
         UNCHANGED tasks \/ \E row : Put(t, row)
  PROVE  Only(t)
BY MyTypes DEF Only, schedVars, Put, Types, Waits

LEMMA StepServed ==
  ASSUME IInv, Served, NEW p \in Threads, NEW th, Goto(p, th), NEW t \in Tasks,
         About(p, th, t), Only(t), Owned(t)'
  PROVE  \A u \in Tasks : Owned(u)'
<1>1. \A u \in Tasks \ {t} : Owned(u)'
  BY OthersOwned DEF Served
<1> QED BY <1>1

LEMMA MoveServed ==
  ASSUME IInv, Served, NEW p \in Threads, NEW th, Goto(p, th), NEW t \in Tasks,
         UNCHANGED <<tasks, schedVars>>, About(p, th, t), th.pc # "schedule_resumed",
         Busy(th, t) => Knows(th, tasks[t]),
         Active(tasks[t]) =>
           /\ Drives(threads[p], tasks[t], t) => Drives(th, tasks[t], t)
           /\ Helps(p, threads[p], tasks[t], t) => Helps(p, th, tasks[t], t) \/ Carried(t)
  PROVE  \A u \in Tasks : Owned(u)'
<1>1. Owned(t)'
  BY OwnedMove DEF Served
<1> QED BY <1>1, OnlyOwn, StepServed

LEMMA RestServed ==
  ASSUME IInv, Served, NEW p \in Threads, NEW th, Goto(p, th), NEW t \in Tasks,
         About(p, th, t), NEW row, Put(t, row), Follows(row, tasks[t]), tasks[t] \in LiveRow,
         ~ Active(row), row.status # "created", RowOk(row),
         UNCHANGED schedVars, Busy(th, t) => Knows(th, row)
  PROVE  \A u \in Tasks : Owned(u)'
<1>1. Owned(t)'
  BY OwnedRest DEF Served
<1> QED BY <1>1, OnlyOwn, StepServed

LEMMA WorkServed ==
  ASSUME IInv, Served, NEW p \in Threads, NEW th, Goto(p, th), NEW t \in Tasks,
         About(p, th, t), NEW row, Put(t, row), Follows(row, tasks[t]), tasks[t] \in LiveRow,
         row.status # "created", RowOk(row), UNCHANGED schedVars,
         Busy(th, t) => Knows(th, row),
         (p \in Workers /\ Drives(th, row, t)) \/ Helps(p, th, row, t),
         \A c \in Clients : Resumes(threads'[c], t) =>
           row.status \notin {"probing", "validating"} /\ p \in Workers /\ Drives(th, row, t)
  PROVE  \A u \in Tasks : Owned(u)'
<1>1. Owned(t)'
  BY OwnedWork DEF Served
<1> QED BY <1>1, OnlyOwn, StepServed

\* A thread that is done is resting, or about to give its place up.
LEMMA DoneKnows ==
  ASSUME NEW p
  PROVE  /\ Done(p).pc \in {"idle", "finish"}
         /\ Done(p).pc \in Resting \/ Done(p).task = threads[p].task
         /\ \A row : Knows(Done(p), row)
<1>1. Idle.pc = "idle"
  BY DEF Idle
<1>2. Done(p).pc \in {"idle", "finish"}
      /\ (Done(p).pc \in Resting \/ Done(p).task = threads[p].task)
  BY <1>1 DEF Done, Idle, Resting
<1> QED BY <1>2 DEF Knows, Late

LEMMA DoneServed ==
  ASSUME IInv, Served, NEW p \in Threads, threads[p].pc \notin Resting, Goto(p, Done(p)),
         UNCHANGED <<tasks, schedVars>>,
         LET t == threads[p].task IN Active(tasks[t]) =>
           ~ Drives(threads[p], tasks[t], t) /\ ~ Helps(p, threads[p], tasks[t], t)
  PROVE  \A u \in Tasks : Owned(u)'
<1>1. threads[p].task \in Tasks
  BY MyThread
<1>2. About(p, Done(p), threads[p].task) /\ Done(p).pc # "schedule_resumed"
  BY DoneKnows DEF About
<1> QED BY <1>1, <1>2, DoneKnows, MoveServed

LEMMA RestDone ==
  ASSUME IInv, Served, NEW p \in Threads, threads[p].pc \notin Resting, Goto(p, Done(p)),
         NEW row, Put(threads[p].task, row), Follows(row, tasks[threads[p].task]),
         ~ Active(row), row.status # "created", RowOk(row), UNCHANGED schedVars
  PROVE  \A u \in Tasks : Owned(u)'
<1>1. threads[p].task \in Tasks /\ tasks[threads[p].task] \in LiveRow
  BY MyThread
<1>2. About(p, Done(p), threads[p].task)
  BY DoneKnows DEF About
<1> QED BY <1>1, <1>2, DoneKnows, RestServed

\* Rows written.
LEMMA RestRow ==
  ASSUME NEW row \in LiveRow, RowOk(row),
         NEW to \in TaskStatus \ (ACTIVE_STATUSES \cup {"created"}),
         to \in RESUMABLE_STATUSES => row.status # "created",
         row.resume_gate = "none" \/ to \in Exits
  PROVE  LET new == Transitioned(row, to) IN
         Follows(new, row) /\ ~ Active(new) /\ new.status # "created" /\ RowOk(new)
<1> DEFINE new == Transitioned(row, to)
<1>1. Follows(new, row) /\ new.status = to
  BY TransitionedRow
<1>2. ~ Active(new) /\ new.status # "created"
  BY <1>1 DEF Active
<1>3. new.resume_status # "created" /\ new.resume_gate = "none"
  BY DEF Transitioned, NONE, LiveRow
<1> QED BY <1>1, <1>2, <1>3 DEF RowOk

LEMMA WorkRow ==
  ASSUME NEW row \in LiveRow, RowOk(row), NEW to \in ACTIVE_STATUSES,
         row.resume_gate = "none"
  PROVE  LET new == Transitioned(row, to) IN
         Follows(new, row) /\ Active(new) /\ new.status = to /\ new.status # "created" /\ RowOk(new)
<1> DEFINE new == Transitioned(row, to)
<1>1. Follows(new, row) /\ new.status = to
  BY TransitionedRow, RowFacts
<1>2. Active(new) /\ new.status # "created"
  BY <1>1 DEF Active, ACTIVE_STATUSES
<1>3. new.resume_status # "created" /\ new.resume_gate = "none"
  BY DEF Transitioned, NONE, LiveRow, ACTIVE_STATUSES, RESUMABLE_STATUSES
<1> QED BY <1>1, <1>2, <1>3 DEF RowOk

LEMMA MyKnows ==
  ASSUME IInv, Served, NEW p \in Threads, threads[p].pc \notin Resting
  PROVE  /\ threads[p].task \in Tasks /\ tasks[threads[p].task] \in LiveRow
         /\ threads[p] \in AThread /\ ThreadInv(threads[p], tasks)
         /\ Owned(threads[p].task) /\ RowOk(tasks[threads[p].task])
         /\ Knows(threads[p], tasks[threads[p].task])
BY MyThread DEF Served, Owned, Busy

\* An active row is not gated.
LEMMA ActiveRow ==
  ASSUME NEW row, RowOk(row), row.status # "recoverable_failed"
  PROVE  row.resume_gate = "none"
BY DEF RowOk

-----------------------------------------------------------------------------
(* The steps of a worker. *)

LEMMA LoadServed ==
  ASSUME IInv, Served, NEW w \in Workers, load(w)
  PROVE  \A u \in Tasks : Owned(u)'
<1> DEFINE me == threads[w]
           t == me.task
           row == tasks[t]
           one == [me EXCEPT !.pc = "check", !.cur = row, !.preclaimed = FALSE]
           two == [me EXCEPT !.pc = "claim", !.cur = row]
<1>1. me.pc = "load" /\ UNCHANGED <<tasks, schedVars>> /\ w \in Threads
  BY ThreadNames DEF load, At
<1>2. me \in AThread /\ t \in Tasks
  BY <1>1, MyKnows DEF Resting
<1>3. ~ Helps(w, me, row, t)
  BY <1>1, ThreadNames DEF Helps
<1>4. CASE me.preclaimed /\ Goto(w, one)
  <2> HIDE DEF me, row
  <2>1. one.pc = "check" /\ one.task = t /\ one.cur = row
    BY <1>2 DEF AThread
  <2> HIDE DEF one
  <2>2. About(w, one, t) /\ Knows(one, tasks[t]) /\ Drives(one, tasks[t], t)
    BY <2>1 DEF About, Knows, Late, Drives, Has, Holding, me, row
  <2> QED BY <1>1, <1>2, <1>3, <1>4, <2>1, <2>2, MoveServed DEF me, row
<1>5. CASE ~ me.preclaimed /\ row.status \in {"created", "ready"} /\ Goto(w, two)
  <2>1. ~ Active(row)
    BY <1>5 DEF Active, ACTIVE_STATUSES
  <2> HIDE DEF me, row
  <2>2. two.pc = "claim" /\ two.task = t
    BY <1>2 DEF AThread
  <2> HIDE DEF two
  <2>3. About(w, two, t) /\ Knows(two, tasks[t])
    BY <2>2 DEF About, Knows, Late, me
  <2> QED BY <1>1, <1>2, <1>5, <2>1, <2>2, <2>3, MoveServed DEF row, me
<1>6. CASE ~ me.preclaimed /\ Goto(w, Done(w))
  <2>1. ~ Drives(me, row, t)
    BY <1>1, <1>6 DEF Drives
  <2>2. me.pc \notin Resting
    BY <1>1 DEF Resting
  <2> QED BY <1>1, <1>3, <1>6, <2>1, <2>2, DoneServed
<1> QED BY <1>4, <1>5, <1>6 DEF load

LEMMA ClaimServed ==
  ASSUME IInv, Served, NEW w \in Workers, claim(w)
  PROVE  \A u \in Tasks : Owned(u)'
<1> DEFINE me == threads[w]
           t == me.task
           to == ClaimTarget(me.cur.status)
           row == Transitioned(tasks[t], to)
           new == [me EXCEPT !.pc = "check", !.cur = row]
<1>1. me.pc = "claim" /\ UNCHANGED schedVars /\ w \in Threads
  BY ThreadNames DEF claim, At
<1>2. /\ me \in AThread /\ t \in Tasks /\ tasks[t] \in LiveRow /\ Owned(t) /\ RowOk(tasks[t])
      /\ me.cur.status \in {"created", "ready"} /\ me.pc \in Informed /\ me.pc \notin Resting
  BY <1>1, MyKnows DEF Resting, ThreadInv, Informed
<1>3. CASE Fresh(w) /\ Put(t, row) /\ Goto(w, new)
  <2>1. tasks[t].status = me.cur.status
    BY <1>1, <1>2, <1>3, FreshRow
  <2>2. /\ to \in {"probing", "crawling"} /\ to \in ACTIVE_STATUSES
        /\ to = "probing" => tasks[t].status = "created"
    BY <1>2, <2>1 DEF ClaimTarget, ACTIVE_STATUSES
  <2>3. tasks[t].resume_gate = "none"
    BY <1>2, <2>1 DEF RowOk
  <2> HIDE DEF to
  <2>4. Follows(row, tasks[t]) /\ row.status = to /\ row.status # "created" /\ RowOk(row)
    BY <1>2, <2>2, <2>3, WorkRow
  <2> HIDE DEF row, me
  <2>5. new.pc = "check" /\ new.task = t /\ new.cur = row
    BY <1>2 DEF AThread
  <2> HIDE DEF new
  <2>6. About(w, new, t) /\ Knows(new, row) /\ Drives(new, row, t)
    BY <2>5 DEF About, Knows, Late, Drives, Has, Holding, me
  <2>7. ASSUME NEW c \in Clients, Resumes(threads'[c], t)
        PROVE  row.status \notin {"probing", "validating"}
    <3>1. c \in Threads /\ c # w
      BY ThreadNames
    <3>2. threads'[c] = threads[c]
      BY <1>1, <1>3, <3>1, Moved
    <3>3. Busy(threads[c], t) /\ threads[c].pc \in Late
      BY <2>7, <3>2 DEF Resumes, Busy, Resting, Late
    <3>4. tasks[t].status # "created"
      BY <1>2, <3>1, <3>3 DEF Owned, Knows
    <3> QED BY <2>2, <2>4, <3>4
  <2> QED BY <1>1, <1>2, <1>3, <2>4, <2>6, <2>7, WorkServed
<1>4. CASE UNCHANGED tasks /\ Goto(w, Done(w))
  <2>1. ~ Drives(me, tasks[t], t) /\ ~ Helps(w, me, tasks[t], t)
    BY <1>1, ThreadNames DEF Drives, Helps
  <2> QED BY <1>1, <1>2, <1>4, <2>1, DoneServed
<1> QED BY <1>3, <1>4 DEF claim

\* Only the pc changes.
LEMMA PcServed ==
  ASSUME IInv, Served, NEW p \in Threads, NEW pc \in PCs, Step(p, pc),
         UNCHANGED <<tasks, schedVars>>, threads[p].pc \notin Resting,
         pc \notin {"schedule_resumed", "compensate", "request", "apply", "resume"},
         pc = "rollback" => threads[p].goal \in RESUMABLE_STATUSES,
         pc \in {"returned", "complete"} => threads[p].pc \in {"returned", "complete"},
         LET me == threads[p]
             t == me.task IN
           /\ pc \in Late => tasks[t].status # "created"
           /\ Active(tasks[t]) =>
                \A th :
                  th.pc = pc /\ th.task = t /\ th.cur = me.cur /\ th.latest = me.latest =>
                    /\ Drives(threads[p], tasks[t], t) => Drives(th, tasks[t], t)
                    /\ Helps(p, threads[p], tasks[t], t) => Helps(p, th, tasks[t], t)
  PROVE  \A u \in Tasks : Owned(u)'
<1> DEFINE me == threads[p]
           t == me.task
           new == [me EXCEPT !.pc = pc]
<1>1. /\ t \in Tasks /\ me \in AThread /\ Knows(me, tasks[t])
  BY MyKnows
<1>2. Goto(p, new)
  BY DEF Step
<1> HIDE DEF me
<1>3. /\ new.pc = pc /\ new.task = t /\ new.cur = me.cur
      /\ new.goal = me.goal /\ new.latest = me.latest
  BY <1>1, PcThread
<1> HIDE DEF new
<1>4. About(p, new, t)
  BY <1>3 DEF About, me
<1>5. Knows(new, tasks[t])
  BY <1>1, <1>3 DEF Knows, me
<1>6. Active(tasks[t]) => /\ Drives(threads[p], tasks[t], t) => Drives(new, tasks[t], t)
                          /\ Helps(p, threads[p], tasks[t], t) => Helps(p, new, tasks[t], t)
  BY <1>3 DEF me
<1> QED BY <1>1, <1>2, <1>3, <1>4, <1>5, <1>6, MoveServed

LEMMA CheckServed ==
  ASSUME IInv, Served, NEW w \in Workers, check_control(w)
  PROVE  \A u \in Tasks : Owned(u)'
<1> DEFINE me == threads[w]
           t == me.task
<1>1. me.pc = "check" /\ UNCHANGED <<tasks, schedVars>> /\ w \in Threads /\ me.pc \notin Resting
      /\ me.pc \in Informed
  BY ThreadNames DEF check_control, At, Resting, Informed
<1>2. Fresh(w) => tasks[t] = me.cur
  BY <1>1, FreshRow
<1>3. ~ Helps(w, me, tasks[t], t)
  BY <1>1, ThreadNames DEF Helps
<1>4. CASE me.cur.status \in ACTIVE_STATUSES /\ Fresh(w) /\ Step(w, "handler")
  <2>1. tasks[t].status # "created"
    BY <1>2, <1>4 DEF ACTIVE_STATUSES
  <2>2. \A th : th.pc = "handler" /\ th.task = t /\ th.cur = me.cur => Drives(th, tasks[t], t)
    BY <1>4 DEF Drives, Has, Holding, Fresh
  <2>3. "handler" \in PCs
    BY PCNames
  <2> QED BY <1>1, <1>3, <1>4, <2>1, <2>2, <2>3, PcServed
<1>5. CASE ~ (me.cur.status \in ACTIVE_STATUSES /\ Fresh(w)
                /\ tasks[t].status \notin {"paused", "cancelled"})
           /\ Goto(w, Done(w))
  <2>1. Active(tasks[t]) => ~ Drives(me, tasks[t], t)
    BY <1>1, <1>2, <1>5 DEF Drives, Active, Fresh, ACTIVE_STATUSES
  <2> QED BY <1>1, <1>3, <1>5, <2>1, DoneServed
<1> QED BY <1>4, <1>5 DEF check_control

LEMMA StopServed ==
  ASSUME IInv, Served, NEW w \in Workers, handler_stops(w)
  PROVE  \A u \in Tasks : Owned(u)'
<1>1. threads[w].pc = "handler" /\ UNCHANGED <<tasks, schedVars>> /\ w \in Threads
      /\ threads[w].pc \notin Resting /\ ~ Fresh(w) /\ Goto(w, Done(w))
  BY ThreadNames DEF handler_stops, At, Resting
<1>2. LET t == threads[w].task
      IN  ~ Drives(threads[w], tasks[t], t) /\ ~ Helps(w, threads[w], tasks[t], t)
  BY <1>1, ThreadNames DEF Drives, Helps, Fresh
<1> QED BY <1>1, <1>2, DoneServed

\* The handler's outcome is kept in goal.
LEMMA OutcomeServed ==
  ASSUME IInv, Served, NEW w \in Workers, threads[w].pc \in {"handler", "complete", "handoff"},
         NEW pc \in {"returned", "fail"}, NEW to,
         Goto(w, [threads[w] EXCEPT !.pc = pc, !.goal = to]),
         pc = "returned" => /\ threads[w].pc = "handler"
                            /\ to \in {"ready", "completed", "recoverable_failed"},
         UNCHANGED <<tasks, schedVars>>
  PROVE  \A u \in Tasks : Owned(u)'
<1> DEFINE me == threads[w]
           t == me.task
           new == [me EXCEPT !.pc = pc, !.goal = to]
<1>1. w \in Threads /\ me.pc \notin Resting
  BY ThreadNames DEF Resting
<1>2. me \in AThread /\ t \in Tasks /\ Knows(me, tasks[t])
  BY <1>1, MyKnows
<1>3. tasks[t].status # "created" \/ me.pc = "complete"
  BY <1>2 DEF Knows, Late
<1>4. tasks[t].status # "created"
  BY <1>2, <1>3 DEF Knows, Late
<1>5. ~ Helps(w, me, tasks[t], t)
  BY ThreadNames DEF Helps
<1> HIDE DEF me
<1>6. new.pc = pc /\ new.task = t /\ new.cur = me.cur /\ new.goal = to
  BY <1>2 DEF AThread
<1> HIDE DEF new
<1>7. About(w, new, t)
  BY <1>6 DEF About, me
<1>8. Knows(new, tasks[t])
  BY <1>4, <1>6 DEF Knows
<1>9. Drives(me, tasks[t], t) => Drives(new, tasks[t], t)
  BY <1>6 DEF Drives, Has, Holding, me
<1> QED BY <1>1, <1>2, <1>5, <1>6, <1>7, <1>8, <1>9, MoveServed DEF new, me

LEMMA HandlerServed ==
  ASSUME IInv, Served, NEW w \in Workers, handler_returns(w) \/ handler_raises(w)
  PROVE  \A u \in Tasks : Owned(u)'
<1>1. threads[w].pc = "handler" /\ UNCHANGED <<tasks, schedVars>>
  BY DEF handler_returns, handler_raises, At
<1>2. CASE handler_returns(w)
  <2>1. PICK to \in {"ready", "completed", "recoverable_failed"} :
          Goto(w, [threads[w] EXCEPT !.pc = "returned", !.goal = to])
    BY <1>2 DEF handler_returns
  <2> QED BY <1>1, <2>1, OutcomeServed
<1>3. CASE handler_raises(w)
  <2>1. PICK to \in {"recoverable_failed", "terminal_failed"} :
          Goto(w, [threads[w] EXCEPT !.pc = "fail", !.goal = to])
    BY <1>3 DEF handler_raises
  <2> QED BY <1>1, <2>1, OutcomeServed
<1> QED BY <1>2, <1>3

LEMMA RecheckServed ==
  ASSUME IInv, Served, NEW w \in Workers, recheck(w)
  PROVE  \A u \in Tasks : Owned(u)'
<1> DEFINE me == threads[w]
           t == me.task
<1>1. me.pc = "returned" /\ UNCHANGED <<tasks, schedVars>> /\ w \in Threads /\ me.pc \notin Resting
  BY ThreadNames DEF recheck, At, Resting
<1>2. ~ Helps(w, me, tasks[t], t)
  BY <1>1, ThreadNames DEF Helps
<1>3. CASE Fresh(w) /\ Step(w, "complete")
  <2>1. tasks[t].status # "created" /\ "complete" \in PCs
    BY <1>1, MyKnows, PCNames DEF Knows, Late
  <2>2. \A th : th.pc = "complete" /\ th.task = t /\ th.cur = me.cur => Drives(th, tasks[t], t)
    BY <1>3 DEF Drives, Has, Holding, Fresh
  <2> QED BY <1>1, <1>2, <1>3, <2>1, <2>2, PcServed
<1>4. CASE ~ Fresh(w) /\ Goto(w, Done(w))
  <2>1. ~ Drives(me, tasks[t], t)
    BY <1>1, <1>4 DEF Drives, Fresh
  <2> QED BY <1>1, <1>2, <1>4, <2>1, DoneServed
<1> QED BY <1>3, <1>4 DEF recheck

LEMMA CompleteServed ==
  ASSUME IInv, Served, NEW w \in Workers, complete(w)
  PROVE  \A u \in Tasks : Owned(u)'
<1> DEFINE me == threads[w]
           t == me.task
           row == Transitioned(tasks[t], me.goal)
           pc == IF row.status = "ready" THEN "handoff" ELSE "check"
           goal == NONE
           new == [me EXCEPT !.pc = pc, !.cur = row, !.goal = goal]
<1>1. me.pc = "complete" /\ UNCHANGED schedVars /\ w \in Threads /\ me.pc \notin Resting
      /\ me.pc \in Informed
  BY ThreadNames DEF complete, At, Resting, Informed
<1>2. CASE Fresh(w) /\ Put(t, row) /\ Goto(w, new)
  <2>1. /\ me \in AThread /\ t \in Tasks /\ tasks[t] \in LiveRow /\ RowOk(tasks[t])
        /\ me.goal \in {"ready", "completed", "recoverable_failed"} /\ tasks[t].status # "created"
    BY <1>1, MyKnows DEF Knows, Late
  <2>2. tasks[t].status \in ACTIVE_STATUSES
    BY <1>1, <1>2, FreshRow, MyKnows DEF ThreadInv, Working
  <2>3. tasks[t].resume_gate = "none"
    BY <2>1, <2>2 DEF RowOk, ACTIVE_STATUSES
  <2>4. me.goal \in TaskStatus \ (ACTIVE_STATUSES \cup {"created"})
    BY <2>1 DEF TaskStatus, ACTIVE_STATUSES, RESUMABLE_STATUSES, TERMINAL_STATUSES
  <2>5. Follows(row, tasks[t]) /\ ~ Active(row) /\ row.status # "created" /\ RowOk(row)
    BY <2>1, <2>3, <2>4, RestRow
  <2>6. pc \in {"handoff", "check"}
    OBVIOUS
  <2> HIDE DEF row, me, goal, pc
  <2>7. new.pc = pc /\ new.task = t
    BY <2>1 DEF AThread
  <2> HIDE DEF new
  <2>8. About(w, new, t) /\ Knows(new, row)
    BY <2>5, <2>6, <2>7 DEF About, Knows, Late, me
  <2> QED BY <1>1, <1>2, <2>1, <2>5, <2>8, RestServed
<1>3. CASE Goto(w, Conflicted(w)) /\ UNCHANGED tasks
  BY <1>1, <1>3, OutcomeServed DEF Conflicted
<1> QED BY <1>2, <1>3 DEF complete

LEMMA HandoffServed ==
  ASSUME IInv, Served, NEW w \in Workers, ready_handoff(w)
  PROVE  \A u \in Tasks : Owned(u)'
<1> DEFINE me == threads[w]
           t == me.task
           row == Transitioned(tasks[t], "crawling")
           new == [me EXCEPT !.pc = "check", !.cur = row]
<1>1. me.pc = "handoff" /\ UNCHANGED schedVars /\ w \in Threads /\ me.pc \notin Resting
      /\ me.pc \in Informed
  BY ThreadNames DEF ready_handoff, At, Resting, Informed
<1>2. CASE Fresh(w) /\ Put(t, row) /\ Goto(w, new)
  <2>1. /\ me \in AThread /\ t \in Tasks /\ tasks[t] \in LiveRow /\ RowOk(tasks[t])
    BY <1>1, MyKnows
  <2>2. tasks[t].status = "ready"
    BY <1>1, <1>2, FreshRow, MyKnows DEF ThreadInv
  <2>3. tasks[t].resume_gate = "none"
    BY <2>1, <2>2 DEF RowOk
  <2>4. Follows(row, tasks[t]) /\ row.status = "crawling" /\ row.status # "created" /\ RowOk(row)
    BY <2>1, <2>3, WorkRow DEF ACTIVE_STATUSES
  <2> HIDE DEF row, me
  <2>5. new.pc = "check" /\ new.task = t /\ new.cur = row
    BY <2>1 DEF AThread
  <2> HIDE DEF new
  <2>6. About(w, new, t) /\ Knows(new, row) /\ Drives(new, row, t)
    BY <2>5 DEF About, Knows, Late, Drives, Has, Holding, me
  <2>7. row.status \notin {"probing", "validating"}
    BY <2>4
  <2> QED BY <1>1, <1>2, <2>1, <2>4, <2>6, <2>7, WorkServed
<1>3. CASE Goto(w, Conflicted(w)) /\ UNCHANGED tasks
  BY <1>1, <1>3, OutcomeServed DEF Conflicted
<1> QED BY <1>2, <1>3 DEF ready_handoff

LEMMA RecordServed ==
  ASSUME IInv, Served, NEW w \in Workers, record_failure(w)
  PROVE  \A u \in Tasks : Owned(u)'
<1> DEFINE me == threads[w]
           t == me.task
           latest == tasks[t].version
           new == [me EXCEPT !.pc = "fail_cas", !.latest = latest]
<1>1. me.pc = "fail" /\ UNCHANGED <<tasks, schedVars>> /\ w \in Threads /\ me.pc \notin Resting
  BY ThreadNames DEF record_failure, At, Resting
<1>2. ~ Helps(w, me, tasks[t], t)
  BY <1>1, ThreadNames DEF Helps
<1>3. CASE tasks[t].status \in TERMINAL_STATUSES \cup RESUMABLE_STATUSES /\ Goto(w, Done(w))
  <2>1. ~ Active(tasks[t])
    BY <1>3 DEF Active, ACTIVE_STATUSES, TERMINAL_STATUSES, RESUMABLE_STATUSES
  <2> QED BY <1>1, <1>3, <2>1, DoneServed
<1>4. CASE Goto(w, new)
  <2>1. me \in AThread /\ t \in Tasks /\ tasks[t].status # "created"
    BY <1>1, MyKnows DEF Knows, Late
  <2> HIDE DEF me, latest
  <2>2. new.pc = "fail_cas" /\ new.task = t /\ new.latest = latest
    BY <2>1 DEF AThread
  <2> HIDE DEF new
  <2>3. About(w, new, t) /\ Knows(new, tasks[t]) /\ Drives(new, tasks[t], t)
    BY <2>1, <2>2 DEF About, Knows, Late, Drives, Has, Holding, me, latest
  <2> QED BY <1>1, <1>2, <1>4, <2>1, <2>2, <2>3, MoveServed DEF me
<1> QED BY <1>3, <1>4 DEF record_failure

\* An active row may be failed.
LEMMA MayFail ==
  ASSUME NEW row, row.status \in ACTIVE_STATUSES, row.resume_gate = "none",
         NEW to \in Failures \cup RESUMABLE_STATUSES
  PROVE  CanTransition(row, to)
BY DEF CanTransition, ALLOWED_TRANSITIONS, Failures, RESUMABLE_STATUSES, ACTIVE_STATUSES

LEMMA RecordCasServed ==
  ASSUME IInv, Served, NEW w \in Workers, record_failure_cas(w)
  PROVE  \A u \in Tasks : Owned(u)'
<1> DEFINE me == threads[w]
           t == me.task
           row == Transitioned(tasks[t], me.goal)
           tries == me.tries + 1
           latest == 0
           new == [me EXCEPT !.pc = "fail", !.latest = latest, !.tries = tries]
           writes == tasks[t].version = me.latest /\ CanTransition(tasks[t], me.goal)
<1>1. me.pc = "fail_cas" /\ UNCHANGED schedVars /\ w \in Threads /\ me.pc \notin Resting
  BY ThreadNames DEF record_failure_cas, At, Resting
<1>2. ~ Helps(w, me, tasks[t], t)
  BY <1>1, ThreadNames DEF Helps
<1>3. /\ me \in AThread /\ t \in Tasks /\ tasks[t] \in LiveRow /\ RowOk(tasks[t])
      /\ tasks[t].status # "created" /\ me.goal \in Failures
  BY <1>1, MyKnows DEF Knows, Late, ThreadInv
<1>4. CASE writes /\ Put(t, row) /\ Goto(w, Done(w))
  <2>1. me.goal \in TaskStatus \ (ACTIVE_STATUSES \cup {"created"})
    BY <1>3 DEF Failures, TaskStatus, ACTIVE_STATUSES, RESUMABLE_STATUSES, TERMINAL_STATUSES
  <2>2. tasks[t].resume_gate = "none" \/ me.goal \in Exits
    BY <1>3, <1>4 DEF CanTransition, LiveRow, ResumeGate
  <2>3. Follows(row, tasks[t]) /\ ~ Active(row) /\ row.status # "created" /\ RowOk(row)
    BY <1>3, <2>1, <2>2, RestRow
  <2> HIDE DEF row
  <2> QED BY <1>1, <1>4, <2>3, RestDone
<1>5. CASE ~ writes /\ UNCHANGED tasks /\ Goto(w, Done(w))
  <2>1. Active(tasks[t]) => CanTransition(tasks[t], me.goal)
    BY <1>3, MayFail, ActiveRow DEF Active, ACTIVE_STATUSES
  <2>2. Active(tasks[t]) => ~ Drives(me, tasks[t], t)
    BY <1>1, <1>5, <2>1 DEF Drives
  <2> QED BY <1>1, <1>2, <1>5, <2>2, DoneServed
<1>6. CASE ~ writes /\ UNCHANGED tasks /\ Goto(w, new)
  <2> HIDE DEF me, latest, tries, writes
  <2>1. new.pc = "fail" /\ new.task = t
    BY <1>3 DEF AThread
  <2> HIDE DEF new
  <2>2. About(w, new, t) /\ Knows(new, tasks[t]) /\ Drives(new, tasks[t], t)
    BY <1>3, <2>1 DEF About, Knows, Late, Drives, Has, Holding, me
  <2> QED BY <1>1, <1>2, <1>3, <1>6, <2>1, <2>2, MoveServed DEF me
<1> QED BY <1>4, <1>5, <1>6 DEF record_failure_cas

-----------------------------------------------------------------------------
(* The steps workers and clients share. *)

LEMMA AppliedRest ==
  ASSUME NEW row \in LiveRow, RowOk(row), row.resume_gate = "none", row.status # "created",
         NEW kind \in ResolutionKind, kind # "registered"
  PROVE  LET new == Applied(row, kind) IN
         \/ new = row /\ ~ Active(row)
         \/ Follows(new, row) /\ ~ Active(new) /\ new.status # "created" /\ RowOk(new)
<1>1. \A to \in {"waiting_for_user", "terminal_failed", "cancelled", "recoverable_failed"} :
        LET new == Transitioned(row, to) IN
        Follows(new, row) /\ ~ Active(new) /\ new.status # "created" /\ RowOk(new)
  BY RestRow DEF TaskStatus, ACTIVE_STATUSES, TERMINAL_STATUSES, RESUMABLE_STATUSES
<1>2. /\ Follows(Gated(row), row) /\ ~ Active(Gated(row))
      /\ Gated(row).status # "created" /\ RowOk(Gated(row))
  <2>1. Gated(row).resume_status # "created"
    BY DEF Gated, RowOk
  <2> QED BY <2>1, GatedRow DEF Active, RowOk, ACTIVE_STATUSES
<1>3. /\ Follows(Lost(row), row) /\ ~ Active(Lost(row))
      /\ Lost(row).status # "created" /\ RowOk(Lost(row))
  <2>1. Lost(row).resume_status # "created"
    BY DEF Lost
  <2> QED BY <2>1, LostRow DEF Active, RowOk, ACTIVE_STATUSES
<1>4. row.status = "waiting_for_user" => ~ Active(row)
  BY DEF Active, ACTIVE_STATUSES
<1>5. kind \in {"waiting", "rejected", "cancelled", "cleanup_required", "failed"}
  BY DEF ResolutionKind
<1>6. CASE kind = "waiting"
  BY <1>1, <1>4, <1>6 DEF Applied
<1>7. CASE kind = "rejected"
  BY <1>1, <1>7 DEF Applied
<1>8. CASE kind = "cancelled"
  BY <1>1, <1>8 DEF Applied
<1>9. CASE kind = "cleanup_required"
  BY <1>2, <1>9 DEF Applied
<1>10. CASE kind = "failed"
  BY <1>1, <1>3, <1>10 DEF Applied
<1> QED BY <1>5, <1>6, <1>7, <1>8, <1>9, <1>10

LEMMA SameRow ==
  ASSUME IInv, NEW t \in Tasks, Put(t, tasks[t])
  PROVE  UNCHANGED tasks
BY MyTypes DEF Types, Put

\* An answer is applied by the probe handler, or by a client to a task that waits for it.
LEMMA ApplyServed ==
  ASSUME IInv, Served, Undisturbed, NEW p \in Threads, NEW kind \in Kinds, apply_result(p, kind),
         \/ p \in Workers /\ threads[p].pc = "handler" /\ threads[p].cur.status = "probing"
         \/ p \in Clients /\ threads[p].pc = "apply"
  PROVE  \A u \in Tasks : Owned(u)'
<1> DEFINE me == threads[p]
           t == me.task
           row == IF Fresh(p) THEN Applied(tasks[t], kind) ELSE tasks[t]
           new == [me EXCEPT !.pc = "schedule", !.cur = row]
<1>1. Put(t, row) /\ UNCHANGED schedVars /\ me.pc \notin Resting /\ me.pc \in Informed
  BY DEF apply_result, Resting, Informed
<1>2. /\ me \in AThread /\ t \in Tasks /\ tasks[t] \in LiveRow /\ RowOk(tasks[t]) /\ Owned(t)
      /\ tasks[t].status # "created" /\ kind \in ResolutionKind
  BY <1>1, MyKnows, ExecutorAssumption DEF Knows, Late
<1>3. ~ Helps(p, me, tasks[t], t)
  BY ThreadNames DEF Helps
<1>4. ~ Fresh(p) => ~ Drives(me, tasks[t], t)
  BY ThreadNames DEF Drives, Has, Holding, Fresh
<1>5. Fresh(p) => /\ \/ tasks[t].status = "probing"
                     \/ p \in Clients /\ tasks[t].status = "waiting_for_user"
                  /\ tasks[t].resume_gate = "none"
  <2>1. me.pc = "apply" => me.cur.status = "waiting_for_user"
    BY <1>1, MyKnows DEF Knows
  <2>2. Fresh(p) => tasks[t] = me.cur
    BY <1>1, FreshRow
  <2> QED BY <1>2, <2>1, <2>2 DEF RowOk
<1>6. CASE kind = "registered" /\ row.status \in ACTIVE_STATUSES /\ Goto(p, new)
  <2>1. new.pc = "schedule" /\ new.task = t /\ new.cur = row
    BY <1>2 DEF AThread
  <2> HIDE DEF new
  <2>2. Helps(p, new, row, t)
    BY <2>1, ThreadNames DEF Helps
  <2>3. About(p, new, t)
    BY <2>1 DEF About
  <2>4. CASE Fresh(p)
    <3>1. row = Transitioned(tasks[t], "validating")
      BY <1>6, <2>4 DEF Applied
    <3>2. Follows(row, tasks[t]) /\ row.status # "created" /\ RowOk(row)
      BY <1>2, <1>5, <2>4, <3>1, WorkRow DEF ACTIVE_STATUSES
    <3>3. Knows(new, row)
      BY <2>1, <3>2 DEF Knows, Late
    <3>4. ASSUME NEW c \in Clients, Resumes(threads'[c], t) PROVE FALSE
      <4>1. threads'[p] = new /\ c \in Threads
        BY <1>6, Moved, ThreadNames
      <4>2. c # p
        BY <2>1, <3>4, <4>1 DEF Resumes
      <4>3. Resumes(threads[c], t)
        BY <1>6, <3>4, <4>1, <4>2, Moved
      <4>4. p \in Workers
        BY <4>2 DEF Undisturbed
      <4>5. tasks[t].status = "probing"
        BY <1>5, <2>4, <4>4, ThreadNames
      <4> QED BY <1>2, <4>3, <4>5 DEF Owned
    <3> HIDE DEF row
    <3> QED BY <1>1, <1>2, <1>6, <2>2, <2>3, <3>2, <3>3, <3>4, WorkServed
  <2>5. CASE ~ Fresh(p)
    <3>1. row = tasks[t] /\ UNCHANGED tasks
      BY <1>1, <1>2, <2>5, SameRow
    <3>2. Knows(new, tasks[t])
      BY <1>2, <2>1 DEF Knows, Late
    <3> QED BY <1>1, <1>2, <1>3, <1>4, <1>6, <2>1, <2>3, <2>5, <3>1, <3>2, MoveServed
  <2> QED BY <2>4, <2>5
<1>7. CASE ~ (kind = "registered" /\ row.status \in ACTIVE_STATUSES) /\ Goto(p, Done(p))
  <2>1. CASE ~ Fresh(p)
    <3>1. UNCHANGED tasks
      BY <1>1, <1>2, <2>1, SameRow
    <3> QED BY <1>1, <1>3, <1>4, <1>7, <2>1, <3>1, DoneServed
  <2>2. CASE Fresh(p)
    <3>1. row = Applied(tasks[t], kind)
      BY <2>2
    <3>2. kind # "registered"
      <4>1. kind = "registered" => row = Transitioned(tasks[t], "validating")
        BY <3>1 DEF Applied
      <4> QED BY <1>7, <4>1 DEF Transitioned, ACTIVE_STATUSES
    <3> HIDE DEF row
    <3>3. \/ row = tasks[t] /\ ~ Active(tasks[t])
          \/ Follows(row, tasks[t]) /\ ~ Active(row) /\ row.status # "created" /\ RowOk(row)
      BY <1>2, <1>5, <2>2, <3>1, <3>2, AppliedRest
    <3>4. CASE row = tasks[t] /\ ~ Active(tasks[t])
      <4>1. UNCHANGED tasks
        BY <1>1, <1>2, <3>4, SameRow
      <4> QED BY <1>1, <1>7, <3>4, <4>1, DoneServed
    <3>5. CASE Follows(row, tasks[t]) /\ ~ Active(row) /\ row.status # "created" /\ RowOk(row)
      BY <1>1, <1>7, <3>5, RestDone
    <3> QED BY <3>3, <3>4, <3>5
  <2> QED BY <2>1, <2>2
<1> QED BY <1>6, <1>7 DEF apply_result

LEMMA FailUnscheduledServed ==
  ASSUME IInv, Served, NEW p \in Threads, fail_unscheduled(p)
  PROVE  \A u \in Tasks : Owned(u)'
<1> DEFINE me == threads[p]
           t == me.task
           row == Transitioned(tasks[t], "recoverable_failed")
<1>1. /\ me.pc = "unscheduled" /\ UNCHANGED schedVars /\ Goto(p, Done(p)) /\ me.pc \notin Resting
      /\ me.pc \in Informed /\ Put(t, IF Fresh(p) THEN row ELSE tasks[t])
  BY DEF fail_unscheduled, At, Resting, Informed
<1>2. /\ t \in Tasks /\ tasks[t] \in LiveRow /\ RowOk(tasks[t]) /\ tasks[t].status # "created"
  BY <1>1, MyKnows DEF Knows, Late
<1>3. CASE Fresh(p)
  <2>1. tasks[t].status \in ACTIVE_STATUSES
    BY <1>1, <1>3, FreshRow, MyKnows DEF ThreadInv, Working
  <2>2. tasks[t].resume_gate = "none"
    BY <1>2, <2>1 DEF RowOk, ACTIVE_STATUSES
  <2>3. Follows(row, tasks[t]) /\ ~ Active(row) /\ row.status # "created" /\ RowOk(row)
    BY <1>2, <2>2, RestRow DEF TaskStatus, ACTIVE_STATUSES, RESUMABLE_STATUSES
  <2> HIDE DEF row
  <2> QED BY <1>1, <1>3, <2>3, RestDone
<1>4. CASE ~ Fresh(p)
  <2>1. UNCHANGED tasks
    BY <1>1, <1>2, <1>4, SameRow
  <2>2. ~ Drives(me, tasks[t], t) /\ ~ Helps(p, me, tasks[t], t)
    BY <1>1, <1>4 DEF Drives, Helps, Fresh
  <2> QED BY <1>1, <2>1, <2>2, DoneServed
<1> QED BY <1>3, <1>4

LEMMA RollbackServed ==
  ASSUME IInv, Served, NEW p \in Threads, rollback_resume(p)
  PROVE  \A u \in Tasks : Owned(u)'
<1> DEFINE me == threads[p]
           t == me.task
           row == Transitioned(tasks[t], me.goal)
           read == tasks[t]
           tries == me.tries + 1
           again == [me EXCEPT !.cur = read, !.tries = tries]
<1>1. /\ me.pc = "rollback" /\ UNCHANGED schedVars /\ me.pc \notin Resting /\ me.pc \in Informed
  BY DEF rollback_resume, At, Resting, Informed
<1>2. /\ me \in AThread /\ t \in Tasks /\ tasks[t] \in LiveRow /\ RowOk(tasks[t])
      /\ tasks[t].status # "created" /\ me.goal \in RESUMABLE_STATUSES
  BY <1>1, MyKnows DEF Knows, Late
<1>3. ~ Drives(me, tasks[t], t)
  BY <1>1 DEF Drives
<1>4. ASSUME NEW th, th.pc \in Resting, Goto(p, th), UNCHANGED tasks,
             Active(tasks[t]) => ~ Fresh(p)
      PROVE  \A u \in Tasks : Owned(u)'
  <2>1. Active(tasks[t]) => ~ Helps(p, me, tasks[t], t)
    BY <1>1, <1>4 DEF Helps, Fresh
  <2>2. About(p, th, t) /\ ~ Busy(th, t) /\ th.pc # "schedule_resumed"
    BY <1>4 DEF About, Busy, Resting
  <2> QED BY <1>1, <1>2, <1>3, <1>4, <2>1, <2>2, MoveServed
<1>5. Idle.pc \in Resting /\ [Idle EXCEPT !.pc = "dead"].pc \in Resting
  BY DEF Idle, Resting
<1>6. CASE /\ me.cur.status \in TERMINAL_STATUSES \cup RESUMABLE_STATUSES
           /\ Goto(p, Idle) /\ UNCHANGED tasks
  <2>1. Active(tasks[t]) => ~ Fresh(p)
    BY <1>1, <1>6, FreshRow DEF Active, ACTIVE_STATUSES, TERMINAL_STATUSES, RESUMABLE_STATUSES
  <2> QED BY <1>4, <1>5, <1>6, <2>1
<1>7. CASE CanTransition(tasks[t], me.goal) /\ Put(t, row) /\ Goto(p, Idle)
  <2>1. me.goal \in TaskStatus \ (ACTIVE_STATUSES \cup {"created"})
    BY <1>2 DEF TaskStatus, ACTIVE_STATUSES, RESUMABLE_STATUSES
  <2>2. tasks[t].resume_gate = "none" \/ me.goal \in Exits
    BY <1>2, <1>7 DEF CanTransition, LiveRow, ResumeGate
  <2>3. Follows(row, tasks[t]) /\ ~ Active(row) /\ row.status # "created" /\ RowOk(row)
    BY <1>2, <2>1, <2>2, RestRow
  <2>4. About(p, Idle, t) /\ ~ Busy(Idle, t)
    BY <1>5 DEF About, Busy
  <2> HIDE DEF row
  <2> QED BY <1>1, <1>2, <1>7, <2>3, <2>4, RestServed
<1>8. CASE Fresh(p) /\ ~ CanTransition(tasks[t], me.goal) /\ RollbackFailed(p) /\ UNCHANGED tasks
  <2>1. ~ Active(tasks[t])
    BY <1>2, <1>8, MayFail, ActiveRow DEF Active, ACTIVE_STATUSES
  <2> QED BY <1>4, <1>5, <1>8, <2>1 DEF RollbackFailed
<1>9. CASE ~ Fresh(p) /\ RollbackFailed(p) /\ UNCHANGED tasks
  BY <1>4, <1>5, <1>9 DEF RollbackFailed
<1>10. CASE ~ Fresh(p) /\ Goto(p, again) /\ UNCHANGED tasks
  <2>1. ~ Helps(p, me, tasks[t], t)
    BY <1>1, <1>10, ThreadNames DEF Helps, Fresh
  <2> HIDE DEF me, read, tries
  <2>2. again.pc = "rollback" /\ again.task = t /\ again.goal = me.goal
    BY <1>1, <1>2 DEF AThread
  <2> HIDE DEF again
  <2>3. About(p, again, t) /\ Knows(again, tasks[t])
    BY <1>2, <2>2 DEF About, Knows, Late, me
  <2> QED BY <1>1, <1>2, <1>3, <1>10, <2>1, <2>2, <2>3, MoveServed DEF me
<1> QED BY <1>6, <1>7, <1>8, <1>9, <1>10 DEF rollback_resume

-----------------------------------------------------------------------------
(* The queue and what is recorded for later. *)

\* The queue has room for a task that has no place.
LEMMA Room ==
  ASSUME IInv, Undisturbed, NEW t \in Tasks, t \notin scheduled
  PROVE  ~ Full
<1> DEFINE n == Len(queue)
           f == [i \in 1..n |-> queue[i].task]
           Rest == Tasks \ {t}
<1>0. n \in Nat
  BY MyTypes, LenProperties DEF Types
<1> HIDE DEF n
<1>1. n \in Nat /\ IsFiniteSet(1..n) /\ Cardinality(1..n) = n
  BY <1>0, FS_Interval
<1>2. \A i \in 1..n : queue[i].task \in Rest
  BY QueuedItem, MyTypes DEF IInv, OwnInv, n
<1>3. \A i, j \in 1..n : queue[i].task = queue[j].task => i = j
  BY DEF IInv, OwnInv, n
<1>6. f \in Injection(1..n, Rest)
  BY <1>2, <1>3 DEF Injection, IsInjective
<1>4. IsFiniteSet(Tasks) /\ IsFiniteSet(Rest) /\ Cardinality(Rest) = Cardinality(Tasks) - 1
      /\ Cardinality(Tasks) \in Nat
  BY FS_RemoveElement, FS_CardinalityType DEF Undisturbed
<1>5. n <= Cardinality(Rest)
  BY <1>1, <1>4, <1>6, FS_Injection
<1> QED BY <1>1, <1>4, <1>5, ExecutorAssumption DEF Full, Undisturbed, n

LEMMA EnqueueServed ==
  ASSUME IInv, Served, NEW p \in Threads, NEW th, Goto(p, th), NEW t \in Tasks, About(p, th, t),
         th.pc \in {"idle", "finish"}, tasks[t] \in LiveRow,
         UNCHANGED tasks, t \notin scheduled, NEW preclaimed \in BOOLEAN, NEW version \in Nat,
         Enqueue(t, preclaimed, version), version <= tasks[t].version,
         \/ preclaimed
         \/ /\ Active(tasks[t]) => version # tasks[t].version
            /\ ~ Helps(p, threads[p], tasks[t], t)
  PROVE  Versions' /\ \A u \in Tasks : Owned(u)'
<1> DEFINE item == [task |-> t, preclaimed |-> preclaimed]
           n == Len(queue)
<1>1. item \in Item /\ item.task = t /\ item.preclaimed = preclaimed
  BY DEF Item
<1>2. /\ queue' = Append(queue, item) /\ scheduled' = scheduled \cup {t}
      /\ UNCHANGED pending_resumes
      /\ scheduled_versions' = [scheduled_versions EXCEPT ![t] = version]
  BY DEF Enqueue
<1> HIDE DEF item
<1>3. /\ Len(queue') = n + 1 /\ n \in Nat
      /\ \A i \in 1..n : queue'[i] = queue[i]
      /\ queue'[n + 1] = item
      /\ \A i \in 1..Len(queue') : i \in 1..n \/ i = n + 1
  BY <1>1, <1>2, MyTypes, Appended
<1>4. n + 1 \in 1..Len(queue') /\ 1..n \subseteq 1..Len(queue')
  BY <1>3
<1>5. Versions'
  BY <1>2 DEF Versions, Served
<1>6. \A u \in Tasks : Waits(u)' <=> Waits(u) \/ (u = t /\ preclaimed)
  <2> SUFFICES ASSUME NEW u \in Tasks
               PROVE  (\E i \in 1..Len(queue') : queue'[i].task = u /\ queue'[i].preclaimed)
                        <=> \/ \E i \in 1..n : queue[i].task = u /\ queue[i].preclaimed
                            \/ u = t /\ preclaimed
    BY DEF Waits
  <2> HIDE DEF n
  <2> QED BY <1>1, <1>3, <1>4
<1>7. Only(t)
  BY <1>2, <1>6 DEF Only, Served, Versions
<1>8. /\ threads'[p] = th
      /\ \A q \in Threads : q # p => threads'[q] = threads[q]
  BY Moved
<1>9. ~ Drives(threads[p], tasks[t], t) \/ p \notin Workers
  BY DEF IInv, OwnInv, Drives
<1>10. Driven(t) => Driven(t)'
  BY <1>8, <1>9, ThreadNames DEF Driven
<1>11. ~ preclaimed /\ Helped(t) => Helped(t)'
  BY <1>8 DEF Helped
<1>12. (Carried(t) => Carried(t)') /\ (preclaimed => Carried(t)')
  BY <1>2, <1>6, <1>10 DEF Carried
<1>13. scheduled_versions'[t] = version /\ t \in scheduled'
  BY <1>2 DEF Served, Versions
<1>14. Noted(t)'
  BY <1>2, <1>13 DEF Noted, Served, Owned
<1>15. \A q \in Threads : Busy(threads'[q], t) => Knows(threads'[q], tasks'[t])
  BY <1>8 DEF Served, Owned, Knows, Late
<1>16. ~ Resumes(th, t)
  BY DEF Resumes
<1>17. \A c \in Clients : Resumes(threads'[c], t) =>
         /\ tasks'[t].status \notin {"probing", "validating"}
         /\ Active(tasks'[t]) => Driven(t)'
  BY <1>8, <1>10, <1>16, ThreadNames DEF Served, Owned
<1>18. Active(tasks'[t]) => Carried(t)' \/ Helped(t)'
  BY <1>11, <1>12 DEF Served, Owned
<1>19. Active(tasks'[t]) /\ scheduled_versions'[t] = tasks'[t].version => Carried(t)'
  BY <1>12, <1>13
<1>20. Owned(t)'
  BY <1>14, <1>15, <1>17, <1>18, <1>19 DEF Served, Owned
<1> QED BY <1>5, <1>7, <1>20, StepServed

LEMMA PendingServed ==
  ASSUME IInv, Served, NEW p \in Threads, NEW th, Goto(p, th), NEW t \in Tasks, About(p, th, t),
         th.pc \in {"idle", "finish"}, tasks[t] \in LiveRow, tasks[t].status # "created",
         UNCHANGED <<tasks, queue, scheduled>>, t \in scheduled,
         NEW preclaimed \in BOOLEAN, NEW rollback \in RESUMABLE_STATUSES,
         scheduled_versions' = [scheduled_versions EXCEPT ![t] = tasks[t].version],
         pending_resumes' = [pending_resumes EXCEPT ![t] =
           [preclaimed |-> preclaimed, rollback |-> rollback]],
         ~ Drives(threads[p], tasks[t], t), preclaimed \/ (Active(tasks[t]) => Driven(t))
  PROVE  Versions' /\ \A u \in Tasks : Owned(u)'
<1>1. tasks[t].version \in Nat
  BY RowFacts
<1>2. Versions' /\ scheduled_versions'[t] = tasks[t].version
  BY <1>1 DEF Versions, Served
<1>3. pending_resumes'[t].preclaimed = preclaimed /\ pending_resumes'[t].rollback = rollback
  BY MyTypes DEF Types
<1>4. Only(t)
  BY MyTypes DEF Only, Types, Waits, Served, Versions
<1>5. /\ threads'[p] = th
      /\ \A q \in Threads : q # p => threads'[q] = threads[q]
  BY Moved
<1>6. Driven(t) => Driven(t)'
  BY <1>5, ThreadNames DEF Driven
<1>7. Active(tasks'[t]) => Carried(t)'
  BY <1>3, <1>6 DEF Carried
<1>8. Noted(t)'
  BY <1>1, <1>2, <1>3 DEF Noted, Served, Owned
<1>9. \A q \in Threads : Busy(threads'[q], t) => Knows(threads'[q], tasks'[t])
  BY <1>5 DEF Served, Owned, Knows, Late
<1>10. ~ Resumes(th, t)
  BY DEF Resumes
<1>11. \A c \in Clients : Resumes(threads'[c], t) =>
         /\ tasks'[t].status \notin {"probing", "validating"}
         /\ Active(tasks'[t]) => Driven(t)'
  BY <1>5, <1>6, <1>10, ThreadNames DEF Served, Owned
<1>12. Owned(t)'
  BY <1>7, <1>8, <1>9, <1>11 DEF Served, Owned
<1> QED BY <1>2, <1>4, <1>12, StepServed

LEMMA ScheduleActiveServed ==
  ASSUME IInv, Served, Undisturbed, NEW p \in Workers \cup Clients, schedule_active(p)
  PROVE  Versions' /\ \A u \in Tasks : Owned(u)'
<1> DEFINE me == threads[p]
           t == me.task
<1>1. me.pc = "schedule" /\ UNCHANGED tasks /\ p \in Threads /\ me.pc \notin Resting
  BY ThreadNames DEF schedule_active, At, Resting
<1>2. /\ t \in Tasks /\ tasks[t] \in LiveRow /\ tasks[t].status # "created" /\ Owned(t)
      /\ ~ Drives(me, tasks[t], t) /\ tasks[t].version \in Nat
  BY <1>1, MyKnows, RowFacts DEF Knows, Late, Drives, Has, Holding
<1>3. Done(p).pc \in {"idle", "finish"} /\ About(p, Done(p), t) /\ Knows(Done(p), tasks[t])
  BY DoneKnows DEF About
<1>4. PICK raised \in BOOLEAN :
        /\ ScheduleActive(t, raised)
        /\ IF raised THEN Step(p, "unscheduled") ELSE Goto(p, Done(p))
  BY DEF schedule_active
<1>5. CASE raised
  <2>1. UNCHANGED schedVars /\ Step(p, "unscheduled") /\ (closing \/ (t \notin scheduled /\ Full))
    BY <1>4, <1>5 DEF ScheduleActive
  <2>2. p \in Workers
    BY <1>1, <1>2, <2>1, Room DEF Served, Open
  <2>3. \A th : th.pc = "unscheduled" /\ th.task = t /\ th.cur = me.cur =>
          (Helps(p, me, tasks[t], t) => Helps(p, th, tasks[t], t))
    BY <1>1, <2>2, ThreadNames DEF Helps
  <2>4. Versions'
    BY <2>1 DEF Versions, Served, schedVars
  <2> QED BY <1>1, <1>2, <2>1, <2>3, <2>4, PcServed, PCNames
<1>6. CASE ~ raised /\ UNCHANGED schedVars /\ ~ Active(tasks[t])
  <2>1. Versions'
    BY <1>6 DEF Versions, Served, schedVars
  <2> QED BY <1>1, <1>4, <1>6, <2>1, DoneServed
<1>7. CASE ~ raised /\ Active(tasks[t]) /\ t \notin scheduled /\ Enqueue(t, TRUE, tasks[t].version)
  <2> DEFINE version == tasks[t].version
  <2>1. PICK yes \in BOOLEAN : yes /\ Enqueue(t, yes, version)
    BY <1>7
  <2>2. version \in Nat /\ version <= tasks[t].version
    BY <1>2
  <2>3. Goto(p, Done(p)) /\ t \notin scheduled
    BY <1>4, <1>7
  <2> HIDE DEF version
  <2> QED BY <1>1, <1>2, <1>3, <2>1, <2>2, <2>3, EnqueueServed
<1>8. CASE /\ ~ raised /\ Active(tasks[t]) /\ UNCHANGED schedVars
           /\ scheduled_versions[t] >= tasks[t].version
  <2>1. Versions'
    BY <1>8 DEF Versions, Served, schedVars
  <2>2. scheduled_versions[t] \in Int /\ scheduled_versions[t] <= tasks[t].version
    BY <1>2 DEF Served, Versions, Owned, Noted
  <2>3. Carried(t)
    BY <1>2, <1>8, <2>2 DEF Owned
  <2> QED BY <1>1, <1>2, <1>3, <1>4, <1>8, <2>1, <2>3, MoveServed
<1>9. CASE /\ ~ raised /\ Active(tasks[t]) /\ t \in scheduled /\ UNCHANGED <<queue, scheduled>>
           /\ scheduled_versions' = [scheduled_versions EXCEPT ![t] = tasks[t].version]
           /\ pending_resumes' = [pending_resumes EXCEPT ![t] =
                [preclaimed |-> TRUE, rollback |-> "recoverable_failed"]]
  <2>1. "recoverable_failed" \in RESUMABLE_STATUSES /\ TRUE \in BOOLEAN
    BY DEF RESUMABLE_STATUSES
  <2> QED BY <1>1, <1>2, <1>3, <1>4, <1>9, <2>1, PendingServed
<1> QED BY <1>4, <1>5, <1>6, <1>7, <1>8, <1>9 DEF ScheduleActive, Active

\* A task that is somebody's in the executor has its place.
LEMMA PlacedOut ==
  ASSUME IInv, NEW t \in Tasks, t \notin scheduled
  PROVE  ~ Carried(t) /\ ~ Driven(t) /\ ~ Waits(t)
<1>1. ~ Waits(t)
  BY DEF IInv, OwnInv, Waits
<1>2. ~ Driven(t)
  BY DEF IInv, OwnInv, Driven, Drives
<1>3. ~ pending_resumes[t].preclaimed
  BY DEF IInv, PendingResumeIsCarried, NoResume
<1> QED BY <1>1, <1>2, <1>3 DEF Carried

LEMMA ExitServed ==
  ASSUME IInv, Served, NEW w \in Workers, exit(w)
  PROVE  \A u \in Tasks : Owned(u)'
<1> DEFINE new == [Idle EXCEPT !.pc = "exited"]
<1>1. Goto(w, new) /\ UNCHANGED <<tasks, schedVars>> /\ threads[w].pc = "idle" /\ w \in Threads
  BY ThreadNames DEF exit, At
<1>2. new.pc = "exited"
  BY DEF Idle
<1> HIDE DEF new
<1>3. ASSUME NEW u \in Tasks PROVE Owned(u)'
  <2>1. About(w, new, u) /\ ~ Busy(new, u)
    BY <1>1, <1>2 DEF About, Busy, Resting
  <2>2. ~ Drives(threads[w], tasks[u], u) /\ ~ Helps(w, threads[w], tasks[u], u)
    BY <1>1, RestingOut DEF Resting
  <2>3. Owned(u)
    BY DEF Served
  <2> QED BY <1>1, <1>2, <2>1, <2>2, <2>3, OwnedMove
<1> QED BY <1>3

LEMMA GetServed ==
  ASSUME IInv, Served, NEW w \in Workers, get(w)
  PROVE  \A u \in Tasks : Owned(u)'
<1> DEFINE item == Head(queue)
           n == Len(queue)
<1>1. Types /\ OwnInv
  BY DEF IInv
<1>2. /\ queue # <<>> /\ queue' = Tail(queue) /\ threads[w].pc = "idle" /\ w \in Threads
      /\ Goto(w, [Idle EXCEPT !.pc = "load", !.task = item.task, !.preclaimed = item.preclaimed])
      /\ UNCHANGED <<tasks, scheduled, scheduled_versions, pending_resumes>>
  BY ThreadNames DEF get, At
<1>3. /\ queue' \in Seq(Item) /\ Len(queue') = n - 1 /\ n \in Nat /\ n # 0
      /\ \A i \in 1..Len(queue') : queue'[i] = queue[i + 1]
      /\ queue[1] = item /\ item \in Item
  BY <1>1, <1>2, HeadTailProperties, EmptySeq DEF Types
<1>4. /\ 1 \in 1..n /\ \A i \in 1..Len(queue') : i + 1 \in 1..n /\ i + 1 # 1
      /\ \A i \in 1..n : i = 1 \/ (i - 1 \in 1..Len(queue') /\ (i - 1) + 1 = i)
  BY <1>3
<1>5. PICK t \in Tasks, preclaimed \in BOOLEAN : t = item.task /\ preclaimed = item.preclaimed
  BY <1>3 DEF Item
<1>20. queue[1].task = t /\ queue[1].preclaimed = preclaimed
  BY <1>3, <1>5
<1> DEFINE new == [Idle EXCEPT !.pc = "load", !.task = t, !.preclaimed = preclaimed]
<1>21. Goto(w, new)
  BY <1>2, <1>5
<1> HIDE DEF item
<1>6. new.pc = "load" /\ new.task = t /\ new.preclaimed = preclaimed
  BY DEF Idle
<1> HIDE DEF new
<1>7. \A u \in Tasks : Waits(u) <=> Waits(u)' \/ (u = t /\ preclaimed)
  <2>1. \A i, j \in 1..n : queue[i].task = queue[j].task => i = j
    BY <1>1 DEF OwnInv
  <2> SUFFICES ASSUME NEW u \in Tasks
               PROVE  (\E i \in 1..n : queue[i].task = u /\ queue[i].preclaimed)
                        <=> (\E i \in 1..Len(queue') : queue'[i].task = u /\ queue'[i].preclaimed)
                              \/ (u = t /\ preclaimed)
    BY DEF Waits
  <2>2. ASSUME NEW i \in 1..n, queue[i].task = u, queue[i].preclaimed
        PROVE  \/ \E j \in 1..Len(queue') : queue'[j].task = u /\ queue'[j].preclaimed
               \/ u = t /\ preclaimed
    <3>1. CASE i = 1
      BY <1>20, <2>2, <3>1
    <3>2. CASE i # 1
      <4>1. i - 1 \in 1..Len(queue') /\ queue'[i - 1] = queue[i]
        BY <1>3, <1>4, <3>2
      <4> QED BY <2>2, <4>1
    <3> QED BY <3>1, <3>2
  <2>3. ASSUME NEW j \in 1..Len(queue'), queue'[j].task = u, queue'[j].preclaimed
        PROVE  \E i \in 1..n : queue[i].task = u /\ queue[i].preclaimed
    BY <1>3, <1>4, <2>3
  <2>4. u = t /\ preclaimed => \E i \in 1..n : queue[i].task = u /\ queue[i].preclaimed
    BY <1>4, <1>20
  <2> QED BY <2>2, <2>3, <2>4
<1>8. Only(t)
  BY <1>2, <1>7 DEF Only
<1>9. About(w, new, t)
  BY <1>2, <1>6 DEF About, Resting
<1>10. /\ threads'[w] = new
       /\ \A q \in Threads : q # w => threads'[q] = threads[q]
  BY <1>2, <1>21, Moved
<1>11. ~ Driven(t)
  BY <1>1, <1>4, <1>20 DEF OwnInv, Driven, Drives
<1>12. ~ Helps(w, threads[w], tasks[t], t)
  BY <1>2, RestingOut DEF Resting
<1>13. Helped(t) => Helped(t)'
  BY <1>2, <1>10, <1>12 DEF Helped
<1>14. preclaimed => Driven(t)'
  <2>1. preclaimed => Drives(new, tasks'[t], t)
    BY <1>6 DEF Drives, Has, Holding
  <2> QED BY <1>10, <2>1 DEF Driven
<1>15. Carried(t) => Carried(t)'
  BY <1>2, <1>5, <1>7, <1>11, <1>14 DEF Carried
<1>16. Owned(t)
  BY DEF Served
<1>17. \A q \in Threads : Busy(threads'[q], t) => Knows(threads'[q], tasks'[t])
  BY <1>2, <1>6, <1>10, <1>16 DEF Owned, Knows, Late
<1>18. \A c \in Clients : Resumes(threads'[c], t) =>
         tasks'[t].status \notin {"probing", "validating"} /\ ~ Active(tasks'[t])
  BY <1>2, <1>10, <1>11, <1>16, ThreadNames DEF Owned
<1>19. Owned(t)'
  BY <1>2, <1>13, <1>15, <1>16, <1>17, <1>18 DEF Owned, Noted
<1> QED BY <1>2, <1>8, <1>9, <1>19, <1>21, StepServed

LEMMA FinishServed ==
  ASSUME IInv, Served, NEW w \in Workers, finish(w)
  PROVE  Versions' /\ \A u \in Tasks : Owned(u)'
<1> DEFINE me == threads[w]
<1>0. /\ me.pc = "finish" /\ w \in Threads /\ me.pc \notin Resting
  BY ThreadNames DEF finish, At, Resting
<1>12. PICK t \in Tasks : t = me.task
  BY <1>0, MyKnows
<1> DEFINE pending == pending_resumes[t]
           row == tasks[t]
           rollback == pending.rollback
           back == [Idle EXCEPT !.pc = "rollback", !.task = t, !.cur = row, !.goal = rollback]
<1>1. /\ me.pc = "finish" /\ w \in Threads /\ me.pc \notin Resting /\ UNCHANGED tasks
      /\ pending_resumes' = [pending_resumes EXCEPT ![t] = NoResume]
  BY <1>0, <1>12 DEF finish
<1>2. row \in LiveRow /\ Owned(t) /\ row.version \in Nat /\ Has(me, t)
  BY <1>1, <1>12, MyKnows, RowFacts DEF Has, Holding
<1>3. ~ Driven(t) /\ ~ Waits(t)
  BY <1>1, <1>2 DEF IInv, OwnInv, Driven, Drives, Waits
<1>4. ~ Helps(w, me, row, t)
  BY <1>1, ThreadNames DEF Helps
<1>5. /\ pending_resumes'[t] = NoResume
      /\ \A u \in Tasks \ {t} : pending_resumes'[u] = pending_resumes[u]
  BY <1>1, MyTypes DEF Types
<1>6. Idle.pc = "idle" /\ ~ Busy(Idle, t) /\ About(w, Idle, t)
  BY <1>12 DEF Idle, Busy, Resting, About
<1>7. \A c \in Clients : Resumes(threads[c], t) =>
        row.status \notin {"probing", "validating"} /\ ~ Active(row)
  BY <1>2, <1>3 DEF Owned
<1>8. CASE /\ pending # NoResume
           /\ queue' = Append(queue, [task |-> t, preclaimed |-> pending.preclaimed])
           /\ UNCHANGED <<scheduled, scheduled_versions>> /\ Goto(w, Idle)
  <2> DEFINE n == Len(queue)
             preclaimed == pending.preclaimed
             item == [task |-> t, preclaimed |-> preclaimed]
  <2>1. preclaimed \in BOOLEAN
    BY <1>2, MyTypes DEF Types, Resume
  <2> HIDE DEF preclaimed
  <2>2. item \in Item /\ item.task = t /\ item.preclaimed = preclaimed
    BY <1>2, <2>1 DEF Item
  <2>3. queue' = Append(queue, item)
    BY <1>8 DEF preclaimed
  <2> HIDE DEF item
  <2>4. /\ Len(queue') = n + 1 /\ n \in Nat
        /\ \A i \in 1..n : queue'[i] = queue[i]
        /\ queue'[n + 1] = item
        /\ \A i \in 1..Len(queue') : i \in 1..n \/ i = n + 1
    BY <2>2, <2>3, MyTypes, Appended
  <2>5. n + 1 \in 1..Len(queue') /\ 1..n \subseteq 1..Len(queue')
    BY <2>4
  <2>6. \A u \in Tasks : Waits(u)' <=> Waits(u) \/ (u = t /\ preclaimed)
    <3> SUFFICES ASSUME NEW u \in Tasks
                 PROVE  (\E i \in 1..Len(queue') : queue'[i].task = u /\ queue'[i].preclaimed)
                          <=> \/ \E i \in 1..n : queue[i].task = u /\ queue[i].preclaimed
                              \/ u = t /\ preclaimed
      BY DEF Waits
    <3> HIDE DEF n
    <3> QED BY <2>2, <2>4, <2>5
  <2>7. Only(t)
    BY <1>1, <1>5, <1>8, <2>6 DEF Only
  <2>8. /\ threads'[w] = Idle
        /\ \A q \in Threads : q # w => threads'[q] = threads[q]
    BY <1>1, <1>8, Moved
  <2>9. Helped(t) => Helped(t)'
    BY <1>1, <1>4, <2>8 DEF Helped
  <2>10. Carried(t) => Carried(t)'
    BY <1>2, <1>3, <2>6 DEF Carried, preclaimed
  <2>11. Versions' /\ Noted(t)'
    BY <1>1, <1>2, <1>5, <1>8 DEF Versions, Served, Owned, Noted
  <2>12. \A q \in Threads : Busy(threads'[q], t) => Knows(threads'[q], tasks'[t])
    BY <1>1, <1>2, <1>6, <2>8 DEF Owned
  <2>13. ~ Resumes(Idle, t)
    BY <1>6 DEF Resumes
  <2>14. \A c \in Clients : Resumes(threads'[c], t) =>
           tasks'[t].status \notin {"probing", "validating"} /\ ~ Active(tasks'[t])
    BY <1>1, <1>7, <2>8, <2>13, ThreadNames
  <2>15. Owned(t)'
    BY <1>1, <1>2, <1>8, <2>9, <2>10, <2>11, <2>12, <2>14 DEF Owned
  <2> QED BY <1>1, <1>2, <1>6, <1>8, <2>7, <2>11, <2>15, StepServed
<1>9. ASSUME NEW th, Goto(w, th), scheduled' = scheduled \ {t}, UNCHANGED queue,
             scheduled_versions' = [scheduled_versions EXCEPT ![t] = -1],
             About(w, th, t), Busy(th, t) => Knows(th, row), th.pc # "schedule_resumed",
             pending = NoResume \/ Helps(w, th, row, t)
      PROVE  Versions' /\ \A u \in Tasks : Owned(u)'
  <2>1. /\ threads'[w] = th
        /\ \A q \in Threads : q # w => threads'[q] = threads[q]
    BY <1>1, <1>9, Moved
  <2>2. Versions' /\ scheduled_versions'[t] = -1 /\ t \notin scheduled'
    BY <1>2, <1>9 DEF Versions, Served
  <2>3. Only(t)
    BY <1>1, <1>5, <1>9 DEF Only, Waits, Served, Versions
  <2>4. Noted(t)'
    BY <1>1, <1>2, <1>5, <2>2 DEF Noted
  <2>5. Helped(t) => Helped(t)'
    BY <1>1, <1>4, <2>1 DEF Helped
  <2>6. Carried(t) => Helped(t)'
    <3>1. Carried(t) => pending # NoResume
      BY <1>3 DEF Carried, NoResume
    <3> QED BY <1>1, <1>9, <2>1, <3>1 DEF Helped
  <2>7. \A q \in Threads : Busy(threads'[q], t) => Knows(threads'[q], tasks'[t])
    BY <1>1, <1>2, <1>9, <2>1 DEF Owned
  <2>8. ~ Resumes(th, t)
    BY <1>9 DEF Resumes
  <2>9. \A c \in Clients : Resumes(threads'[c], t) =>
          tasks'[t].status \notin {"probing", "validating"} /\ ~ Active(tasks'[t])
    BY <1>1, <1>7, <2>1, <2>8, ThreadNames
  <2>10. Owned(t)'
    BY <1>1, <1>2, <2>2, <2>4, <2>5, <2>6, <2>7, <2>9 DEF Owned
  <2> QED BY <1>1, <1>2, <1>9, <2>2, <2>3, <2>10, StepServed
<1>10. CASE /\ pending = NoResume /\ Goto(w, Idle)
            /\ scheduled' = scheduled \ {t} /\ UNCHANGED queue
            /\ scheduled_versions' = [scheduled_versions EXCEPT ![t] = -1]
  BY <1>6, <1>9, <1>10
<1>11. CASE /\ pending # NoResume /\ Goto(w, back)
            /\ scheduled' = scheduled \ {t} /\ UNCHANGED queue
            /\ scheduled_versions' = [scheduled_versions EXCEPT ![t] = -1]
  <2>1. rollback \in RESUMABLE_STATUSES /\ row.status # "created"
    BY <1>2, <1>11 DEF Owned, Noted
  <2> HIDE DEF row, rollback
  <2>2. back.pc = "rollback" /\ back.task = t /\ back.cur = row /\ back.goal = rollback
    BY DEF Idle
  <2> HIDE DEF back
  <2>3. About(w, back, t) /\ Knows(back, row) /\ Helps(w, back, row, t)
    BY <1>12, <2>1, <2>2 DEF About, Knows, Late, Helps
  <2> QED BY <1>9, <1>11, <2>2, <2>3
<1> QED BY <1>8, <1>10, <1>11, <1>12 DEF finish

-----------------------------------------------------------------------------
(* The steps of a client. *)

\* An idle thread takes up a task.
LEMMA StartServed ==
  ASSUME IInv, Served, NEW p \in Threads, threads[p].pc = "idle", NEW th, Goto(p, th),
         NEW t \in Tasks, th.task = t, UNCHANGED <<tasks, schedVars>>,
         th.pc # "schedule_resumed", Knows(th, tasks[t])
  PROVE  \A u \in Tasks : Owned(u)'
<1>1. About(p, th, t)
  BY DEF About, Resting
<1>2. ~ Drives(threads[p], tasks[t], t) /\ ~ Helps(p, threads[p], tasks[t], t)
  BY RestingOut DEF Resting
<1> QED BY <1>1, <1>2, MoveServed

\* A thread returns to its caller.
LEMMA ReturnServed ==
  ASSUME IInv, Served, NEW p \in Threads, threads[p].pc \notin Resting, Goto(p, Idle),
         UNCHANGED <<tasks, schedVars>>,
         LET t == threads[p].task IN
           ~ Drives(threads[p], tasks[t], t) /\ ~ Helps(p, threads[p], tasks[t], t)
  PROVE  \A u \in Tasks : Owned(u)'
<1>1. Idle.pc \in Resting
  BY DEF Idle, Resting
<1>2. threads[p].task \in Tasks
  BY MyThread
<1>3. /\ About(p, Idle, threads[p].task) /\ ~ Busy(Idle, threads[p].task)
      /\ Idle.pc # "schedule_resumed"
  BY <1>1 DEF About, Busy, Resting
<1> QED BY <1>2, <1>3, MoveServed

LEMMA CreateServed ==
  ASSUME IInv, Served, NEW c \in Clients, NEW t \in Tasks, create_crawl_task(c, t)
  PROVE  \A u \in Tasks : Owned(u)'
<1> DEFINE goal == "paused"
           new == [Idle EXCEPT !.pc = "get", !.task = t, !.goal = goal]
<1>1. /\ threads[c].pc = "idle" /\ tasks[t] = NoRow /\ Put(t, NewTask) /\ Goto(c, new)
      /\ UNCHANGED schedVars /\ c \in Threads
  BY ThreadNames DEF create_crawl_task, Starts, At
<1> HIDE DEF goal
<1>2. new.pc = "get" /\ new.task = t
  BY DEF Idle
<1> HIDE DEF new
<1>3. tasks'[t] = NewTask
  BY <1>1, MyTypes DEF Types, Put
<1>4. tasks[t] \notin LiveRow
  BY <1>1, RowFacts
<1>5. \A q \in Threads : ~ Busy(threads[q], t)
  BY <1>4, MyThread DEF Busy
<1>6. t \notin scheduled
  <2>1. \A i \in 1..Len(queue) : queue[i].task # t
    BY <1>4 DEF IInv, ListedInv
  <2>2. \A w \in Workers : ~ Has(threads[w], t)
    BY <1>4, MyThread, ThreadNames, PCNames DEF Has
  <2> QED BY <2>1, <2>2 DEF IInv, OwnInv
<1>7. pending_resumes[t] = NoResume /\ scheduled_versions[t] = -1
  BY <1>6 DEF IInv, PendingResumeIsCarried, Served, Owned, Noted
<1>8. RowOk(NewTask) /\ ~ Active(NewTask) /\ NewTask.version \in Nat
  BY DEF RowOk, NewTask, NONE, Active, ACTIVE_STATUSES
<1>9. /\ threads'[c] = new
      /\ \A q \in Threads : q # c => threads'[q] = threads[q]
  BY <1>1, Moved
<1>10. Noted(t)'
  BY <1>1, <1>3, <1>6, <1>7, <1>8 DEF Noted, schedVars
<1>11. \A q \in Threads : Busy(threads'[q], t) => Knows(threads'[q], tasks'[t])
  BY <1>2, <1>5, <1>9 DEF Knows, Late
<1>12. \A d \in Clients : ~ Resumes(threads'[d], t)
  BY <1>2, <1>5, <1>9, ThreadNames DEF Resumes, Busy, Resting
<1>13. Owned(t)'
  BY <1>3, <1>8, <1>10, <1>11, <1>12 DEF Owned
<1>14. About(c, new, t)
  BY <1>1, <1>2 DEF About, Resting
<1> QED BY <1>1, <1>13, <1>14, OnlyOwn, StepServed

LEMMA SubmitGetServed ==
  ASSUME IInv, Served, NEW c \in Clients, submit_get(c)
  PROVE  \A u \in Tasks : Owned(u)'
<1> DEFINE me == threads[c]
           t == me.task
           row == tasks[t]
           new == [me EXCEPT !.pc = "submit", !.cur = row]
<1>1. /\ me.pc = "get" /\ UNCHANGED <<tasks, schedVars>> /\ Goto(c, new)
      /\ c \in Threads /\ me.pc \notin Resting
  BY ThreadNames DEF submit_get, At, Resting
<1>2. me \in AThread /\ t \in Tasks
  BY <1>1, MyKnows
<1>3. ~ Helps(c, me, row, t) /\ ~ Drives(me, row, t)
  BY <1>1 DEF Helps, Drives
<1> HIDE DEF me, row
<1>4. new.pc = "submit" /\ new.task = t
  BY <1>2 DEF AThread
<1> HIDE DEF new
<1>5. About(c, new, t) /\ Knows(new, tasks[t])
  BY <1>4 DEF About, Knows, Late, me
<1> QED BY <1>1, <1>2, <1>3, <1>4, <1>5, MoveServed DEF me, row

\* Nothing is decided here on a row that somebody is at work on by now: the version differs.
LEMMA SubmitServed ==
  ASSUME IInv, Served, NEW p \in Threads, threads[p].pc = "submit", NEW raised \in BOOLEAN,
         Submit(threads[p].task, threads[p].cur, raised), Goto(p, Idle), UNCHANGED tasks
  PROVE  Versions' /\ \A u \in Tasks : Owned(u)'
<1> DEFINE me == threads[p]
           t == me.task
           version == me.cur.version
<1>1. me.pc \notin Resting /\ me.pc \in Informed
  BY DEF Resting, Informed
<1>2. /\ t \in Tasks /\ tasks[t] \in LiveRow /\ me.cur \in LiveRow /\ version \in Nat
      /\ version <= tasks[t].version /\ (version = tasks[t].version => me.cur = tasks[t])
  BY <1>1, MyKnows, RowFacts DEF ThreadInv
<1>3. ~ Helps(p, me, tasks[t], t) /\ ~ Drives(me, tasks[t], t)
  BY DEF Helps, Drives
<1>4. Idle.pc = "idle" /\ About(p, Idle, t)
  BY DEF Idle, About, Resting
<1>5. CASE /\ me.cur.status \in {"created", "ready"} /\ t \notin scheduled
           /\ Enqueue(t, FALSE, version)
  <2>1. Active(tasks[t]) => version # tasks[t].version
    BY <1>2, <1>5 DEF Active, ACTIVE_STATUSES
  <2>2. PICK no \in BOOLEAN : Enqueue(t, no, version)
    BY <1>5
  <2> HIDE DEF version
  <2> QED BY <1>2, <1>3, <1>4, <1>5, <2>1, <2>2, EnqueueServed
<1>6. CASE UNCHANGED schedVars
  <2>1. Versions'
    BY <1>6 DEF Versions, Served, schedVars
  <2> QED BY <1>1, <1>3, <1>6, <2>1, ReturnServed
<1> QED BY <1>5, <1>6 DEF Submit

\* A client of an open executor finds room for its task.
LEMMA Accepted ==
  ASSUME IInv, Served, Undisturbed, NEW c \in Clients, threads[c].pc # "idle", NEW t \in Tasks
  PROVE  ~ (closing \/ (t \notin scheduled /\ Full))
BY Room DEF Served, Open

LEMMA ClientSubmitServed ==
  ASSUME IInv, Served, Undisturbed, NEW c \in Clients, submit(c)
  PROVE  Versions' /\ \A u \in Tasks : Owned(u)'
<1>1. /\ threads[c].pc = "submit" /\ UNCHANGED tasks /\ c \in Threads
      /\ threads[c].pc \notin Resting /\ threads[c].pc # "idle"
  BY ThreadNames DEF submit, At, Resting
<1>2. PICK raised \in BOOLEAN :
        /\ Submit(threads[c].task, threads[c].cur, raised)
        /\ raised \/ Goto(c, Idle)
  BY DEF submit
<1>3. ~ raised
  <2>1. threads[c].task \in Tasks
    BY <1>1, MyKnows
  <2> QED BY <1>1, <1>2, <2>1, Accepted DEF Submit
<1> QED BY <1>1, <1>2, <1>3, SubmitServed

LEMMA NotCompensated ==
  ASSUME IInv, Served, NEW c \in Clients, compensate_submission(c)
  PROVE  FALSE
BY MyKnows, ThreadNames DEF compensate_submission, At, Knows, Resting

LEMMA RequestServed ==
  ASSUME IInv, Served, Undisturbed, NEW c \in Clients, NEW t \in Tasks,
         NEW to \in {"paused", "cancelled"}, request_status(c, t, to)
  PROVE  \A u \in Tasks : Owned(u)'
<1> DEFINE row == tasks[t]
           new == [Idle EXCEPT !.pc = "request", !.task = t, !.cur = row, !.goal = to]
<1>1. /\ threads[c].pc = "idle" /\ UNCHANGED <<tasks, schedVars>> /\ c \in Threads /\ Goto(c, new)
      /\ to = "paused" => row.status # "created"
  BY ThreadNames DEF request_status, Starts, At, Undisturbed
<1> HIDE DEF row
<1>2. new.pc = "request" /\ new.task = t /\ new.goal = to
  BY DEF Idle
<1> HIDE DEF new
<1>3. Knows(new, tasks[t])
  BY <1>1, <1>2 DEF Knows, Late, row
<1> QED BY <1>1, <1>2, <1>3, StartServed

LEMMA RequestCasServed ==
  ASSUME IInv, Served, NEW c \in Clients, request_cas(c)
  PROVE  \A u \in Tasks : Owned(u)'
<1> DEFINE me == threads[c]
           t == me.task
           row == tasks[t]
           to == me.goal
           written == Transitioned(row, to)
           new == [me EXCEPT !.cur = row]
<1>1. me.pc = "request" /\ UNCHANGED schedVars /\ c \in Threads /\ me.pc \notin Resting
  BY ThreadNames DEF request_cas, At, Resting
<1>2. /\ me \in AThread /\ t \in Tasks /\ row \in LiveRow /\ RowOk(row) /\ Knows(me, row)
      /\ to \in {"paused", "cancelled"} /\ (to = "paused" => row.status # "created")
  BY <1>1, MyKnows DEF Knows
<1>3. ~ Helps(c, me, row, t) /\ ~ Drives(me, row, t)
  BY <1>1 DEF Helps, Drives
<1>4. About(c, Idle, t) /\ ~ Busy(Idle, t) /\ Idle.pc # "schedule_resumed"
  BY DEF Idle, About, Resting, Busy
<1>5. CASE Fresh(c) /\ CanTransition(row, to) /\ Put(t, written) /\ Goto(c, Idle)
  <2>1. to \in TaskStatus \ (ACTIVE_STATUSES \cup {"created"})
        /\ (to \in RESUMABLE_STATUSES => row.status # "created")
    BY <1>2 DEF TaskStatus, ACTIVE_STATUSES, RESUMABLE_STATUSES, TERMINAL_STATUSES
  <2>2. row.resume_gate = "none" \/ to \in Exits
    BY <1>2, <1>5 DEF CanTransition, LiveRow, ResumeGate
  <2>3. Follows(written, row) /\ ~ Active(written) /\ written.status # "created" /\ RowOk(written)
    BY <1>2, <2>1, <2>2, RestRow
  <2> HIDE DEF written
  <2> QED BY <1>1, <1>2, <1>4, <1>5, <2>3, RestServed
<1>6. CASE UNCHANGED tasks /\ Goto(c, Idle)
  BY <1>1, <1>3, <1>6, ReturnServed
<1>7. CASE UNCHANGED tasks /\ Goto(c, new)
  <2> HIDE DEF me, row
  <2>1. new.pc = "request" /\ new.task = t /\ new.goal = me.goal
    BY <1>1, <1>2 DEF AThread
  <2> HIDE DEF new
  <2>2. About(c, new, t) /\ Knows(new, row)
    BY <1>2, <2>1 DEF About, Knows, Late, me
  <2> QED BY <1>1, <1>2, <1>3, <1>7, <2>1, <2>2, MoveServed DEF me, row
<1> QED BY <1>5, <1>6, <1>7 DEF request_cas

LEMMA ResumeTaskServed ==
  ASSUME IInv, Served, NEW c \in Clients, NEW t \in Tasks, resume_task(c, t)
  PROVE  \A u \in Tasks : Owned(u)'
<1> DEFINE row == tasks[t]
           one == [Idle EXCEPT !.pc = "resume", !.task = t, !.cur = row]
           two == [Idle EXCEPT !.pc = "get", !.task = t]
<1>1. threads[c].pc = "idle" /\ UNCHANGED <<tasks, schedVars>> /\ c \in Threads
  BY ThreadNames DEF resume_task, Starts, At
<1>2. CASE Resumable(row) /\ Goto(c, one)
  <2>1. row.status \in RESUMABLE_STATUSES /\ row.resume_gate = "none" /\ row.status # "created"
    BY <1>2 DEF Resumable, RESUMABLE_STATUSES
  <2> HIDE DEF row
  <2>2. one.pc = "resume" /\ one.task = t /\ one.cur = row
    BY DEF Idle
  <2> HIDE DEF one
  <2>3. Knows(one, row)
    BY <2>1, <2>2 DEF Knows, Late
  <2> QED BY <1>1, <1>2, <2>2, <2>3, StartServed DEF row
<1>3. CASE Goto(c, two)
  <2>1. two.pc = "get" /\ two.task = t
    BY DEF Idle
  <2> HIDE DEF two
  <2>2. Knows(two, row)
    BY <2>1 DEF Knows, Late
  <2> QED BY <1>1, <1>3, <2>1, <2>2, StartServed
<1> QED BY <1>2, <1>3 DEF resume_task

LEMMA ResumeCasServed ==
  ASSUME IInv, Served, Undisturbed, NEW c \in Clients, resume_cas(c)
  PROVE  \A u \in Tasks : Owned(u)'
<1> DEFINE me == threads[c]
           t == me.task
           row == tasks[t]
           to == me.cur.resume_status
           resumed == Transitioned(row, to)
           goal == row.status
           active == resumed.status \in ACTIVE_STATUSES
           new == [me EXCEPT !.pc = "schedule_resumed", !.cur = resumed, !.goal = goal,
                             !.preclaimed = active]
           again == [me EXCEPT !.cur = row]
<1>1. /\ me.pc = "resume" /\ UNCHANGED schedVars /\ c \in Threads
      /\ me.pc \notin Resting /\ me.pc \in Informed
  BY ThreadNames DEF resume_cas, At, Resting, Informed
<1>2. /\ me \in AThread /\ t \in Tasks /\ row \in LiveRow /\ RowOk(row) /\ Knows(me, row)
      /\ to \in TaskStatus /\ row.status # "created"
      /\ me.cur.status \in RESUMABLE_STATUSES /\ me.cur.resume_gate = "none"
  BY <1>1, MyKnows DEF Knows, Late, ThreadInv
<1>3. ~ Helps(c, me, row, t) /\ ~ Drives(me, row, t)
  BY <1>1 DEF Helps, Drives
<1>4. About(c, Idle, t) /\ ~ Busy(Idle, t) /\ Idle.pc # "schedule_resumed"
  BY DEF Idle, About, Resting, Busy
<1>5. CASE Fresh(c) /\ Put(t, resumed)
           /\ IF resumed.status = "waiting_for_user" THEN Goto(c, Idle) ELSE Goto(c, new)
  <2>1. /\ goal \in RESUMABLE_STATUSES /\ row.resume_gate = "none"
        /\ to \in TaskStatus \ {"created"}
    BY <1>1, <1>2, <1>5, FreshRow DEF RowOk
  <2>2. to \notin ACTIVE_STATUSES =>
          Follows(resumed, row) /\ ~ Active(resumed) /\ resumed.status # "created" /\ RowOk(resumed)
    BY <1>2, <2>1, RestRow
  <2>3. to \in ACTIVE_STATUSES =>
          Follows(resumed, row) /\ resumed.status # "created" /\ RowOk(resumed)
    BY <1>2, <2>1, WorkRow
  <2>4. resumed.status = to
    BY DEF Transitioned
  <2>5. active \in BOOLEAN /\ (active <=> to \in ACTIVE_STATUSES)
    BY <2>4
  <2> HIDE DEF me, row, resumed, goal, active
  <2>6. /\ new.pc = "schedule_resumed" /\ new.task = t /\ new.cur = resumed
        /\ new.goal = goal /\ new.preclaimed = active
    BY <1>2 DEF AThread
  <2> HIDE DEF new, to
  <2>7. About(c, new, t) /\ (resumed.status # "created" => Knows(new, resumed))
    BY <2>1, <2>6 DEF About, Knows, Late, me
  <2>8. CASE to \notin ACTIVE_STATUSES
    BY <1>1, <1>2, <1>4, <1>5, <2>2, <2>7, <2>8, RestServed DEF row
  <2>9. CASE to \in ACTIVE_STATUSES
    <3>1. Goto(c, new)
      BY <1>5, <2>4, <2>9 DEF ACTIVE_STATUSES
    <3>2. Helps(c, new, resumed, t)
      BY <2>5, <2>6, <2>9 DEF Helps
    <3>3. ASSUME NEW d \in Clients, Resumes(threads'[d], t) PROVE FALSE
      <4>1. d = c /\ threads'[c] = new
        BY <1>1, <3>1, Moved DEF Undisturbed
      <4> QED BY <2>5, <2>6, <2>9, <3>3, <4>1 DEF Resumes
    <3> QED BY <1>1, <1>2, <1>5, <2>3, <2>7, <2>9, <3>1, <3>2, <3>3, WorkServed DEF row
  <2> QED BY <2>8, <2>9
<1>6. CASE UNCHANGED tasks /\ Goto(c, Idle)
  BY <1>1, <1>3, <1>6, ReturnServed
<1>7. CASE UNCHANGED tasks /\ Resumable(row) /\ Goto(c, again)
  <2>1. row.status \in RESUMABLE_STATUSES /\ row.resume_gate = "none"
    BY <1>7 DEF Resumable
  <2> HIDE DEF me, row
  <2>2. again.pc = "resume" /\ again.task = t /\ again.cur = row
    BY <1>1, <1>2 DEF AThread
  <2> HIDE DEF again
  <2>3. About(c, again, t) /\ Knows(again, row)
    BY <1>2, <2>1, <2>2 DEF About, Knows, Late, me
  <2> QED BY <1>1, <1>2, <1>3, <1>7, <2>2, <2>3, MoveServed DEF me, row
<1> QED BY <1>5, <1>6, <1>7 DEF resume_cas

LEMMA ScheduleResumedServed ==
  ASSUME IInv, Served, Undisturbed, NEW c \in Clients, schedule_resumed(c)
  PROVE  Versions' /\ \A u \in Tasks : Owned(u)'
<1> DEFINE me == threads[c]
           t == me.task
           preclaimed == me.preclaimed
           rollback == me.goal
           version == tasks[t].version
<1>1. /\ me.pc = "schedule_resumed" /\ UNCHANGED tasks /\ c \in Threads /\ me.pc \notin Resting
      /\ me.pc # "idle"
  BY ThreadNames DEF schedule_resumed, At, Resting
<1>2. /\ me \in AThread /\ t \in Tasks /\ tasks[t] \in LiveRow
      /\ tasks[t].status # "created" /\ Owned(t)
      /\ rollback \in RESUMABLE_STATUSES /\ version \in Nat /\ version <= tasks[t].version
  BY <1>1, MyKnows, RowFacts DEF Knows, Late
<1>3. preclaimed \in BOOLEAN
  BY <1>2 DEF AThread
<1>4. PICK raised \in BOOLEAN :
        /\ ScheduleResumed(t, preclaimed, rollback, raised)
        /\ raised \/ Goto(c, Idle)
  BY DEF schedule_resumed
<1>5. ~ raised /\ Goto(c, Idle)
  BY <1>1, <1>2, <1>4, Accepted DEF ScheduleResumed
<1>6. ~ Drives(me, tasks[t], t)
  BY <1>1 DEF Drives
<1>7. Idle.pc = "idle" /\ About(c, Idle, t)
  BY DEF Idle, About, Resting
<1>8. preclaimed \/ (Active(tasks[t]) => Driven(t))
  BY <1>1, <1>2 DEF Owned, Resumes
<1>9. CASE /\ t \in scheduled /\ UNCHANGED <<queue, scheduled>>
           /\ scheduled_versions' = [scheduled_versions EXCEPT ![t] = version]
           /\ pending_resumes' = [pending_resumes EXCEPT ![t] =
                [preclaimed |-> preclaimed, rollback |-> rollback]]
  <2> HIDE DEF preclaimed, rollback
  <2> QED BY <1>1, <1>2, <1>3, <1>5, <1>6, <1>7, <1>8, <1>9, PendingServed
<1>10. CASE t \notin scheduled /\ Enqueue(t, preclaimed, version)
  <2>1. preclaimed \/ ~ Active(tasks[t])
    BY <1>2, <1>8, <1>10, PlacedOut
  <2>2. preclaimed \/ ~ Helps(c, me, tasks[t], t)
    BY <1>1, ThreadNames DEF Helps
  <2> HIDE DEF preclaimed, version
  <2> QED BY <1>1, <1>2, <1>3, <1>5, <1>7, <1>10, <2>1, <2>2, EnqueueServed
<1> QED BY <1>4, <1>5, <1>9, <1>10 DEF ScheduleResumed

LEMMA InteractServed ==
  ASSUME IInv, Served, NEW c \in Clients, NEW t \in Tasks, interact(c, t)
  PROVE  \A u \in Tasks : Owned(u)'
<1> DEFINE row == tasks[t]
           new == [Idle EXCEPT !.pc = "apply", !.task = t, !.cur = row]
<1>1. /\ threads[c].pc = "idle" /\ UNCHANGED <<tasks, schedVars>> /\ c \in Threads /\ Goto(c, new)
      /\ row.status = "waiting_for_user"
  BY ThreadNames DEF interact, Starts, At
<1> HIDE DEF row
<1>2. new.pc = "apply" /\ new.task = t /\ new.cur = row
  BY DEF Idle
<1> HIDE DEF new
<1>3. Knows(new, row)
  BY <1>1, <1>2 DEF Knows, Late
<1> QED BY <1>1, <1>2, <1>3, StartServed DEF row

-----------------------------------------------------------------------------
(* The reconciler, and a new process. *)

LEMMA VersionsKept ==
  ASSUME Served, UNCHANGED scheduled_versions
  PROVE  Versions'
BY DEF Served, Versions

LEMMA ReconcileServed ==
  ASSUME IInv, Served, Reconcile
  PROVE  Versions' /\ \A u \in Tasks : Owned(u)'
<1>1. Reconciler \in Threads
  BY ThreadNames
<1>2. CASE reconciler_list
  <2>1. UNCHANGED <<tasks, schedVars, threads>>
    BY <1>2 DEF reconciler_list
  <2>2. Versions'
    BY <2>1, VersionsKept DEF schedVars
  <2>3. ASSUME NEW u \in Tasks PROVE Owned(u)'
    BY <2>1 DEF Served, Owned, Noted, Carried, Waits, Driven, Helped, schedVars
  <2> QED BY <2>2, <2>3
<1>3. CASE reconciler_get
  <2> DEFINE t == CHOOSE u \in todo : \A v \in todo : u <= v
             row == tasks[t]
             new == [Idle EXCEPT !.pc = "submit", !.task = t, !.cur = row]
  <2>1. /\ threads[Reconciler].pc = "idle" /\ todo # {} /\ Goto(Reconciler, new)
        /\ UNCHANGED <<tasks, schedVars>>
    BY <1>3 DEF reconciler_get, At
  <2>2. t \in Tasks
    BY <2>1, MyTypes, LeastListed DEF Types
  <2> HIDE DEF t, row
  <2>3. new.pc = "submit" /\ new.task = t
    BY DEF Idle
  <2> HIDE DEF new
  <2>4. Knows(new, tasks[t])
    BY <2>3 DEF Knows, Late
  <2>5. Versions'
    BY <2>1, VersionsKept DEF schedVars
  <2> QED BY <1>1, <2>1, <2>2, <2>3, <2>4, <2>5, StartServed
<1>4. CASE reconciler_submit
  <2>1. threads[Reconciler].pc = "submit" /\ Goto(Reconciler, Idle) /\ UNCHANGED tasks
    BY <1>4 DEF reconciler_submit, At
  <2>2. PICK raised \in BOOLEAN : Submit(threads[Reconciler].task, threads[Reconciler].cur, raised)
    BY <1>4 DEF reconciler_submit
  <2> QED BY <1>1, <2>1, <2>2, SubmitServed
<1> QED BY <1>2, <1>3, <1>4 DEF Reconcile

\* As FreshProcess, with nothing left to do on any row.
Rested ==
  /\ Built /\ ~ closing /\ scheduled_versions = [t \in Tasks |-> -1]
  /\ \A t \in Tasks : RowOk(tasks[t]) /\ ~ Active(tasks[t])

LEMMA RestedServed == Rested => Served
<1> SUFFICES ASSUME Rested PROVE Served
  OBVIOUS
<1> USE DEF Rested
<1>1. \A p \in Threads : threads[p] = Idle
  BY DEF Built
<1>2. \A t : ~ Busy(Idle, t) /\ ~ Resumes(Idle, t)
  BY DEF Idle, Busy, Resumes, Resting
<1>3. Versions /\ Open
  BY <1>1, ThreadNames DEF Versions, Open
<1>4. ASSUME NEW t \in Tasks PROVE Owned(t)
  <2>1. tasks[t].version \in Nat
    BY RowFacts DEF Built
  <2>2. Noted(t)
    BY <2>1 DEF Noted, Built
  <2> QED BY <1>1, <1>2, <2>2, ThreadNames DEF Owned
<1> QED BY <1>3, <1>4 DEF Served

LEMMA RecoveredRests ==
  ASSUME NEW row \in LiveRow \cup {NoRow}, RowOk(row)
  PROVE  RowOk(Recovered(row)) /\ ~ Active(Recovered(row))
<1>1. CASE row.status \in ACTIVE_STATUSES
  <2>1. Recovered(row) = Transitioned(row, "recoverable_failed")
    BY <1>1 DEF Recovered, ACTIVE_STATUSES
  <2>2. Recovered(row).status = "recoverable_failed" /\ Recovered(row).resume_status = row.status
    BY <2>1 DEF Transitioned, RESUMABLE_STATUSES
  <2> QED BY <1>1, <2>2 DEF RowOk, Active, ACTIVE_STATUSES
<1>2. CASE row.status = "waiting_for_user"
  <2>1. Recovered(row) = Lost(row)
    BY <1>2 DEF Recovered, ACTIVE_STATUSES
  <2> QED BY <2>1 DEF Lost, RowOk, Active, ACTIVE_STATUSES
<1>3. CASE row.status \notin ACTIVE_STATUSES \cup {"waiting_for_user"}
  <2>1. Recovered(row) = row
    BY <1>3 DEF Recovered
  <2> QED BY <1>3, <2>1 DEF Active
<1> QED BY <1>1, <1>2, <1>3

LEMMA RestartServed ==
  ASSUME IInv, Served, restart
  PROVE  Served'
<1>1. tasks \in [Tasks -> LiveRow \cup {NoRow}] /\ tasks' = [t \in Tasks |-> Recovered(tasks[t])]
  BY DEF IInv, Types, restart
<1>2. tasks' \in [Tasks -> LiveRow \cup {NoRow}]
  BY <1>1, RecoveredRow
<1>3. Built' /\ ~ closing' /\ scheduled_versions' = [t \in Tasks |-> -1]
  BY <1>2 DEF restart, Built
<1>4. \A t \in Tasks : RowOk(tasks[t])
  BY DEF Served, Owned
<1>5. \A t \in Tasks : RowOk(tasks'[t]) /\ ~ Active(tasks'[t])
  BY <1>1, <1>4, RecoveredRests
<1>6. Rested'
  BY <1>3, <1>5 DEF Rested
<1> QED BY <1>6, RestedServed, PTL

LEMMA InitiallyServed ==
  ASSUME Init
  PROVE  Served
<1>1. tasks \in [Tasks -> {NoRow, NewTask}]
  BY ExecutorAssumption DEF Init
<1>2. Built
  BY <1>1, RowFacts DEF Init, Built
<1>3. RowOk(NoRow) /\ ~ Active(NoRow) /\ RowOk(NewTask) /\ ~ Active(NewTask)
  BY DEF RowOk, Active, NoRow, NewTask, NONE, ACTIVE_STATUSES
<1> QED BY <1>1, <1>2, <1>3, RestedServed DEF Init, Rested

-----------------------------------------------------------------------------
(* Whoever is at work, the executor is open to the client. *)

LEMMA OpenKept ==
  ASSUME IInv, Open, UNCHANGED closing, NEW p \in Threads,
         \A q \in Threads : q # p => threads'[q] = threads[q],
         p \in Clients => ~ closing
  PROVE  Open'
BY ThreadNames DEF Open

LEMMA WorkerOpen ==
  ASSUME IInv, Open, NEW w \in Workers, Worker(w)
  PROVE  Open'
<1> USE DEF envVars
<1>1. UNCHANGED closing
  BY DEF Worker, get, exit, load, claim, check_control, handler_stops, probe_handler, apply_result,
         handler_returns, handler_raises, schedule_active, fail_unscheduled, recheck, complete,
         ready_handoff, record_failure, record_failure_cas, finish, rollback_resume
<1>2. \E th : Goto(w, th)
  BY DEF Worker, get, exit, load, claim, check_control, handler_stops, probe_handler, apply_result,
         handler_returns, handler_raises, schedule_active, fail_unscheduled, recheck, complete,
         ready_handoff, record_failure, record_failure_cas, finish, rollback_resume,
         RollbackFailed, Step
<1> QED BY <1>1, <1>2, Moved, OpenKept, ThreadNames

LEMMA ClientOpen ==
  ASSUME IInv, Open, Undisturbed, NEW c \in Clients, Begins(c) \/ Continues(c)
  PROVE  Open'
<1> USE DEF envVars
<1>1. CASE shutdown(c)
  BY <1>1 DEF shutdown, At, Open, Undisturbed
<1>2. CASE ~ shutdown(c) /\ Begins(c)
  <2>1. ~ closing /\ UNCHANGED closing
    BY <1>2 DEF Begins, Starts, create_crawl_task, resume_task, interact, request_status
  <2>2. \E th : Goto(c, th)
    BY <1>2 DEF Begins, create_crawl_task, resume_task, interact, request_status
  <2> QED BY <2>1, <2>2, Moved, OpenKept, ThreadNames
<1>3. CASE Continues(c)
  <2>1. threads[c].pc # "idle" /\ UNCHANGED closing
    BY <1>3 DEF Continues, At, submit_get, submit, compensate_submission, request_cas, resume_cas,
         schedule_resumed, rollback_resume, interaction_result, apply_result, schedule_active,
         fail_unscheduled
  <2>2. \E th : Goto(c, th)
    BY <1>3 DEF Continues, submit_get, submit, compensate_submission, request_cas, resume_cas,
         schedule_resumed, rollback_resume, interaction_result, apply_result, schedule_active,
         fail_unscheduled, RollbackFailed, Step
  <2> QED BY <2>1, <2>2, Moved, OpenKept, ThreadNames DEF Open
<1> QED BY <1>1, <1>2, <1>3

-----------------------------------------------------------------------------
(* The theorem. *)

LEMMA WorkerServed ==
  ASSUME IInv, Served, Undisturbed, NEW w \in Workers, Worker(w)
  PROVE  Served'
<1>1. Open' /\ w \in Threads
  BY WorkerOpen, ThreadNames DEF Served
<1>2. CASE probe_handler(w)
  <2>1. PICK kind \in Kinds : apply_result(w, kind)
    BY <1>2 DEF probe_handler
  <2>2. threads[w].pc = "handler" /\ threads[w].cur.status = "probing"
    BY <1>2 DEF probe_handler, At
  <2>3. Versions'
    BY <2>1, VersionsKept DEF apply_result, schedVars
  <2> QED BY <1>1, <2>1, <2>2, <2>3, ApplyServed DEF Served
<1>3. CASE get(w)
  BY <1>1, <1>3, GetServed, VersionsKept DEF get, Served
<1>4. CASE schedule_active(w) \/ finish(w)
  BY <1>1, <1>4, ScheduleActiveServed, FinishServed DEF Served
<1>5. CASE exit(w) \/ load(w) \/ claim(w) \/ check_control(w) \/ handler_stops(w)
           \/ handler_returns(w) \/ handler_raises(w) \/ fail_unscheduled(w) \/ recheck(w)
           \/ complete(w) \/ ready_handoff(w) \/ record_failure(w) \/ record_failure_cas(w)
           \/ rollback_resume(w)
  <2>1. UNCHANGED scheduled_versions
    BY <1>5 DEF schedVars, exit, load, claim, check_control, handler_stops, handler_returns,
         handler_raises, fail_unscheduled, recheck, complete, ready_handoff, record_failure,
         record_failure_cas, rollback_resume
  <2>2. \A u \in Tasks : Owned(u)'
    BY <1>1, <1>5, ExitServed, LoadServed, ClaimServed, CheckServed, StopServed, HandlerServed,
       FailUnscheduledServed, RecheckServed, CompleteServed, HandoffServed, RecordServed,
       RecordCasServed, RollbackServed
  <2> QED BY <1>1, <2>1, <2>2, VersionsKept DEF Served
<1> QED BY <1>2, <1>3, <1>4, <1>5 DEF Worker

LEMMA ClientServed ==
  ASSUME IInv, Served, Undisturbed, NEW c \in Clients, Begins(c) \/ Continues(c)
  PROVE  Served'
<1>1. Open' /\ c \in Threads
  BY ClientOpen, ThreadNames DEF Served
<1>2. CASE interaction_result(c)
  <2>1. PICK kind \in Kinds : apply_result(c, kind)
    BY <1>2 DEF interaction_result
  <2>2. threads[c].pc = "apply"
    BY <1>2 DEF interaction_result, At
  <2>3. Versions'
    BY <2>1, VersionsKept DEF apply_result, schedVars
  <2> QED BY <1>1, <2>1, <2>2, <2>3, ApplyServed DEF Served
<1>3. CASE shutdown(c)
  <2>1. UNCHANGED <<tasks, schedVars, threads>>
    BY <1>3 DEF shutdown
  <2>2. \A u \in Tasks : Owned(u)'
    BY <2>1 DEF Served, Owned, Noted, Carried, Waits, Driven, Helped, schedVars
  <2>3. Versions'
    BY <2>1, VersionsKept DEF schedVars
  <2> QED BY <1>1, <2>2, <2>3 DEF Served
<1>4. CASE submit(c) \/ schedule_resumed(c) \/ schedule_active(c)
  BY <1>1, <1>4, ClientSubmitServed, ScheduleResumedServed, ScheduleActiveServed DEF Served
<1>5. CASE \E t \in Tasks :
             \/ create_crawl_task(c, t) \/ resume_task(c, t) \/ interact(c, t)
             \/ \E to \in {"paused", "cancelled"} : request_status(c, t, to)
  <2>1. UNCHANGED scheduled_versions
    BY <1>5 DEF schedVars, create_crawl_task, resume_task, interact, request_status
  <2>2. \A u \in Tasks : Owned(u)'
    BY <1>5, CreateServed, ResumeTaskServed, InteractServed, RequestServed
  <2> QED BY <1>1, <2>1, <2>2, VersionsKept DEF Served
<1>6. CASE submit_get(c) \/ request_cas(c) \/ resume_cas(c) \/ rollback_resume(c)
           \/ fail_unscheduled(c)
  <2>1. UNCHANGED scheduled_versions
    BY <1>6 DEF schedVars, submit_get, request_cas, resume_cas, rollback_resume, fail_unscheduled
  <2>2. \A u \in Tasks : Owned(u)'
    BY <1>1, <1>6, SubmitGetServed, RequestCasServed, ResumeCasServed, RollbackServed,
       FailUnscheduledServed
  <2> QED BY <1>1, <2>1, <2>2, VersionsKept DEF Served
<1> QED BY <1>2, <1>3, <1>4, <1>5, <1>6, NotCompensated DEF Begins, Continues

LEMMA ServedStep ==
  ASSUME IInv, Served, Undisturbed, [Next]_vars
  PROVE  Served'
<1>1. CASE UNCHANGED vars
  BY <1>1 DEF vars, Served, Versions, Open, Owned, Noted, Carried, Waits, Driven, Helped
<1>2. CASE Reconcile
  <2>4. UNCHANGED threads \/ \E th : Goto(Reconciler, th)
    BY <1>2 DEF Reconcile, reconciler_list, reconciler_get, reconciler_submit
  <2>5. \A c \in Clients : c \in Threads /\ c # Reconciler
    BY ThreadNames, ExecutorAssumption
  <2>1. \A c \in Clients : threads'[c] = threads[c]
    BY <2>4, <2>5, Moved, ThreadNames
  <2>2. UNCHANGED closing
    BY <1>2 DEF Reconcile, reconciler_list, reconciler_get, reconciler_submit
  <2>3. Open'
    BY <2>1, <2>2 DEF Served, Open
  <2> QED BY <1>2, <2>3, ReconcileServed DEF Served
<1> QED BY <1>1, <1>2, WorkerServed, ClientServed, RestartServed DEF Next

LEMMA ServedOwned ==
  ASSUME IInv, Served
  PROVE  ActiveIsOwned
<1> SUFFICES ASSUME NEW t \in Tasks, tasks[t].status \in ACTIVE_STATUSES, t \notin scheduled
             PROVE  \E p \in Threads :
                      /\ threads[p].task = t
                      /\ threads[p].pc \in {"schedule", "unscheduled", "schedule_resumed",
                                            "rollback"}
  BY DEF ActiveIsOwned
<1>1. Helped(t)
  BY PlacedOut DEF Served, Owned, Active
<1> QED BY <1>1 DEF Helped, Helps

\* A task in an active status is owned, as long as nobody is paused before the first claim.
THEOREM ActiveTasksAreOwned ==
  ASSUME Undisturbed
  PROVE  Spec => []ActiveIsOwned
<1>1. Init => Served
  BY InitiallyServed
<1>2. IInv /\ Served /\ [Next]_vars => Served'
  BY ServedStep
<1>3. IInv /\ Served => ActiveIsOwned
  BY ServedOwned
<1>4. IInv /\ [Next]_vars => IInv'
  BY Inductive
<1>5. Init => IInv
  BY Initially
<1> QED BY <1>1, <1>2, <1>3, <1>4, <1>5, PTL DEF Spec

-----------------------------------------------------------------------------
(* Roll-backs.  The table refuses to roll a task back to recoverable_failed  *)
(* only while it is in created, and a task that was ever suspended with      *)
(* recoverable_failed, or active, does not come back there: Claimed.         *)

Claimed(row) == row.status # "created" /\ row.resume_status # "created"

SoundRow(row) ==
  /\ row.resume_gate = "cleanup" => row.status = "recoverable_failed"
  /\ row.resume_status = "created" => row.status = "paused"
  /\ row.version = 0 => row \in {NoRow, NewTask}

\* What a roll-back may lead to, by the time it comes to it.
Allows(row, rollback) ==
  /\ rollback \in RESUMABLE_STATUSES
  /\ rollback = "recoverable_failed" => Claimed(row)

Returns(th, rows) ==
  /\ th.pc \in {"schedule_resumed", "rollback"} => Allows(rows[th.task], th.goal)
  /\ th.pc = "resume" => Resumable(th.cur)
  /\ th.pc = "apply" => th.cur.status = "waiting_for_user"
  /\ th.pc \in {"returned", "complete"} => th.goal # "created"

NotesInv ==
  \A t \in Tasks : pending_resumes[t] # NoResume => Allows(tasks[t], pending_resumes[t].rollback)

BackInv ==
  /\ \A t \in Tasks : SoundRow(tasks[t])
  /\ \A p \in Threads : Returns(threads[p], tasks)
  /\ NotesInv

\* What every step does to the rows.
Writes(row, new) == SoundRow(new) /\ (Claimed(row) => Claimed(new))

RowsSound ==
  \A t \in Tasks : SoundRow(tasks'[t]) /\ (tasks[t] \in LiveRow => Writes(tasks[t], tasks'[t]))

LEMMA WrittenSound ==
  ASSUME NEW row \in LiveRow, SoundRow(row), NEW to \in TaskStatus,
         row.resume_gate = "cleanup" => to \in Exits,
         row.status = "created" => to # "recoverable_failed",
         to = "created" => row.resume_status = "created"
  PROVE  Writes(row, Transitioned(row, to))
BY DEF Writes, SoundRow, Claimed, Transitioned, LiveRow, RESUMABLE_STATUSES, NONE

\* The table and its checks are all of that.
LEMMA AllowedSound ==
  ASSUME NEW row \in LiveRow, SoundRow(row), NEW to, CanTransition(row, to)
  PROVE  Writes(row, Transitioned(row, to))
<1>1. to \in TaskStatus
  BY AllowedTargets
<1>2. row.status = "created" => to # "recoverable_failed"
  BY DEF CanTransition, ALLOWED_TRANSITIONS
<1>3. to = "created" => row.resume_status = "created"
  BY DEF CanTransition, ALLOWED_TRANSITIONS, RESUMABLE_STATUSES, Exits, OriginStatus, LiveRow,
         TaskStatus, ACTIVE_STATUSES, TERMINAL_STATUSES
<1> QED BY <1>1, <1>2, <1>3, WrittenSound DEF CanTransition

LEMMA LostSound ==
  ASSUME NEW row \in LiveRow, SoundRow(row)
  PROVE  Writes(row, Lost(row))
BY DEF Writes, SoundRow, Claimed, Lost, LiveRow

\* A row whose gate is down, in a status no suspended row has.
LEMMA AtWork ==
  ASSUME NEW row \in LiveRow, SoundRow(row),
         row.status \in {"ready", "waiting_for_user"} \cup ACTIVE_STATUSES,
         NEW to \in TaskStatus \ {"created"}
  PROVE  Writes(row, Transitioned(row, to))
<1>1. row.resume_gate # "cleanup" /\ row.status # "created"
  BY DEF SoundRow, ACTIVE_STATUSES
<1> QED BY <1>1, WrittenSound

LEMMA AppliedSound ==
  ASSUME NEW row \in LiveRow, SoundRow(row), row.status \in {"probing", "waiting_for_user"},
         NEW kind \in ResolutionKind
  PROVE  Writes(row, Applied(row, kind))
<1>1. Writes(row, row)
  BY DEF Writes
<1>2. Writes(row, Gated(row))
  BY DEF Writes, SoundRow, Claimed, Gated, LiveRow, NONE
<1>3. \A to \in {"validating", "waiting_for_user", "terminal_failed", "cancelled", "recoverable_failed"} :
        Writes(row, Transitioned(row, to))
  BY AtWork DEF ACTIVE_STATUSES, TaskStatus, RESUMABLE_STATUSES, TERMINAL_STATUSES
<1> QED BY <1>1, <1>2, <1>3, LostSound DEF Applied, ResolutionKind

-----------------------------------------------------------------------------
\* One row is written.
LEMMA PutSound ==
  ASSUME Types, BackInv, NEW t \in Tasks, NEW row, Put(t, row), Writes(tasks[t], row)
  PROVE  RowsSound
<1> SUFFICES ASSUME NEW u \in Tasks PROVE SoundRow(tasks'[u]) /\ Writes(tasks[u], tasks'[u])
  BY DEF RowsSound
<1>1. tasks'[u] = tasks[u] \/ (u = t /\ tasks'[u] = row)
  BY DEF Types, Put
<1> QED BY <1>1 DEF BackInv, Writes

LEMMA KeptSound ==
  ASSUME BackInv, UNCHANGED tasks
  PROVE  RowsSound
BY DEF BackInv, RowsSound, Writes

\* The row a thread is about to write.
LEMMA MyRow ==
  ASSUME IInv, BackInv, NEW p \in Threads, threads[p].pc \notin Resting
  PROVE  /\ Types /\ threads[p].task \in Tasks /\ tasks[threads[p].task] \in LiveRow
         /\ SoundRow(tasks[threads[p].task]) /\ Returns(threads[p], tasks)
         /\ Writes(tasks[threads[p].task], tasks[threads[p].task])
BY MyThread, MyTypes DEF BackInv, Writes

LEMMA ApplySound ==
  ASSUME IInv, BackInv, NEW p \in Threads, NEW kind \in Kinds, apply_result(p, kind),
         \/ threads[p].pc = "handler" /\ threads[p].cur.status = "probing"
         \/ threads[p].pc = "apply"
  PROVE  RowsSound
<1> DEFINE t == threads[p].task
           row == IF Fresh(p) THEN Applied(tasks[t], kind) ELSE tasks[t]
<1>1. threads[p].pc \in Informed /\ threads[p].pc \notin Resting /\ Put(t, row)
  BY DEF Informed, Resting, apply_result
<1>2. /\ Types /\ t \in Tasks /\ tasks[t] \in LiveRow /\ SoundRow(tasks[t])
      /\ Writes(tasks[t], tasks[t]) /\ Returns(threads[p], tasks)
  BY <1>1, MyRow
<1>3. ASSUME Fresh(p) PROVE Writes(tasks[t], Applied(tasks[t], kind))
  <2>1. tasks[t].status \in {"probing", "waiting_for_user"}
    BY <1>1, <1>2, <1>3, FreshRow DEF Returns
  <2> QED BY <1>2, <2>1, AppliedSound, ExecutorAssumption
<1> QED BY <1>1, <1>2, <1>3, PutSound

LEMMA FailUnscheduledSound ==
  ASSUME IInv, BackInv, NEW p \in Threads, fail_unscheduled(p)
  PROVE  RowsSound
<1> DEFINE t == threads[p].task
           row == IF Fresh(p) THEN Transitioned(tasks[t], "recoverable_failed") ELSE tasks[t]
<1>1. threads[p].pc = "unscheduled" /\ threads[p].pc \in Informed /\ Put(t, row)
  BY DEF Informed, fail_unscheduled, At
<1>2. /\ Types /\ t \in Tasks /\ tasks[t] \in LiveRow /\ SoundRow(tasks[t])
      /\ Writes(tasks[t], tasks[t])
  BY <1>1, MyRow DEF Resting
<1>3. ASSUME Fresh(p) PROVE Writes(tasks[t], Transitioned(tasks[t], "recoverable_failed"))
  <2>1. tasks[t].status \in ACTIVE_STATUSES
    BY <1>1, <1>3, FreshRow, MyThread DEF ThreadInv, Working
  <2> QED BY <1>2, <2>1, AtWork, RowFacts DEF Failures
<1> QED BY <1>1, <1>2, <1>3, PutSound

LEMMA RollbackSound ==
  ASSUME IInv, BackInv, NEW p \in Threads, rollback_resume(p)
  PROVE  RowsSound
<1> DEFINE t == threads[p].task
<1>1. threads[p].pc \notin Resting
  BY DEF rollback_resume, At, Resting
<1>2. Types /\ t \in Tasks /\ tasks[t] \in LiveRow /\ SoundRow(tasks[t])
  BY <1>1, MyRow
<1>3. UNCHANGED tasks \/ (/\ CanTransition(tasks[t], threads[p].goal)
                          /\ Put(t, Transitioned(tasks[t], threads[p].goal)))
  BY DEF rollback_resume
<1> QED BY <1>2, <1>3, AllowedSound, PutSound, KeptSound

LEMMA WorkerSound ==
  ASSUME IInv, BackInv, NEW w \in Workers, Worker(w)
  PROVE  RowsSound
<1> DEFINE me == threads[w]
           t == me.task
<1>1. w \in Threads /\ Types
  BY ThreadNames, MyTypes
<1>2. CASE claim(w)
  <2> DEFINE to == ClaimTarget(me.cur.status)
  <2>1. me.pc = "claim" /\ me.pc \in Informed /\ me.cur.status \in {"created", "ready"}
    BY <1>1, <1>2, MyThread DEF claim, At, Informed, ThreadInv
  <2>2. t \in Tasks /\ tasks[t] \in LiveRow /\ SoundRow(tasks[t])
    BY <1>1, <2>1, MyRow DEF Resting
  <2>3. CASE Fresh(w) /\ Put(t, Transitioned(tasks[t], to))
    <3>1. tasks[t].status \in {"created", "ready"}
      BY <1>1, <2>1, <2>3, FreshRow
    <3>2. to \in {"probing", "crawling"}
      BY DEF ClaimTarget
    <3>3. to \in TaskStatus /\ to # "created" /\ to # "recoverable_failed"
      BY <3>2 DEF TaskStatus, ACTIVE_STATUSES
    <3>4. tasks[t].resume_gate # "cleanup"
      BY <2>2, <3>1 DEF SoundRow
    <3> HIDE DEF to
    <3>5. Writes(tasks[t], Transitioned(tasks[t], to))
      BY <2>2, <3>3, <3>4, WrittenSound
    <3> QED BY <1>1, <2>2, <2>3, <3>5, PutSound
  <2> QED BY <1>2, <2>3, KeptSound DEF claim
<1>3. CASE probe_handler(w)
  BY <1>1, <1>3, ApplySound DEF probe_handler, At
<1>4. CASE complete(w)
  <2>1. me.pc = "complete" /\ me.pc \in Informed /\ me.cur.status \in ACTIVE_STATUSES /\ me.goal \in TaskStatus
    BY <1>1, <1>4, MyThread DEF complete, At, Informed, ThreadInv, Working
  <2>2. t \in Tasks /\ tasks[t] \in LiveRow /\ SoundRow(tasks[t]) /\ me.goal # "created"
    BY <1>1, <2>1, MyRow DEF Resting, Returns
  <2>3. CASE Fresh(w) /\ Put(t, Transitioned(tasks[t], me.goal))
    <3>1. tasks[t].status \in ACTIVE_STATUSES
      BY <1>1, <2>1, <2>3, FreshRow
    <3> QED BY <1>1, <2>1, <2>2, <2>3, <3>1, AtWork, PutSound
  <2> QED BY <1>4, <2>3, KeptSound DEF complete
<1>5. CASE ready_handoff(w)
  <2>1. me.pc = "handoff" /\ me.pc \in Informed /\ me.cur.status = "ready"
    BY <1>1, <1>5, MyThread DEF ready_handoff, At, Informed, ThreadInv
  <2>2. t \in Tasks /\ tasks[t] \in LiveRow /\ SoundRow(tasks[t])
    BY <1>1, <2>1, MyRow DEF Resting
  <2>3. CASE Fresh(w) /\ Put(t, Transitioned(tasks[t], "crawling"))
    <3>1. tasks[t].status = "ready"
      BY <1>1, <2>1, <2>3, FreshRow
    <3>2. "crawling" \in TaskStatus \ {"created"}
      BY DEF TaskStatus, ACTIVE_STATUSES
    <3> QED BY <1>1, <2>2, <2>3, <3>1, <3>2, AtWork, PutSound
  <2> QED BY <1>5, <2>3, KeptSound DEF ready_handoff
<1>6. CASE record_failure_cas(w)
  <2>1. me.pc \notin Resting
    BY <1>6 DEF record_failure_cas, At, Resting
  <2>2. t \in Tasks /\ tasks[t] \in LiveRow /\ SoundRow(tasks[t])
    BY <1>1, <2>1, MyRow
  <2>3. UNCHANGED tasks \/ (/\ CanTransition(tasks[t], me.goal)
                            /\ Put(t, Transitioned(tasks[t], me.goal)))
    BY <1>6 DEF record_failure_cas
  <2> QED BY <1>1, <2>2, <2>3, AllowedSound, PutSound, KeptSound
<1>7. CASE UNCHANGED tasks
  BY <1>7, KeptSound
<1>8. \/ UNCHANGED tasks \/ claim(w) \/ probe_handler(w) \/ fail_unscheduled(w) \/ complete(w)
      \/ ready_handoff(w) \/ record_failure_cas(w) \/ rollback_resume(w)
  BY DEF Worker, get, exit, load, check_control, handler_stops, handler_returns, handler_raises,
         schedule_active, recheck, record_failure, finish
<1> QED BY <1>1, <1>2, <1>3, <1>4, <1>5, <1>6, <1>7, <1>8, FailUnscheduledSound, RollbackSound

LEMMA ClientSound ==
  ASSUME IInv, BackInv, NEW c \in Clients, Begins(c) \/ Continues(c)
  PROVE  RowsSound
<1> DEFINE me == threads[c]
           t == me.task
<1>1. c \in Threads /\ Types
  BY ClientNames, MyTypes
<1>2. ASSUME NEW u \in Tasks, create_crawl_task(c, u) PROVE RowsSound
  <2>1. tasks[u] = NoRow /\ Put(u, NewTask)
    BY <1>2 DEF create_crawl_task
  <2>2. SoundRow(NewTask)
    BY DEF SoundRow, NewTask, NONE
  <2>3. \A v \in Tasks : tasks'[v] = tasks[v] \/ (tasks[v] \notin LiveRow /\ tasks'[v] = NewTask)
    BY <1>1, <2>1, RowFacts DEF Types, Put
  <2> QED BY <2>2, <2>3 DEF RowsSound, BackInv, Writes
<1>3. CASE interaction_result(c)
  BY <1>1, <1>3, ApplySound DEF interaction_result, At
<1>4. CASE compensate_submission(c)
  <2> DEFINE row == IF tasks[t].version = NewTask.version THEN Transitioned(tasks[t], "paused")
                    ELSE tasks[t]
  <2>1. me.pc \notin Resting /\ Put(t, row)
    BY <1>4 DEF compensate_submission, At, Resting
  <2>2. t \in Tasks /\ tasks[t] \in LiveRow /\ SoundRow(tasks[t]) /\ Writes(tasks[t], tasks[t])
    BY <1>1, <2>1, MyRow
  <2>3. ASSUME tasks[t].version = NewTask.version PROVE Writes(tasks[t], Transitioned(tasks[t], "paused"))
    <3>1. tasks[t] = NewTask
      BY <2>2, <2>3, RowFacts DEF SoundRow, NewTask
    <3>2. NewTask.resume_gate # "cleanup" /\ "paused" \in TaskStatus
      BY DEF NewTask, TaskStatus, RESUMABLE_STATUSES
    <3> QED BY <2>2, <3>1, <3>2, WrittenSound
  <2> QED BY <1>1, <2>1, <2>2, <2>3, PutSound
<1>5. CASE request_cas(c)
  <2>1. me.pc \notin Resting
    BY <1>5 DEF request_cas, At, Resting
  <2>2. t \in Tasks /\ tasks[t] \in LiveRow /\ SoundRow(tasks[t])
    BY <1>1, <2>1, MyRow
  <2>3. UNCHANGED tasks \/ (/\ CanTransition(tasks[t], me.goal)
                            /\ Put(t, Transitioned(tasks[t], me.goal)))
    BY <1>5 DEF request_cas
  <2> QED BY <1>1, <2>2, <2>3, AllowedSound, PutSound, KeptSound
<1>6. CASE resume_cas(c)
  <2> DEFINE to == me.cur.resume_status
  <2>1. me.pc = "resume" /\ me.pc \in Informed
    BY <1>6 DEF resume_cas, At, Informed
  <2>2. /\ t \in Tasks /\ tasks[t] \in LiveRow /\ SoundRow(tasks[t]) /\ Resumable(me.cur)
        /\ to \in TaskStatus
    BY <1>1, <2>1, MyRow, MyThread DEF Resting, Returns, ThreadInv
  <2>3. CASE Fresh(c) /\ Put(t, Transitioned(tasks[t], to))
    <3>1. tasks[t] = me.cur
      BY <1>1, <2>1, <2>3, FreshRow
    <3>2. tasks[t].resume_gate # "cleanup" /\ tasks[t].status # "created" /\ to = tasks[t].resume_status
      BY <2>2, <3>1 DEF Resumable, RESUMABLE_STATUSES
    <3> HIDE DEF to
    <3>3. Writes(tasks[t], Transitioned(tasks[t], to))
      BY <2>2, <3>2, WrittenSound
    <3> QED BY <1>1, <2>2, <2>3, <3>3, PutSound
  <2> QED BY <1>6, <2>3, KeptSound DEF resume_cas
<1>7. CASE UNCHANGED tasks
  BY <1>7, KeptSound
<1>8. CASE Begins(c)
  BY <1>2, <1>7, <1>8 DEF Begins, shutdown, resume_task, interact, request_status
<1>9. CASE Continues(c)
  BY <1>1, <1>3, <1>4, <1>5, <1>6, <1>7, <1>9, FailUnscheduledSound, RollbackSound
     DEF Continues, submit_get, submit, schedule_resumed, schedule_active
<1> QED BY <1>8, <1>9

LEMMA RestartSound ==
  ASSUME IInv, BackInv, restart
  PROVE  RowsSound
<1> SUFFICES ASSUME NEW t \in Tasks PROVE SoundRow(tasks'[t]) /\ Writes(tasks[t], tasks'[t])
  BY DEF RowsSound
<1>1. SoundRow(tasks[t]) /\ tasks'[t] = Recovered(tasks[t]) /\ tasks[t] \in LiveRow \cup {NoRow}
  BY DEF BackInv, restart, IInv, Types
<1>2. CASE tasks[t].status \in ACTIVE_STATUSES \cup {"waiting_for_user"}
  <2>1. tasks[t] \in LiveRow
    BY <1>1, <1>2 DEF NoRow, ACTIVE_STATUSES
  <2>2. Writes(tasks[t], Transitioned(tasks[t], "recoverable_failed")) /\ Writes(tasks[t], Lost(tasks[t]))
    BY <1>1, <1>2, <2>1, AtWork, LostSound, RowFacts DEF Failures
  <2> QED BY <1>1, <1>2, <2>2 DEF Recovered, Writes
<1>3. CASE tasks[t].status \notin ACTIVE_STATUSES \cup {"waiting_for_user"}
  BY <1>1, <1>3 DEF Recovered, Writes
<1> QED BY <1>2, <1>3

LEMMA NextSound ==
  ASSUME IInv, BackInv, [Next]_vars
  PROVE  RowsSound
<1>1. CASE UNCHANGED vars \/ Reconcile
  BY <1>1, ReconcileWrites, KeptSound DEF vars
<1> QED BY <1>1, WorkerSound, ClientSound, RestartSound DEF Next

-----------------------------------------------------------------------------
(* What the threads and the notes promise, when one thread moves.            *)

\* A promise about a row in the table is kept.
LEMMA AllowsKept ==
  ASSUME RowsSound, NEW t \in Tasks, tasks[t] \in LiveRow, NEW rollback, Allows(tasks[t], rollback)
  PROVE  Allows(tasks'[t], rollback)
BY DEF RowsSound, Writes, Allows

LEMMA ReturnsKept ==
  ASSUME IInv, BackInv, RowsSound, NEW p \in Threads
  PROVE  Returns(threads[p], tasks')
<1>1. Returns(threads[p], tasks)
  BY DEF BackInv
<1>2. ASSUME threads[p].pc \in {"schedule_resumed", "rollback"}
      PROVE  Allows(tasks'[threads[p].task], threads[p].goal)
  <2>1. threads[p].task \in Tasks /\ tasks[threads[p].task] \in LiveRow
    BY <1>2, MyThread DEF Resting
  <2> QED BY <1>1, <1>2, <2>1, AllowsKept DEF Returns
<1> QED BY <1>1, <1>2 DEF Returns

\* Whoever has a place is in the table.
LEMMA PlacedRow ==
  ASSUME IInv, NEW t \in scheduled
  PROVE  t \in Tasks /\ tasks[t] \in LiveRow
<1>1. t \in Tasks
  BY DEF IInv, Types
<1>2. CASE \E i \in 1..Len(queue) : queue[i].task = t
  BY <1>1, <1>2 DEF IInv, ListedInv
<1>3. CASE \E w \in Workers : Has(threads[w], t)
  BY <1>1, <1>3, MyThread, ThreadNames, PCNames DEF Has
<1> QED BY <1>1, <1>2, <1>3 DEF IInv, OwnInv

LEMMA NotesKept ==
  ASSUME IInv, BackInv, RowsSound,
         \A t \in Tasks : \/ pending_resumes'[t] \in {pending_resumes[t], NoResume}
                          \/ tasks[t] \in LiveRow /\ Allows(tasks[t], pending_resumes'[t].rollback)
  PROVE  NotesInv'
<1> SUFFICES ASSUME NEW t \in Tasks, pending_resumes'[t] # NoResume
             PROVE  Allows(tasks'[t], pending_resumes'[t].rollback)
  BY DEF NotesInv
<1>1. CASE pending_resumes'[t] = pending_resumes[t]
  <2>1. tasks[t] \in LiveRow
    BY <1>1, PlacedRow DEF IInv, PendingResumeIsCarried
  <2>2. Allows(tasks[t], pending_resumes[t].rollback)
    BY <1>1 DEF BackInv, NotesInv
  <2> QED BY <1>1, <2>1, <2>2, AllowsKept
<1>2. CASE tasks[t] \in LiveRow /\ Allows(tasks[t], pending_resumes'[t].rollback)
  BY <1>2, AllowsKept
<1> QED BY <1>1, <1>2

\* One thread goes on, and keeps what its new pc promises.
Alone(p) == \A q \in Threads \ {p} : threads'[q] = threads[q]

LEMMA BackStep ==
  ASSUME IInv, BackInv, RowsSound, NotesInv', NEW p \in Threads, Alone(p), Returns(threads'[p], tasks')
  PROVE  BackInv'
<1>1. \A t \in Tasks : SoundRow(tasks'[t])
  BY DEF RowsSound
<1>2. \A q \in Threads : Returns(threads'[q], tasks')
  BY ReturnsKept DEF Alone
<1> QED BY <1>1, <1>2 DEF BackInv

LEMMA Went ==
  ASSUME IInv, NEW p \in Threads, NEW th, Goto(p, th)
  PROVE  Alone(p) /\ threads'[p] = th
BY DEF IInv, Types, Goto, Alone

\* To most pcs nothing is promised.
Silent == PCs \ {"schedule_resumed", "rollback", "resume", "apply", "returned", "complete"}

LEMMA SilentPcs ==
  /\ {"idle", "exited", "dead", "load", "claim", "check", "handler", "schedule", "unscheduled",
      "handoff", "fail", "fail_cas", "finish", "get", "submit", "compensate", "request"} \subseteq Silent
  /\ Idle.pc \in Silent
  /\ \A p : Done(p).pc \in Silent
BY PCNames, IdleThread DEF Silent, Done, Idle

\* A step whose thread ends at such a pc.
SilentStep(p) == Alone(p) /\ threads'[p].pc \in Silent

LEMMA SilentGoto ==
  ASSUME IInv, NEW p \in Threads, NEW th, Goto(p, th), th.pc \in Silent
  PROVE  SilentStep(p)
BY Went DEF SilentStep

LEMMA Quietly ==
  ASSUME IInv, BackInv, RowsSound, NEW p \in Threads, SilentStep(p),
         \A t \in Tasks : \/ pending_resumes'[t] \in {pending_resumes[t], NoResume}
                          \/ tasks[t] \in LiveRow /\ Allows(tasks[t], pending_resumes'[t].rollback)
  PROVE  BackInv'
<1>1. Returns(threads'[p], tasks')
  BY DEF SilentStep, Silent, Returns
<1> QED BY <1>1, NotesKept, BackStep DEF SilentStep

\* The thread stays where it is, or goes where the same is promised.
LEMMA StepBack ==
  ASSUME IInv, BackInv, NEW p \in Threads, NEW pc \in PCs, Step(p, pc), UNCHANGED <<tasks, pending_resumes>>,
         pc \in {"schedule_resumed", "rollback"} => threads[p].pc \in {"schedule_resumed", "rollback"},
         pc \in {"returned", "complete"} => threads[p].pc \in {"returned", "complete"},
         pc \notin {"resume", "apply"}
  PROVE  BackInv'
<1> DEFINE new == [threads[p] EXCEPT !.pc = pc]
<1>1. threads[p] \in AThread /\ Returns(threads[p], tasks)
  BY MyThread DEF BackInv
<1>2. new.pc = pc /\ new.task = threads[p].task /\ new.goal = threads[p].goal
  BY <1>1, PcThread
<1>3. Goto(p, new)
  BY DEF Step
<1> HIDE DEF new
<1>4. Returns(new, tasks')
  BY <1>1, <1>2 DEF Returns
<1>5. RowsSound /\ NotesInv'
  BY KeptSound DEF BackInv, NotesInv
<1> QED BY <1>3, <1>4, <1>5, Went, BackStep

-----------------------------------------------------------------------------
LEMMA ApplyBack ==
  ASSUME IInv, BackInv, RowsSound, NEW p \in Threads, NEW kind \in Kinds, apply_result(p, kind)
  PROVE  BackInv'
<1> DEFINE me == threads[p]
           row == IF Fresh(p) THEN Applied(tasks[me.task], kind) ELSE tasks[me.task]
           new == [me EXCEPT !.pc = "schedule", !.cur = row]
<1>1. me \in AThread
  BY MyThread
<1>2. Goto(p, new) \/ Goto(p, Done(p))
  BY DEF apply_result
<1> HIDE DEF me, row
<1>3. new.pc = "schedule"
  BY <1>1 DEF AThread
<1> HIDE DEF new
<1>4. SilentStep(p)
  BY <1>2, <1>3, SilentPcs, Went DEF SilentStep
<1>5. UNCHANGED pending_resumes
  BY DEF apply_result, schedVars
<1> QED BY <1>4, <1>5, Quietly

LEMMA ScheduleActiveBack ==
  ASSUME IInv, BackInv, NEW p \in Threads, schedule_active(p)
  PROVE  BackInv'
<1> DEFINE t == threads[p].task
<1>1. threads[p].pc = "schedule" /\ UNCHANGED tasks
  BY DEF schedule_active, At
<1>2. PICK raised \in BOOLEAN :
        /\ ScheduleActive(t, raised)
        /\ IF raised THEN Step(p, "unscheduled") ELSE Goto(p, Done(p))
  BY DEF schedule_active
<1>3. Types /\ t \in Tasks /\ tasks[t] \in LiveRow /\ SoundRow(tasks[t]) /\ threads[p] \in AThread
  BY <1>1, MyRow, MyThread DEF Resting
<1>4. SilentStep(p)
  <2> DEFINE new == [threads[p] EXCEPT !.pc = "unscheduled"]
  <2>1. CASE Step(p, "unscheduled")
    <3>1. Goto(p, new)
      BY <2>1 DEF Step
    <3>2. new.pc = "unscheduled"
      BY <1>3 DEF AThread
    <3> HIDE DEF new
    <3> QED BY <3>1, <3>2, SilentPcs, SilentGoto
  <2>2. CASE Goto(p, Done(p))
    BY <2>2, SilentPcs, SilentGoto
  <2> QED BY <1>2, <2>1, <2>2
<1>5. CASE UNCHANGED pending_resumes
  BY <1>1, <1>4, <1>5, KeptSound, Quietly
<1>6. CASE /\ tasks[t].status \in ACTIVE_STATUSES
           /\ pending_resumes' = [pending_resumes EXCEPT ![t] =
                [preclaimed |-> TRUE, rollback |-> "recoverable_failed"]]
  <2>1. Allows(tasks[t], "recoverable_failed")
    BY <1>3, <1>6 DEF Allows, Claimed, SoundRow, ACTIVE_STATUSES, RESUMABLE_STATUSES
  <2> DEFINE note == [preclaimed |-> TRUE, rollback |-> "recoverable_failed"]
  <2>2. note.rollback = "recoverable_failed"
    OBVIOUS
  <2>3. pending_resumes' = [pending_resumes EXCEPT ![t] = note]
    BY <1>6
  <2> HIDE DEF note
  <2>4. \A u \in Tasks : pending_resumes'[u] = pending_resumes[u] \/ (u = t /\ pending_resumes'[u] = note)
    BY <1>3, <2>3 DEF Types
  <2> QED BY <1>1, <1>3, <1>4, <2>1, <2>2, <2>4, KeptSound, Quietly
<1> QED BY <1>2, <1>5, <1>6 DEF ScheduleActive, schedVars, Enqueue

LEMMA RollbackBack ==
  ASSUME IInv, BackInv, RowsSound, NEW p \in Threads, rollback_resume(p)
  PROVE  BackInv'
<1> DEFINE me == threads[p]
           read == tasks[me.task]
           tries == me.tries + 1
           again == [me EXCEPT !.cur = read, !.tries = tries]
           gone == [Idle EXCEPT !.pc = "dead"]
<1>1. me.pc = "rollback" /\ UNCHANGED pending_resumes /\ me \in AThread
  BY MyThread DEF rollback_resume, At, schedVars
<1>2. CASE Goto(p, Idle) \/ Goto(p, gone)
  <2>1. gone.pc = "dead"
    BY DEF Idle
  <2> HIDE DEF gone
  <2>2. SilentStep(p)
    BY <1>2, <2>1, SilentPcs, Went DEF SilentStep
  <2> QED BY <1>1, <2>2, Quietly
<1>3. CASE Goto(p, again) /\ UNCHANGED tasks
  <2> HIDE DEF me, read, tries
  <2>1. again.pc = me.pc /\ again.task = me.task /\ again.goal = me.goal
    BY <1>1 DEF AThread
  <2>2. Returns(me, tasks)
    BY DEF BackInv, me
  <2> HIDE DEF again
  <2>3. Returns(again, tasks')
    BY <1>1, <1>3, <2>1, <2>2 DEF Returns
  <2>4. NotesInv'
    BY <1>1, <1>3 DEF BackInv, NotesInv
  <2> QED BY <1>3, <2>3, <2>4, Went, BackStep
<1> QED BY <1>2, <1>3 DEF rollback_resume, RollbackFailed

LEMMA FinishBack ==
  ASSUME IInv, BackInv, NEW w \in Workers, finish(w)
  PROVE  BackInv'
<1> DEFINE t == threads[w].task
           row == tasks[t]
           goal == pending_resumes[t].rollback
           new == [Idle EXCEPT !.pc = "rollback", !.task = t, !.cur = row, !.goal = goal]
<1>1. /\ threads[w].pc = "finish" /\ UNCHANGED tasks /\ w \in Threads
      /\ pending_resumes' = [pending_resumes EXCEPT ![t] = NoResume]
  BY ThreadNames DEF finish, At
<1>2. Types /\ t \in Tasks /\ RowsSound
  BY <1>1, MyRow, KeptSound DEF Resting
<1>3. \A u \in Tasks : pending_resumes'[u] \in {pending_resumes[u], NoResume}
  BY <1>1, <1>2 DEF Types
<1>4. CASE Goto(w, Idle)
  <2>1. SilentStep(w)
    BY <1>1, <1>4, SilentPcs, Went DEF SilentStep
  <2> QED BY <1>1, <1>2, <1>3, <2>1, Quietly
<1>5. CASE pending_resumes[t] # NoResume /\ Goto(w, new)
  <2>1. Allows(tasks[t], goal)
    BY <1>2, <1>5 DEF BackInv, NotesInv
  <2> HIDE DEF row, goal, t
  <2>2. new.pc = "rollback" /\ new.task = t /\ new.goal = goal
    BY DEF Idle
  <2> HIDE DEF new
  <2>3. Returns(new, tasks')
    BY <1>1, <2>1, <2>2 DEF Returns
  <2> QED BY <1>1, <1>2, <1>3, <1>5, <2>3, NotesKept, Went, BackStep
<1> QED BY <1>4, <1>5 DEF finish

\* The worker's steps that end where nothing is promised.
LEMMA WorkerSilent ==
  ASSUME IInv, NEW w \in Workers,
         \/ get(w) \/ exit(w) \/ load(w) \/ claim(w) \/ check_control(w) \/ handler_stops(w)
         \/ handler_raises(w) \/ fail_unscheduled(w) \/ complete(w) \/ ready_handoff(w)
         \/ record_failure(w) \/ record_failure_cas(w)
  PROVE  SilentStep(w) /\ UNCHANGED pending_resumes
<1> DEFINE me == threads[w]
           t == me.task
<1>1. w \in Threads /\ me \in AThread
  BY ThreadNames, MyThread
<1>2. UNCHANGED pending_resumes
  BY DEF get, exit, load, claim, check_control, handler_stops, handler_raises, fail_unscheduled,
         complete, ready_handoff, record_failure, record_failure_cas, schedVars
<1>3. ASSUME Goto(w, Done(w)) PROVE SilentStep(w)
  BY <1>1, <1>3, SilentPcs, SilentGoto
<1>4. ASSUME NEW row, Goto(w, [me EXCEPT !.pc = "check", !.cur = row]) PROVE SilentStep(w)
  <2> DEFINE new == [me EXCEPT !.pc = "check", !.cur = row]
  <2>1. new.pc = "check" /\ Goto(w, new)
    BY <1>1, <1>4 DEF AThread
  <2> HIDE DEF new
  <2> QED BY <1>1, <2>1, SilentPcs, SilentGoto
<1>5. ASSUME Goto(w, Conflicted(w)) PROVE SilentStep(w)
  <2>1. Conflicted(w).pc = "fail"
    BY <1>1 DEF Conflicted, AThread
  <2> QED BY <1>1, <1>5, <2>1, SilentPcs, SilentGoto
<1>6. CASE get(w)
  <2> DEFINE new == [Idle EXCEPT !.pc = "load", !.task = Head(queue).task,
                                 !.preclaimed = Head(queue).preclaimed]
  <2>1. new.pc = "load" /\ Goto(w, new)
    BY <1>6 DEF get, Idle
  <2> HIDE DEF new
  <2> QED BY <1>1, <1>2, <2>1, SilentPcs, SilentGoto
<1>7. CASE exit(w)
  <2> DEFINE new == [Idle EXCEPT !.pc = "exited"]
  <2>1. new.pc = "exited" /\ Goto(w, new)
    BY <1>7 DEF exit, Idle
  <2> HIDE DEF new
  <2> QED BY <1>1, <1>2, <2>1, SilentPcs, SilentGoto
<1>8. CASE load(w)
  <2> DEFINE check == [me EXCEPT !.pc = "check", !.cur = tasks[t], !.preclaimed = FALSE]
             claims == [me EXCEPT !.pc = "claim", !.cur = tasks[t]]
  <2>1. check.pc = "check" /\ claims.pc = "claim"
    BY <1>1 DEF AThread
  <2>2. Goto(w, check) \/ Goto(w, claims) \/ Goto(w, Done(w))
    BY <1>8 DEF load
  <2> HIDE DEF check, claims
  <2> QED BY <1>1, <1>2, <1>3, <2>1, <2>2, SilentPcs, SilentGoto
<1>9. CASE claim(w)
  <2> DEFINE row == Transitioned(tasks[t], ClaimTarget(me.cur.status))
  <2>1. Goto(w, [me EXCEPT !.pc = "check", !.cur = row]) \/ Goto(w, Done(w))
    BY <1>9 DEF claim
  <2> HIDE DEF row
  <2> QED BY <1>2, <1>3, <1>4, <2>1
<1>10. CASE check_control(w)
  <2> DEFINE new == [me EXCEPT !.pc = "handler"]
  <2>1. new.pc = "handler" /\ (Goto(w, new) \/ Goto(w, Done(w)))
    BY <1>1, <1>10 DEF check_control, Step, AThread
  <2> HIDE DEF new
  <2> QED BY <1>1, <1>2, <1>3, <2>1, SilentPcs, SilentGoto
<1>11. CASE handler_raises(w)
  <2> DEFINE new(to) == [me EXCEPT !.pc = "fail", !.goal = to]
  <2>1. PICK to : Goto(w, new(to))
    BY <1>11 DEF handler_raises
  <2>2. new(to).pc = "fail"
    BY <1>1 DEF AThread
  <2> HIDE DEF new
  <2> QED BY <1>1, <1>2, <2>1, <2>2, SilentPcs, SilentGoto
<1>12. CASE complete(w)
  <2> DEFINE row == Transitioned(tasks[t], me.goal)
             pc == IF row.status = "ready" THEN "handoff" ELSE "check"
             new == [me EXCEPT !.pc = pc, !.cur = row, !.goal = NONE]
  <2>1. Goto(w, new) \/ Goto(w, Conflicted(w))
    BY <1>12 DEF complete
  <2> HIDE DEF row
  <2>2. new.pc = pc /\ pc \in {"handoff", "check"}
    BY <1>1 DEF AThread
  <2> HIDE DEF new, pc
  <2> QED BY <1>1, <1>2, <1>5, <2>1, <2>2, SilentPcs, SilentGoto
<1>13. CASE ready_handoff(w)
  <2> DEFINE row == Transitioned(tasks[t], "crawling")
  <2>1. Goto(w, [me EXCEPT !.pc = "check", !.cur = row]) \/ Goto(w, Conflicted(w))
    BY <1>13 DEF ready_handoff
  <2> HIDE DEF row
  <2> QED BY <1>2, <1>4, <1>5, <2>1
<1>14. CASE record_failure(w)
  <2> DEFINE new == [me EXCEPT !.pc = "fail_cas", !.latest = tasks[t].version]
  <2>1. new.pc = "fail_cas" /\ (Goto(w, new) \/ Goto(w, Done(w)))
    BY <1>1, <1>14 DEF record_failure, AThread
  <2> HIDE DEF new
  <2> QED BY <1>1, <1>2, <1>3, <2>1, SilentPcs, SilentGoto
<1>15. CASE record_failure_cas(w)
  <2> DEFINE tries == me.tries + 1
             new == [me EXCEPT !.pc = "fail", !.latest = 0, !.tries = tries]
  <2>1. Goto(w, new) \/ Goto(w, Done(w))
    BY <1>15 DEF record_failure_cas
  <2> HIDE DEF tries
  <2>2. new.pc = "fail"
    BY <1>1 DEF AThread
  <2> HIDE DEF new
  <2> QED BY <1>1, <1>2, <1>3, <2>1, <2>2, SilentPcs, SilentGoto
<1>16. CASE handler_stops(w) \/ fail_unscheduled(w)
  BY <1>2, <1>3, <1>16 DEF handler_stops, fail_unscheduled
<1> QED BY <1>6, <1>7, <1>8, <1>9, <1>10, <1>11, <1>12, <1>13, <1>14, <1>15, <1>16

LEMMA WorkerBack ==
  ASSUME IInv, BackInv, NEW w \in Workers, Worker(w)
  PROVE  BackInv'
<1> DEFINE me == threads[w]
<1>1. w \in Threads /\ me \in AThread /\ RowsSound
  BY ThreadNames, MyThread, WorkerSound
<1>2. CASE handler_returns(w)
  <2> DEFINE new(goal) == [me EXCEPT !.pc = "returned", !.goal = goal]
  <2>1. PICK goal \in {"ready", "completed", "recoverable_failed"} : Goto(w, new(goal))
    BY <1>2 DEF handler_returns
  <2>2. new(goal).pc = "returned" /\ new(goal).goal = goal
    BY <1>1 DEF AThread
  <2> HIDE DEF new
  <2>3. Alone(w) /\ Returns(threads'[w], tasks')
    BY <1>1, <2>1, <2>2, Went DEF Returns
  <2>4. NotesInv'
    BY <1>2 DEF handler_returns, schedVars, BackInv, NotesInv
  <2> QED BY <1>1, <2>3, <2>4, BackStep
<1>3. CASE recheck(w)
  <2>1. me.pc = "returned" /\ UNCHANGED <<tasks, pending_resumes>>
    BY <1>3 DEF recheck, At, schedVars
  <2>2. CASE Step(w, "complete")
    BY <1>1, <2>1, <2>2, StepBack, PCNames
  <2>3. CASE Goto(w, Done(w))
    BY <1>1, <2>1, <2>3, SilentPcs, SilentGoto, Quietly
  <2> QED BY <1>3, <2>2, <2>3 DEF recheck
<1>4. CASE probe_handler(w)
  BY <1>1, <1>4, ApplyBack DEF probe_handler
<1>5. \/ handler_returns(w) \/ recheck(w) \/ probe_handler(w) \/ schedule_active(w) \/ finish(w)
      \/ rollback_resume(w) \/ (SilentStep(w) /\ UNCHANGED pending_resumes)
  BY WorkerSilent DEF Worker
<1> QED BY <1>1, <1>2, <1>3, <1>4, <1>5, Quietly, ScheduleActiveBack, RollbackBack, FinishBack

-----------------------------------------------------------------------------
\* The client's steps that end where nothing is promised.
LEMMA ClientSilent ==
  ASSUME IInv, NEW c \in Clients,
         \/ \E t \in Tasks : create_crawl_task(c, t)
         \/ \E t \in Tasks, to \in {"paused", "cancelled"} : request_status(c, t, to)
         \/ submit_get(c) \/ submit(c) \/ compensate_submission(c) \/ request_cas(c)
         \/ fail_unscheduled(c)
  PROVE  SilentStep(c) /\ UNCHANGED pending_resumes
<1> DEFINE me == threads[c]
<1>1. c \in Threads /\ me \in AThread
  BY ClientNames, MyThread
<1>2. UNCHANGED pending_resumes
  BY DEF create_crawl_task, request_status, submit_get, submit, Submit, Enqueue,
         compensate_submission, request_cas, fail_unscheduled, schedVars
<1>3. ASSUME Goto(c, Idle) PROVE SilentStep(c)
  BY <1>1, <1>3, SilentPcs, SilentGoto
<1>4. ASSUME NEW t \in Tasks, create_crawl_task(c, t) PROVE SilentStep(c)
  <2> DEFINE new == [Idle EXCEPT !.pc = "get", !.task = t, !.goal = "paused"]
  <2>1. new.pc = "get" /\ Goto(c, new)
    BY <1>4 DEF create_crawl_task, Idle
  <2> HIDE DEF new
  <2> QED BY <1>1, <2>1, SilentPcs, SilentGoto
<1>5. ASSUME NEW t \in Tasks, NEW to, request_status(c, t, to) PROVE SilentStep(c)
  <2> DEFINE new == [Idle EXCEPT !.pc = "request", !.task = t, !.cur = tasks[t], !.goal = to]
  <2>1. new.pc = "request" /\ Goto(c, new)
    BY <1>5 DEF request_status, Idle
  <2> HIDE DEF new
  <2> QED BY <1>1, <2>1, SilentPcs, SilentGoto
<1>6. CASE submit_get(c)
  <2> DEFINE new == [me EXCEPT !.pc = "submit", !.cur = tasks[me.task]]
  <2>1. new.pc = "submit" /\ Goto(c, new)
    BY <1>1, <1>6 DEF submit_get, AThread
  <2> HIDE DEF new
  <2> QED BY <1>1, <1>2, <2>1, SilentPcs, SilentGoto
<1>7. CASE submit(c)
  <2> DEFINE new == [me EXCEPT !.pc = "compensate"]
  <2>1. new.pc = "compensate" /\ (Goto(c, new) \/ Goto(c, Idle))
    BY <1>1, <1>7 DEF submit, Step, AThread
  <2> HIDE DEF new
  <2> QED BY <1>1, <1>2, <1>3, <2>1, SilentPcs, SilentGoto
<1>8. CASE request_cas(c)
  <2> DEFINE row == tasks[me.task]
             new == [me EXCEPT !.cur = row]
  <2>1. Goto(c, new) \/ Goto(c, Idle)
    BY <1>8 DEF request_cas
  <2> HIDE DEF row
  <2>2. new.pc = "request"
    BY <1>1, <1>8 DEF AThread, request_cas, At
  <2> HIDE DEF new
  <2> QED BY <1>1, <1>2, <1>3, <2>1, <2>2, SilentPcs, SilentGoto
<1>9. CASE compensate_submission(c)
  BY <1>2, <1>3, <1>9 DEF compensate_submission
<1>10. CASE fail_unscheduled(c)
  BY <1>1, <1>2, <1>10, SilentPcs, SilentGoto DEF fail_unscheduled
<1> QED BY <1>2, <1>4, <1>5, <1>6, <1>7, <1>8, <1>9, <1>10

\* A client begins to resume a task, or to answer for one that waits.
LEMMA ResumeTaskBack ==
  ASSUME IInv, BackInv, NEW c \in Clients, NEW t \in Tasks, resume_task(c, t) \/ interact(c, t)
  PROVE  BackInv'
<1>1. c \in Threads /\ UNCHANGED <<tasks, pending_resumes>> /\ RowsSound
  BY ClientNames, KeptSound DEF resume_task, interact, schedVars
<1>2. NotesInv'
  BY <1>1 DEF BackInv, NotesInv
<1> DEFINE resumes == [Idle EXCEPT !.pc = "resume", !.task = t, !.cur = tasks[t]]
           gets == [Idle EXCEPT !.pc = "get", !.task = t]
           applies == [Idle EXCEPT !.pc = "apply", !.task = t, !.cur = tasks[t]]
<1>3. /\ resumes.pc = "resume" /\ resumes.cur = tasks[t] /\ gets.pc = "get"
      /\ applies.pc = "apply" /\ applies.cur = tasks[t]
  BY DEF Idle
<1>4. \/ Resumable(tasks[t]) /\ Goto(c, resumes)
      \/ Goto(c, gets)
      \/ tasks[t].status = "waiting_for_user" /\ Goto(c, applies)
  BY DEF resume_task, interact
<1> HIDE DEF resumes, gets, applies
<1>5. Alone(c) /\ Returns(threads'[c], tasks')
  BY <1>1, <1>3, <1>4, Went DEF Returns
<1> QED BY <1>1, <1>2, <1>5, BackStep

LEMMA ResumeCasBack ==
  ASSUME IInv, BackInv, RowsSound, NEW c \in Clients, resume_cas(c)
  PROVE  BackInv'
<1> DEFINE me == threads[c]
           t == me.task
           row == tasks[t]
           to == me.cur.resume_status
           resumed == Transitioned(row, to)
           preclaimed == resumed.status \in ACTIVE_STATUSES
           new == [me EXCEPT !.pc = "schedule_resumed", !.cur = resumed, !.goal = row.status,
                             !.preclaimed = preclaimed]
           again == [me EXCEPT !.cur = row]
<1>1. c \in Threads /\ me \in AThread /\ UNCHANGED pending_resumes /\ me.pc = "resume" /\ me.pc \in Informed
  BY ClientNames, MyThread DEF resume_cas, schedVars, At, Informed
<1>2. t \in Tasks /\ row \in LiveRow /\ SoundRow(row) /\ Resumable(me.cur)
  BY <1>1, MyRow DEF Resting, Returns
<1>3. NotesInv'
  BY <1>1, NotesKept
<1>4. \/ Goto(c, Idle)
      \/ Fresh(c) /\ Goto(c, new)
      \/ Resumable(row) /\ Goto(c, again)
  BY DEF resume_cas
<1>5. CASE Goto(c, Idle)
  BY <1>1, <1>5, SilentPcs, SilentGoto, Quietly
<1>6. CASE Fresh(c) /\ Goto(c, new)
  <2>1. row = me.cur
    BY <1>1, <1>6, FreshRow
  <2>2. row.status \in RESUMABLE_STATUSES /\ (row.status = "recoverable_failed" => Claimed(row))
    BY <1>2, <2>1 DEF Resumable, SoundRow, Claimed
  <2>3. Claimed(row) => Claimed(tasks'[t])
    BY <1>2 DEF RowsSound, Writes
  <2>4. Allows(tasks'[t], row.status)
    BY <2>2, <2>3 DEF Allows
  <2> HIDE DEF row, resumed, preclaimed
  <2>5. new.pc = "schedule_resumed" /\ new.task = t /\ new.goal = row.status
    BY <1>1 DEF AThread
  <2> HIDE DEF new, t
  <2>6. Alone(c) /\ Returns(threads'[c], tasks')
    BY <1>1, <1>6, <2>4, <2>5, Went DEF Returns
  <2> QED BY <1>1, <1>3, <2>6, BackStep
<1>7. CASE Resumable(row) /\ Goto(c, again)
  <2> HIDE DEF row
  <2>1. again.pc = "resume" /\ again.cur = row
    BY <1>1 DEF AThread
  <2> HIDE DEF again
  <2>2. Alone(c) /\ Returns(threads'[c], tasks')
    BY <1>1, <1>7, <2>1, Went DEF Returns
  <2> QED BY <1>1, <1>3, <2>2, BackStep
<1> QED BY <1>4, <1>5, <1>6, <1>7

LEMMA ScheduleResumedBack ==
  ASSUME IInv, BackInv, NEW c \in Clients, schedule_resumed(c)
  PROVE  BackInv'
<1> DEFINE me == threads[c]
           t == me.task
           note == [preclaimed |-> me.preclaimed, rollback |-> me.goal]
<1>1. c \in Threads /\ me \in AThread /\ UNCHANGED tasks /\ me.pc = "schedule_resumed" /\ RowsSound
  BY ClientNames, MyThread, KeptSound DEF schedule_resumed, At
<1>2. t \in Tasks /\ tasks[t] \in LiveRow /\ Types /\ Allows(tasks[t], me.goal)
  BY <1>1, MyRow DEF Resting, Returns
<1>3. \/ Step(c, "rollback") /\ UNCHANGED pending_resumes
      \/ Goto(c, Idle) /\ \/ UNCHANGED pending_resumes
                          \/ pending_resumes' = [pending_resumes EXCEPT ![t] = note]
  BY DEF schedule_resumed, ScheduleResumed, Enqueue, schedVars
<1>4. CASE Step(c, "rollback") /\ UNCHANGED pending_resumes
  BY <1>1, <1>4, StepBack, PCNames
<1>5. CASE Goto(c, Idle) /\ \/ UNCHANGED pending_resumes
                            \/ pending_resumes' = [pending_resumes EXCEPT ![t] = note]
  <2>1. SilentStep(c)
    BY <1>1, <1>5, SilentPcs, SilentGoto
  <2>2. note.rollback = me.goal
    OBVIOUS
  <2> HIDE DEF note
  <2>3. \A u \in Tasks : pending_resumes'[u] = pending_resumes[u] \/ (u = t /\ pending_resumes'[u] = note)
    BY <1>2, <1>5 DEF Types
  <2> QED BY <1>1, <1>2, <2>1, <2>2, <2>3, Quietly
<1> QED BY <1>3, <1>4, <1>5

\* Nothing moves that is spoken of.
LEMMA KeptBack ==
  ASSUME BackInv, UNCHANGED <<tasks, pending_resumes, threads>>
  PROVE  BackInv'
BY DEF BackInv, NotesInv

LEMMA ClientBack ==
  ASSUME IInv, BackInv, NEW c \in Clients, Begins(c) \/ Continues(c)
  PROVE  BackInv'
<1>1. c \in Threads /\ RowsSound
  BY ClientNames, ClientSound
<1>2. ASSUME SilentStep(c), UNCHANGED pending_resumes PROVE BackInv'
  BY <1>1, <1>2, Quietly
<1>3. CASE Begins(c)
  <2>1. CASE shutdown(c)
    BY <2>1, KeptBack DEF shutdown, schedVars
  <2>2. ASSUME NEW t \in Tasks, resume_task(c, t) \/ interact(c, t) PROVE BackInv'
    BY <2>2, ResumeTaskBack
  <2> QED BY <1>2, <1>3, <2>1, <2>2, ClientSilent DEF Begins
<1>4. CASE interaction_result(c)
  BY <1>1, <1>4, ApplyBack DEF interaction_result
<1>5. CASE Continues(c)
  BY <1>1, <1>2, <1>4, <1>5, ClientSilent, ResumeCasBack, ScheduleResumedBack, RollbackBack,
     ScheduleActiveBack DEF Continues
<1> QED BY <1>3, <1>5

LEMMA ReconcileBack ==
  ASSUME IInv, BackInv, Reconcile
  PROVE  BackInv'
<1>1. UNCHANGED <<tasks, pending_resumes>> /\ RowsSound /\ Reconciler \in Threads
  BY ThreadNames, KeptSound DEF Reconcile, reconciler_list, reconciler_get, reconciler_submit,
     Submit, Enqueue, schedVars
<1> DEFINE u == CHOOSE u \in todo : \A v \in todo : u <= v
           new == [Idle EXCEPT !.pc = "submit", !.task = u, !.cur = tasks[u]]
<1>2. CASE reconciler_list
  BY <1>2, KeptBack DEF reconciler_list, schedVars
<1>3. Reconcile /\ ~reconciler_list => Goto(Reconciler, new) \/ Goto(Reconciler, Idle)
  BY DEF Reconcile, reconciler_get, reconciler_submit
<1> HIDE DEF u
<1>4. new.pc = "submit"
  BY DEF Idle
<1> HIDE DEF new
<1> QED BY <1>1, <1>2, <1>3, <1>4, SilentPcs, SilentGoto, Quietly

\* A process that is built.
LEMMA BuiltBack ==
  ASSUME threads = [p \in Threads |-> Idle], pending_resumes = [t \in Tasks |-> NoResume],
         \A t \in Tasks : SoundRow(tasks[t])
  PROVE  BackInv
<1>1. \A p \in Threads : threads[p].pc = "idle"
  BY IdleThread
<1> QED BY <1>1 DEF BackInv, NotesInv, Returns

LEMMA InitiallyBack == Init => BackInv
<1> SUFFICES ASSUME Init PROVE BackInv
  OBVIOUS
<1>1. \A row \in {NoRow, NewTask} : SoundRow(row)
  BY DEF SoundRow, NoRow, NewTask, NONE
<1>2. \A t \in Tasks : SoundRow(tasks[t])
  BY <1>1, ExecutorAssumption DEF Init
<1> QED BY <1>2, BuiltBack DEF Init

LEMMA RestartBack ==
  ASSUME IInv, BackInv, restart
  PROVE  BackInv'
<1>1. \A t \in Tasks : SoundRow(tasks'[t])
  BY RestartSound DEF RowsSound
<1>2. threads' = [p \in Threads |-> Idle] /\ pending_resumes' = [t \in Tasks |-> NoResume]
  BY DEF restart
<1>3. \A p \in Threads : threads'[p].pc = "idle"
  BY <1>2, IdleThread
<1> QED BY <1>1, <1>2, <1>3 DEF BackInv, NotesInv, Returns

LEMMA NextBack ==
  ASSUME IInv, BackInv, [Next]_vars
  PROVE  BackInv'
<1>1. CASE UNCHANGED vars
  BY <1>1, KeptBack DEF vars, schedVars
<1> QED BY <1>1, WorkerBack, ClientBack, ReconcileBack, RestartBack DEF Next

LEMMA BackAllowed == IInv /\ BackInv => RollbackIsAllowed
<1> SUFFICES ASSUME IInv, BackInv, NEW p \in Threads, At(p, "rollback"), Fresh(p),
                    threads[p].cur.status \notin TERMINAL_STATUSES \cup RESUMABLE_STATUSES
             PROVE  CanTransition(tasks[threads[p].task], threads[p].goal)
  BY DEF RollbackIsAllowed
<1> DEFINE me == threads[p]
           row == tasks[me.task]
<1>1. me.pc = "rollback" /\ me.pc \in Informed
  BY DEF At, Informed
<1>2. row \in LiveRow /\ SoundRow(row) /\ Allows(row, me.goal) /\ row = me.cur
  BY <1>1, MyRow, FreshRow DEF Resting, Returns
<1>3. /\ row.resume_gate # "cleanup"
      /\ row.status \in {"created", "probing", "validating", "waiting_for_user", "ready", "crawling"}
  BY <1>2 DEF SoundRow, LiveRow, TaskStatus, ACTIVE_STATUSES, RESUMABLE_STATUSES, TERMINAL_STATUSES
<1>4. me.goal \in {"paused", "recoverable_failed"}
      /\ (me.goal = "recoverable_failed" => row.status # "created")
  BY <1>2 DEF Allows, Claimed, RESUMABLE_STATUSES
<1> HIDE DEF me, row
<1>5. me.goal \in ALLOWED_TRANSITIONS(row.status)
  BY <1>3, <1>4 DEF ALLOWED_TRANSITIONS
<1> QED BY <1>2, <1>3, <1>5 DEF CanTransition, me, row

(* A roll-back that nobody overtakes is a transition the table allows: the worker that carries
   the note of a resume, and the client whose resume is refused, never meet the
   InvalidTaskTransition that raises resume_rollback_failed (executor.py:514) and ends a
   worker's thread.  Eight conflicts in a row end it as well, and are not excluded. *)
THEOREM RollbacksAreAllowed == Spec => []RollbackIsAllowed
<1>1. Spec => []BackInv
  <2>1. IInv /\ BackInv /\ [Next]_vars => BackInv'
    BY NextBack
  <2> QED BY <2>1, InitiallyBack, Invariance, PTL DEF Spec
<1> QED BY <1>1, BackAllowed, Invariance, PTL

=============================================================================
