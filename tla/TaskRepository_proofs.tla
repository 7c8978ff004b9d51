------------------------ MODULE TaskRepository_proofs ------------------------
(***************************************************************************)
(* Proofs about what tasks.db promises, and about the crawl that works      *)
(* from it: TaskRepository, for every set of tasks and callers and every   *)
(* bound, and ChapterBatch, whose runs are started for a version of the    *)
(* task's row and save their checkpoint in the same database.              *)
(*                                                                         *)
(* TaskRepository first.  RowInv is the part of the invariant that speaks  *)
(* of one row; the row lemmas show that each operation writes a row that   *)
(* has it, and WriteStep that writing such a row keeps the rest.           *)
(***************************************************************************)
EXTENDS TaskRepository, ChapterBatch, SequenceTheorems, FiniteSetTheorems, WellFoundedInduction,
        TLAPS

RowInv(row) ==
  /\ row.resume_status # NONE <=> row.status \in RESUMABLE_STATUSES
  /\ row.resume_gate = "cleanup" => row.status = "recoverable_failed"

RowsInv == \A t \in Tasks : RowInv(tasks[t])

IInv == TypeOK /\ VersionNamesRow /\ RowsInv

\* A row an operation may write over row.
Succeeds(new, row) ==
  new \in TaskRow /\ new.version = row.version + 1 /\ RowInv(new)

-----------------------------------------------------------------------------
(* The rows the operations write. *)

LEMMA TransitionedRow ==
  ASSUME NEW row \in TaskRow, RowInv(row), NEW to \in TaskStatus, CanTransition(row, to)
  PROVE  Succeeds(Transitioned(row, to), row)
<1>1. to \in RESUMABLE_STATUSES => row.status \in OriginStatus
  BY DEF CanTransition, ALLOWED_TRANSITIONS, OriginStatus, TaskStatus, TaskRow,
         RESUMABLE_STATUSES, TERMINAL_STATUSES, ACTIVE_STATUSES, Exits
<1>2. row.resume_gate = "cleanup" => to \in Exits
  BY DEF CanTransition
<1>3. Transitioned(row, to) \in TaskRow
  BY <1>1 DEF Transitioned, TaskRow, ResumeGate, Exits, NONE
<1>4. RowInv(Transitioned(row, to))
  BY <1>1, <1>2 DEF Transitioned, RowInv, TaskRow, ResumeGate, Exits, NONE,
     RESUMABLE_STATUSES, OriginStatus, TaskStatus, TERMINAL_STATUSES, ACTIVE_STATUSES
<1> QED BY <1>3, <1>4 DEF Succeeds, Transitioned

LEMMA GatedRow ==
  ASSUME NEW row \in TaskRow, RowInv(row), row.status \in CleanupSources
  PROVE  Succeeds(Gated(row), row)
BY DEF Succeeds, Gated, TaskRow, RowInv, CleanupSources, ResumeGate, NONE, OriginStatus,
       TaskStatus, RESUMABLE_STATUSES, TERMINAL_STATUSES, ACTIVE_STATUSES

LEMMA CleanedUpRow ==
  ASSUME NEW row \in TaskRow
  PROVE  Succeeds(CleanedUp(row), row)
BY DEF Succeeds, CleanedUp, TaskRow, RowInv, ResumeGate, NONE, OriginStatus,
       TaskStatus, RESUMABLE_STATUSES, TERMINAL_STATUSES, ACTIVE_STATUSES

LEMMA WaitingRow ==
  ASSUME NEW row \in TaskRow, RowInv(row), row.status \in WaitingSources
  PROVE  Succeeds(Waiting(row), row)
BY DEF Succeeds, Waiting, WaitingSources, TaskRow, RowInv, ResumeGate, NONE, OriginStatus,
       TaskStatus, RESUMABLE_STATUSES, TERMINAL_STATUSES, ACTIVE_STATUSES

LEMMA LostRow ==
  ASSUME NEW row \in TaskRow
  PROVE  Succeeds(Lost(row), row)
BY DEF Succeeds, Lost, TaskRow, RowInv, ResumeGate, NONE, OriginStatus,
       TaskStatus, RESUMABLE_STATUSES, TERMINAL_STATUSES, ACTIVE_STATUSES

-----------------------------------------------------------------------------
(* Writing a row. *)

LEMMA MatchedRow ==
  ASSUME TypeOK, NEW t \in Tasks, NEW c \in Callers, VersionMatches(c, t)
  PROVE  tasks[t] \in TaskRow
BY DEF TypeOK, VersionMatches, NoRow

LEMMA WriteStep ==
  ASSUME IInv, NEW c \in Callers, NEW t \in Tasks, NEW row, VersionMatches(c, t),
         Succeeds(row, tasks[t]), Write(c, t, row), leases' \in [Tasks -> Lease]
  PROVE  IInv'
<1> USE DEF IInv
<1>1. tasks[t] \in TaskRow
  BY MatchedRow
<1>2. row \in TaskRow /\ row.version = tasks[t].version + 1 /\ RowInv(row)
  BY DEF Succeeds
<1>3. TypeOK'
  <2>1. [task_version |-> row.version, from_status |-> tasks[t].status,
         to_status |-> row.status] \in Event
    BY <1>1, <1>2 DEF Event, TaskRow
  <2>2. events' \in [Tasks -> Seq(Event)]
    BY <2>1 DEF Write, TypeOK
  <2> QED BY <1>2, <2>2 DEF Write, TypeOK
<1>4. VersionNamesRow'
  <2> SUFFICES ASSUME NEW d \in Callers, NEW u \in Tasks, seen'[d][u].status # "absent"
               PROVE  /\ tasks'[u].status # "absent"
                      /\ seen'[d][u].version <= tasks'[u].version
                      /\ seen'[d][u].version = tasks'[u].version => seen'[d][u] = tasks'[u]
    BY DEF VersionNamesRow
  <2>1. row.status # "absent" /\ row.version \in Nat /\ tasks[t].version \in Nat
    BY <1>1, <1>2 DEF TaskRow, TaskStatus, OriginStatus, RESUMABLE_STATUSES,
       TERMINAL_STATUSES, ACTIVE_STATUSES
  <2>2. CASE u # t
    BY <2>2 DEF Write, TypeOK, VersionNamesRow
  <2>3. CASE u = t /\ d = c
    BY <2>1, <2>3 DEF Write, TypeOK
  <2>4. CASE u = t /\ d # c
    <3>1. seen'[d][u] = seen[d][u] /\ tasks'[u] = row
      BY <2>4 DEF Write, TypeOK
    <3>2. seen[d][u].version <= tasks[t].version
      BY <2>4, <3>1 DEF VersionNamesRow
    <3>3. seen[d][u] \in TaskRow
      BY <3>1 DEF TypeOK, NoRow
    <3> QED BY <1>2, <2>1, <3>1, <3>2, <3>3 DEF TaskRow
  <2> QED BY <2>2, <2>3, <2>4
<1>5. RowsInv'
  BY <1>2 DEF RowsInv, Write, TypeOK
<1> QED BY <1>3, <1>4, <1>5

LEMMA InitInv == Init => IInv
<1> SUFFICES ASSUME Init PROVE IInv
  OBVIOUS
<1>1. NoRow \in TaskRow \cup {NoRow} /\ NoLease \in Lease /\ <<>> \in Seq(Event)
  BY DEF NoLease, Lease
<1>2. TypeOK
  BY <1>1 DEF Init, TypeOK
<1>3. VersionNamesRow
  BY DEF Init, VersionNamesRow, NoRow
<1>4. RowsInv
  BY DEF Init, RowsInv, RowInv, NoRow, NONE, RESUMABLE_STATUSES
<1> QED BY <1>2, <1>3, <1>4 DEF IInv

LEMMA NewTaskRow == NewTask \in TaskRow /\ RowInv(NewTask) /\ NewTask.status # "absent"
BY DEF NewTask, TaskRow, RowInv, ResumeGate, NONE, TaskStatus, RESUMABLE_STATUSES

LEMMA LeaseTyped ==
  ASSUME TypeOK, NEW t \in Tasks, NEW lease \in Lease, SetLease(t, lease)
  PROVE  leases' \in [Tasks -> Lease]
BY DEF TypeOK, SetLease

LEMMA LeaseValues ==
  ASSUME TypeOK
  PROVE  /\ NoLease \in Lease
         /\ \A c \in Callers : [owner |-> c, expires_at |-> now + LeaseTtl] \in Lease
BY RepositoryAssumption DEF TypeOK, NoLease, Lease

\* The operations that write no task row.
LEMMA QuietStep ==
  ASSUME IInv, leases' \in [Tasks -> Lease], UNCHANGED <<tasks, events, seen>>, now' \in Nat
  PROVE  IInv'
BY DEF IInv, TypeOK, VersionNamesRow, RowsInv

LEMMA CreateStep ==
  ASSUME IInv, NEW c \in Callers, NEW t \in Tasks, create_task(c, t)
  PROVE  IInv'
<1> USE DEF IInv
<1>1. [task_version |-> 0, from_status |-> NONE, to_status |-> "created"] \in Event
  BY DEF Event, TaskStatus
<1>2. TypeOK'
  BY <1>1, NewTaskRow DEF create_task, TypeOK
<1>3. VersionNamesRow'
  <2> SUFFICES ASSUME NEW d \in Callers, NEW u \in Tasks, seen'[d][u].status # "absent"
               PROVE  /\ tasks'[u].status # "absent"
                      /\ seen'[d][u].version <= tasks'[u].version
                      /\ seen'[d][u].version = tasks'[u].version => seen'[d][u] = tasks'[u]
    BY DEF VersionNamesRow
  <2>1. CASE u = t /\ d = c
    BY <2>1, NewTaskRow DEF create_task, TypeOK, TaskRow
  <2>2. CASE u # t \/ d # c
    <3>1. seen'[d][u] = seen[d][u]
      BY <2>2 DEF create_task, TypeOK
    <3>2. u # t
      BY <3>1 DEF create_task, VersionNamesRow
    <3> QED BY <3>1, <3>2 DEF create_task, TypeOK, VersionNamesRow
  <2> QED BY <2>1, <2>2
<1>4. RowsInv'
  BY NewTaskRow DEF create_task, RowsInv, TypeOK
<1> QED BY <1>2, <1>3, <1>4

LEMMA GetStep ==
  ASSUME IInv, NEW c \in Callers, NEW t \in Tasks, get_task(c, t)
  PROVE  IInv'
<1> USE DEF IInv
<1>1. TypeOK'
  BY DEF get_task, TypeOK
<1>2. tasks[t] \in TaskRow
  BY DEF get_task, TypeOK, NoRow
<1>3. VersionNamesRow'
  BY <1>2 DEF get_task, TypeOK, VersionNamesRow, TaskRow
<1>4. RowsInv'
  BY DEF get_task, RowsInv
<1> QED BY <1>1, <1>3, <1>4

\* What an operation does to the rows: create_task and get_task apart, it leaves rows,
\* log and readers alone or writes, through Write, a row that may follow the old one.
WritesSuccessor(c, t) ==
  \E row : VersionMatches(c, t) /\ Succeeds(row, tasks[t]) /\ Write(c, t, row)

LEMMA OperationShape ==
  ASSUME IInv, NEW c \in Callers, NEW t \in Tasks, Operation(c, t)
  PROVE  /\ leases' \in [Tasks -> Lease]
         /\ \/ create_task(c, t)
            \/ get_task(c, t)
            \/ UNCHANGED <<tasks, events, seen, now>>
            \/ WritesSuccessor(c, t)
<1>0. TypeOK /\ VersionNamesRow /\ RowInv(tasks[t]) /\ now \in Nat
  BY DEF IInv, RowsInv, TypeOK
<1>1. CASE create_task(c, t)
  BY <1>0, <1>1 DEF create_task, TypeOK
<1>2. CASE get_task(c, t)
  BY <1>0, <1>2 DEF get_task, TypeOK
<1>3. CASE \E to \in TaskStatus : transition(c, t, to)
  <2>1. PICK to \in TaskStatus : transition(c, t, to)
    BY <1>3
  <2>2. tasks[t] \in TaskRow
    BY <1>0, <2>1, MatchedRow DEF transition
  <2>3. Succeeds(Transitioned(tasks[t], to), tasks[t])
    BY <1>0, <2>1, <2>2, TransitionedRow DEF transition
  <2>4. leases' \in [Tasks -> Lease]
    BY <1>0, <2>1 DEF transition, TypeOK
  <2> QED BY <2>1, <2>3, <2>4 DEF transition, WritesSuccessor
<1>4. CASE require_cleanup(c, t)
  <2>1. Succeeds(Gated(tasks[t]), tasks[t])
    BY <1>0, <1>4, MatchedRow, GatedRow DEF require_cleanup
  <2>2. leases' \in [Tasks -> Lease]
    BY <1>0, <1>4, LeaseTyped, LeaseValues DEF require_cleanup
  <2> QED BY <1>4, <2>1, <2>2 DEF require_cleanup, WritesSuccessor
<1>5. CASE complete_cleanup_gate(c, t)
  <2>1. Succeeds(CleanedUp(tasks[t]), tasks[t])
    BY <1>0, <1>5, MatchedRow, CleanedUpRow DEF complete_cleanup_gate
  <2>2. leases' \in [Tasks -> Lease]
    BY <1>0, <1>5 DEF complete_cleanup_gate, TypeOK
  <2> QED BY <1>5, <2>1, <2>2 DEF complete_cleanup_gate, WritesSuccessor
<1>6. CASE transition_to_waiting_with_lease(c, t)
  <2>1. tasks[t] \in TaskRow
    BY <1>0, <1>6, MatchedRow DEF transition_to_waiting_with_lease
  <2>2. seen[c][t] = tasks[t]
    BY <1>0, <1>6 DEF transition_to_waiting_with_lease, VersionMatches, VersionNamesRow
  <2>3. tasks[t].status \in WaitingSources
    BY <1>6, <2>2 DEF transition_to_waiting_with_lease
  <2>4. Succeeds(Waiting(tasks[t]), tasks[t])
    BY <1>0, <2>1, <2>3, WaitingRow
  <2>5. leases' \in [Tasks -> Lease]
    BY <1>0, <1>6, LeaseTyped, LeaseValues DEF transition_to_waiting_with_lease
  <2> QED BY <1>6, <2>4, <2>5 DEF transition_to_waiting_with_lease, WritesSuccessor
<1>7. CASE renew_interaction_lease(c, t)
  <2>1. leases' \in [Tasks -> Lease]
    BY <1>0, <1>7, LeaseTyped, LeaseValues DEF renew_interaction_lease
  <2> QED BY <1>7, <2>1 DEF renew_interaction_lease
<1>8. CASE release_interaction_lease(c, t)
  <2>1. leases' \in [Tasks -> Lease]
    BY <1>0, <1>8, LeaseTyped, LeaseValues DEF release_interaction_lease
  <2> QED BY <1>8, <2>1 DEF release_interaction_lease
<1>9. CASE \E lease_now \in 0..now : recover_lost_interaction(c, t, lease_now)
  <2>1. PICK lease_now \in 0..now : recover_lost_interaction(c, t, lease_now)
    BY <1>9
  <2>2. Succeeds(Lost(tasks[t]), tasks[t])
    BY <1>0, <2>1, MatchedRow, LostRow DEF recover_lost_interaction
  <2>3. leases' \in [Tasks -> Lease]
    BY <1>0, <2>1, LeaseTyped, LeaseValues DEF recover_lost_interaction
  <2> QED BY <2>1, <2>2, <2>3 DEF recover_lost_interaction, WritesSuccessor
<1> QED BY <1>1, <1>2, <1>3, <1>4, <1>5, <1>6, <1>7, <1>8, <1>9 DEF Operation

LEMMA OperationStep ==
  ASSUME IInv, NEW c \in Callers, NEW t \in Tasks, Operation(c, t)
  PROVE  IInv'
<1>1. leases' \in [Tasks -> Lease]
  BY OperationShape
<1>2. CASE create_task(c, t)
  BY <1>2, CreateStep
<1>3. CASE get_task(c, t)
  BY <1>3, GetStep
<1>4. CASE UNCHANGED <<tasks, events, seen, now>>
  BY <1>1, <1>4, QuietStep DEF IInv, TypeOK
<1>5. CASE WritesSuccessor(c, t)
  BY <1>1, <1>5, WriteStep DEF WritesSuccessor
<1> QED BY <1>2, <1>3, <1>4, <1>5, OperationShape

LEMMA NextInv == IInv /\ [Next]_vars => IInv'
<1> SUFFICES ASSUME IInv, [Next]_vars PROVE IInv'
  OBVIOUS
<1>1. CASE Tick
  BY <1>1, QuietStep DEF Tick, IInv, TypeOK
<1>2. CASE \E c \in Callers, t \in Tasks : Operation(c, t)
  BY <1>2, OperationStep
<1>3. CASE UNCHANGED vars
  BY <1>3, QuietStep DEF vars, IInv, TypeOK
<1> QED BY <1>1, <1>2, <1>3 DEF Next

LEMMA Invariance == Spec => []IInv
BY InitInv, NextInv, PTL DEF Spec

\* Type correctness of the tables and of what the callers hold.
THEOREM TypeCorrect == Spec => []TypeOK
<1>1. IInv => TypeOK
  BY DEF IInv
<1> QED BY <1>1, Invariance, PTL

\* Optimistic locking is sound: a matching version means an unchanged row.
THEOREM VersionsNameRows == Spec => []VersionNamesRow
<1>1. IInv => VersionNamesRow
  BY DEF IInv
<1> QED BY <1>1, Invariance, PTL

\* A task has a resume origin exactly while it is paused or recoverably failed.
THEOREM OriginsWhileSuspended == Spec => []OriginWhileSuspended
<1>1. IInv => OriginWhileSuspended
  BY DEF IInv, RowsInv, RowInv, OriginWhileSuspended
<1> QED BY <1>1, Invariance, PTL

\* The cleanup gate never follows a task out of recoverable_failed.
THEOREM GatesOnlyOnFailure == Spec => []GateOnlyOnFailure
<1>1. IInv => GateOnlyOnFailure
  BY DEF IInv, RowsInv, RowInv, GateOnlyOnFailure
<1> QED BY <1>1, Invariance, PTL

-----------------------------------------------------------------------------
(* The event log.  No step of the table looks at it, so it needs only the   *)
(* row invariant: every written row is one version ahead of the old one.    *)

\* EventChain for one task.
ChainOf(log, row) ==
  /\ Len(log) = IF row.status = "absent" THEN 0 ELSE row.version + 1
  /\ \A i \in 1..Len(log) :
       /\ log[i].task_version = i - 1
       /\ log[i].from_status = IF i = 1 THEN NONE ELSE log[i - 1].to_status
  /\ row.status # "absent" => log[Len(log)].to_status = row.status

ChainsInv == \A t \in Tasks : ChainOf(events[t], tasks[t])

LEMMA PresentRow ==
  ASSUME NEW row \in TaskRow
  PROVE  row.status # "absent"
BY DEF TaskRow, TaskStatus, OriginStatus, RESUMABLE_STATUSES, TERMINAL_STATUSES,
       ACTIVE_STATUSES

\* One more event, from the old status to the new one, extends the chain.
LEMMA ChainExtends ==
  ASSUME NEW log \in Seq(Event), NEW row \in TaskRow, ChainOf(log, row),
         NEW new \in TaskRow, new.version = row.version + 1,
         NEW event, event.task_version = new.version, event.from_status = row.status,
         event.to_status = new.status, event \in Event
  PROVE  ChainOf(Append(log, event), new)
<1> DEFINE longer == Append(log, event)
<1>1. row.version \in Nat /\ new.version = row.version + 1
  BY DEF TaskRow
<1>2. Len(log) = row.version + 1 /\ log[Len(log)].to_status = row.status
  BY PresentRow DEF ChainOf
<1>3. /\ Len(longer) = Len(log) + 1
      /\ \A i \in 1..Len(log) : longer[i] = log[i]
      /\ longer[Len(log) + 1] = event
  BY AppendProperties
<1>4. \A i \in 1..Len(log) :
        /\ log[i].task_version = i - 1
        /\ log[i].from_status = IF i = 1 THEN NONE ELSE log[i - 1].to_status
  BY DEF ChainOf
<1> HIDE DEF longer
<1>5. ASSUME NEW i \in 1..Len(longer)
      PROVE  /\ longer[i].task_version = i - 1
             /\ longer[i].from_status = IF i = 1 THEN NONE ELSE longer[i - 1].to_status
  <2>1. CASE i \in 1..Len(log)
    <3>1. i # 1 => i - 1 \in 1..Len(log)
      BY <1>1, <1>2, <2>1
    <3>2. longer[i] = log[i] /\ (i # 1 => longer[i - 1] = log[i - 1])
      BY <1>3, <2>1, <3>1
    <3> QED BY <1>4, <2>1, <3>2
  <2>2. CASE i = Len(log) + 1
    <3>1. longer[i] = event /\ longer[i - 1] = log[i - 1] /\ i # 1 /\ i - 1 = Len(log)
      BY <1>1, <1>2, <1>3, <2>2
    <3> QED BY <1>1, <1>2, <2>2, <3>1
  <2> QED BY <1>1, <1>2, <1>3, <2>1, <2>2
<1>6. longer[Len(longer)].to_status = new.status
  BY <1>3
<1>7. Len(longer) = IF new.status = "absent" THEN 0 ELSE new.version + 1
  BY <1>1, <1>2, <1>3, PresentRow
<1> QED BY <1>5, <1>6, <1>7 DEF ChainOf, longer

LEMMA WriteChain ==
  ASSUME IInv, ChainsInv, NEW c \in Callers, NEW t \in Tasks, NEW row,
         VersionMatches(c, t), Succeeds(row, tasks[t]), Write(c, t, row)
  PROVE  ChainsInv'
<1> DEFINE event == [task_version |-> row.version, from_status |-> tasks[t].status,
                     to_status |-> row.status]
<1>1. TypeOK /\ tasks[t] \in TaskRow /\ row \in TaskRow
      /\ row.version = tasks[t].version + 1
  BY MatchedRow DEF IInv, Succeeds
<1>2. event \in Event
  BY <1>1 DEF Event, TaskRow
<1>3. events[t] \in Seq(Event) /\ ChainOf(events[t], tasks[t])
  BY <1>1 DEF TypeOK, ChainsInv
<1>4. /\ event.task_version = row.version
      /\ event.from_status = tasks[t].status
      /\ event.to_status = row.status
  OBVIOUS
<1>5. /\ events'[t] = Append(events[t], event) /\ tasks'[t] = row
      /\ \A u \in Tasks \ {t} : events'[u] = events[u] /\ tasks'[u] = tasks[u]
  BY <1>1 DEF Write, TypeOK
<1> HIDE DEF event
<1>6. ChainOf(Append(events[t], event), row)
  BY <1>1, <1>2, <1>3, <1>4, ChainExtends
<1> QED BY <1>5, <1>6 DEF ChainsInv

LEMMA CreateChain ==
  ASSUME IInv, ChainsInv, NEW c \in Callers, NEW t \in Tasks, create_task(c, t)
  PROVE  ChainsInv'
<1> DEFINE first == [task_version |-> 0, from_status |-> NONE, to_status |-> "created"]
<1>1. /\ events'[t] = <<first>> /\ tasks'[t] = NewTask
      /\ \A u \in Tasks \ {t} : events'[u] = events[u] /\ tasks'[u] = tasks[u]
  BY DEF create_task, IInv, TypeOK
<1>2. ChainOf(<<first>>, NewTask)
  BY DEF ChainOf, NewTask
<1> HIDE DEF first
<1> QED BY <1>1, <1>2 DEF ChainsInv

LEMMA NextChains == IInv /\ ChainsInv /\ [Next]_vars => ChainsInv'
<1> SUFFICES ASSUME IInv, ChainsInv, [Next]_vars PROVE ChainsInv'
  OBVIOUS
<1>1. ASSUME UNCHANGED <<tasks, events>> PROVE ChainsInv'
  BY <1>1 DEF ChainsInv
<1>2. CASE Tick
  BY <1>1, <1>2 DEF Tick
<1>3. CASE \E c \in Callers, t \in Tasks : Operation(c, t)
  <2>1. PICK c \in Callers, t \in Tasks : Operation(c, t)
    BY <1>3
  <2>2. CASE create_task(c, t)
    BY <2>2, CreateChain
  <2>3. CASE get_task(c, t)
    BY <1>1, <2>3 DEF get_task
  <2>4. CASE UNCHANGED <<tasks, events, seen, now>>
    BY <1>1, <2>4
  <2>5. CASE WritesSuccessor(c, t)
    BY <2>5, WriteChain DEF WritesSuccessor
  <2> QED BY <2>1, <2>2, <2>3, <2>4, <2>5, OperationShape
<1>4. CASE UNCHANGED vars
  BY <1>1, <1>4 DEF vars
<1> QED BY <1>2, <1>3, <1>4 DEF Next

\* The event log is the history of the row: one event per version, each starting
\* where the one before it ended (what _validated_resume_origin relies on).
THEOREM EventsChain == Spec => []EventChain
<1>1. Init => ChainsInv
  BY DEF Init, ChainsInv, ChainOf, NoRow
<1>2. ChainsInv => EventChain
  BY DEF ChainsInv, ChainOf, EventChain
<1> QED BY <1>1, <1>2, NextChains, Invariance, PTL DEF Spec

-----------------------------------------------------------------------------
(* Action properties. *)

\* What a suspended row may become.
Returns(row, new) ==
  row.status \in RESUMABLE_STATUSES /\ new # row =>
    \/ new.status \in Exits
    \/ new.status = row.resume_status
    \/ new.status \in RESUMABLE_STATUSES /\ new.resume_status = row.resume_status

LEMMA OperationReturns ==
  ASSUME IInv, NEW c \in Callers, NEW t \in Tasks, Operation(c, t), NEW u \in Tasks
  PROVE  Returns(tasks[u], tasks'[u])
<1>0. TypeOK /\ VersionNamesRow /\ RowInv(tasks[t])
  BY DEF IInv, RowsInv
<1> SUFFICES ASSUME tasks[u].status \in RESUMABLE_STATUSES, tasks'[u] # tasks[u]
             PROVE  Returns(tasks[u], tasks'[u])
  BY DEF Returns
<1>1. CASE create_task(c, t)
  BY <1>0, <1>1 DEF create_task, TypeOK, RESUMABLE_STATUSES
<1>2. CASE get_task(c, t)
  BY <1>2 DEF get_task
<1>3. CASE \E to \in TaskStatus : transition(c, t, to)
  <2>1. PICK to \in TaskStatus : transition(c, t, to)
    BY <1>3
  <2>2. u = t /\ tasks'[u] = Transitioned(tasks[t], to) /\ CanTransition(tasks[t], to)
    BY <1>0, <2>1 DEF transition, Write, TypeOK
  <2> QED BY <2>2 DEF CanTransition, Transitioned, Returns
<1>4. CASE require_cleanup(c, t)
  <2>1. /\ u = t /\ tasks'[u] = Gated(tasks[t])
        /\ tasks[t].status \in CleanupSources
    BY <1>0, <1>4 DEF require_cleanup, Write, TypeOK
  <2>2. tasks[t].status = "paused" /\ tasks[t].resume_status # NONE
    BY <1>0, <2>1 DEF CleanupSources, RESUMABLE_STATUSES, RowInv
  <2> QED BY <2>1, <2>2 DEF Gated, Returns, RESUMABLE_STATUSES
<1>5. CASE complete_cleanup_gate(c, t)
  <2>1. u = t /\ tasks'[u] = CleanedUp(tasks[t]) /\ tasks[t].status = "recoverable_failed"
    BY <1>0, <1>5 DEF complete_cleanup_gate, Write, TypeOK
  <2>2. tasks[t].resume_status # NONE
    BY <1>0, <2>1 DEF RESUMABLE_STATUSES, RowInv
  <2> QED BY <2>1, <2>2 DEF CleanedUp, Returns
<1>6. CASE transition_to_waiting_with_lease(c, t)
  <2>1. u = t /\ seen[c][t] = tasks[t] /\ seen[c][t].status \in WaitingSources
    BY <1>0, <1>6 DEF transition_to_waiting_with_lease, VersionMatches, VersionNamesRow,
       Write, TypeOK
  <2> QED BY <2>1 DEF WaitingSources, RESUMABLE_STATUSES
<1>7. CASE renew_interaction_lease(c, t)
  BY <1>7 DEF renew_interaction_lease
<1>8. CASE release_interaction_lease(c, t)
  BY <1>8 DEF release_interaction_lease
<1>9. CASE \E lease_now \in 0..now : recover_lost_interaction(c, t, lease_now)
  <2>1. u = t /\ tasks[t].status = "waiting_for_user"
    BY <1>0, <1>9 DEF recover_lost_interaction, Write, TypeOK
  <2> QED BY <2>1 DEF RESUMABLE_STATUSES
<1> QED BY <1>1, <1>2, <1>3, <1>4, <1>5, <1>6, <1>7, <1>8, <1>9 DEF Operation

\* A suspended task goes back to the origin stored when it was suspended, or ends.
THEOREM TasksReturnToOrigin == Spec => ReturnsToOrigin
<1> DEFINE Kept == \A t \in Tasks : Returns(tasks[t], tasks'[t])
<1>1. IInv /\ [Next]_vars => [Kept]_tasks
  <2> SUFFICES ASSUME IInv, [Next]_vars PROVE [Kept]_tasks
    OBVIOUS
  <2>1. CASE \E c \in Callers, t \in Tasks : Operation(c, t)
    BY <2>1, OperationReturns
  <2>2. CASE Tick \/ UNCHANGED vars
    BY <2>2 DEF Tick, vars
  <2> QED BY <2>1, <2>2 DEF Next
<1>2. [Kept]_tasks =>
        [\A t \in Tasks :
           tasks[t].status \in RESUMABLE_STATUSES /\ tasks'[t] # tasks[t] =>
             \/ tasks'[t].status \in Exits
             \/ tasks'[t].status = tasks[t].resume_status
             \/ /\ tasks'[t].status \in RESUMABLE_STATUSES
                /\ tasks'[t].resume_status = tasks[t].resume_status]_tasks
  BY DEF Returns
<1> QED BY <1>1, <1>2, Invariance, PTL DEF Spec, ReturnsToOrigin

\* A lease that disappears while it is live is gone with its row unchanged (its owner
\* released it) or because the task is gated for cleanup.
KeepsLive(t) ==
  Live(t) /\ leases'[t] = NoLease =>
    \/ tasks'[t] = tasks[t]
    \/ tasks'[t].resume_gate = "cleanup"

LEMMA OperationKeepsLive ==
  ASSUME IInv, NEW c \in Callers, NEW t \in Tasks, Operation(c, t), NEW u \in Tasks
  PROVE  KeepsLive(u)
<1>0. TypeOK
  BY DEF IInv
<1> SUFFICES ASSUME Live(u), leases'[u] = NoLease, tasks'[u] # tasks[u]
             PROVE  tasks'[u].resume_gate = "cleanup"
  BY DEF KeepsLive
<1>1. leases[u] # NoLease
  BY DEF Live, NoLease
<1>2. CASE create_task(c, t) \/ (\E to \in TaskStatus : transition(c, t, to))
             \/ complete_cleanup_gate(c, t)
  BY <1>1, <1>2 DEF create_task, transition, complete_cleanup_gate
<1>3. CASE get_task(c, t) \/ renew_interaction_lease(c, t) \/ release_interaction_lease(c, t)
  BY <1>3 DEF get_task, renew_interaction_lease, release_interaction_lease
<1>4. CASE require_cleanup(c, t)
  BY <1>0, <1>4 DEF require_cleanup, Write, Gated, TypeOK
<1>5. CASE transition_to_waiting_with_lease(c, t)
  <2>1. u = t
    BY <1>0, <1>5 DEF transition_to_waiting_with_lease, Write, TypeOK
  <2>2. leases'[u].owner = c /\ NoLease.owner = NONE
    BY <1>0, <1>5, <2>1 DEF transition_to_waiting_with_lease, SetLease, NoLease, TypeOK
  <2> QED BY <2>2, RepositoryAssumption
<1>6. CASE \E lease_now \in 0..now : recover_lost_interaction(c, t, lease_now)
  <2>1. PICK lease_now \in 0..now : recover_lost_interaction(c, t, lease_now)
    BY <1>6
  <2>2. u = t
    BY <1>0, <2>1 DEF recover_lost_interaction, Write, TypeOK
  <2>3. /\ leases[u].owner # NONE
        /\ ~ leases[u].expires_at > lease_now
        /\ leases[u].expires_at > now
        /\ leases[u].expires_at \in Nat /\ now \in Nat /\ lease_now <= now
    BY <1>0, <2>1, <2>2 DEF recover_lost_interaction, Live, TypeOK, Lease
  <2> QED BY <2>3
<1> QED BY <1>2, <1>3, <1>4, <1>5, <1>6 DEF Operation

\* Nobody takes an unexpired lease from its owner except by gating the task: the sweep
\* cannot, for the clock it compares with was read before the lease was renewed.
THEOREM LiveLeasesKept == Spec => LiveLeaseKept
<1> DEFINE Kept == \A t \in Tasks : KeepsLive(t)
<1>1. IInv /\ [Next]_vars => [Kept]_<<tasks, leases>>
  <2> SUFFICES ASSUME IInv, [Next]_vars PROVE [Kept]_<<tasks, leases>>
    OBVIOUS
  <2>1. CASE \E c \in Callers, t \in Tasks : Operation(c, t)
    BY <2>1, OperationKeepsLive
  <2>2. CASE Tick \/ UNCHANGED vars
    BY <2>2 DEF Tick, vars
  <2> QED BY <2>1, <2>2 DEF Next
<1>2. [Kept]_<<tasks, leases>> =>
        [\A t \in Tasks :
           Live(t) /\ leases'[t] = NoLease =>
             \/ tasks'[t] = tasks[t]
             \/ tasks'[t].resume_gate = "cleanup"]_<<tasks, leases>>
  BY DEF KeepsLive
<1> QED BY <1>1, <1>2, Invariance, PTL DEF Spec, LiveLeaseKept

-----------------------------------------------------------------------------
(***************************************************************************)
(* The batch runner (ChapterBatch), for every plan, batch size and number  *)
(* of runners.  Its invariant says of each run what the checkpoint row     *)
(* says of the plan: a chapter the run has gone past is done, or the run   *)
(* still owes it.  It holds of every run, the superseded ones included,    *)
(* because "done" is final; and a superseded run cannot save, because it   *)
(* is behind the version of the checkpoint row.                            *)
(***************************************************************************)
Working == {"claim", "process", "mark", "fail"}
Listing == {"idle", "load", "list"}

\* The chapters a run has taken up and not seen done.
Owed(run) == run.retry \cup (IF run.pc \in Working THEN {run.index} ELSE {})

\* A chapter that is not listed any more is done or owed.
Settled(run, st) == \A ch \in Chapters \ run.listed : st[ch] = "done" \/ ch \in Owed(run)

\* next separates what is listed from what is owed.
Ordered(run) == /\ \A ch \in run.listed : run.next <= ch
                /\ \A ch \in Owed(run) : ch < run.next

\* What was done when it was listed still is.
Known(run, st) == \A ch \in run.done : st[ch] = "done"

\* A run that has the row's version is not behind what the row says.
NotBehind(run, row) ==
  /\ run.cp <= row.version
  /\ run.cp = row.version => /\ row.next_index <= run.next
                             /\ \A ch \in Owed(run) : row.next_index <= ch

RunInv(run, st, row) ==
  /\ run.pc \notin {"idle", "load"} => NotBehind(run, row)
  /\ run.pc \in {"load", "list"} => run.retry = {}
  /\ run.pc = "list" => \A ch \in Chapters : ch < run.next => st[ch] = "done"
  /\ run.pc \notin Listing => Settled(run, st) /\ Ordered(run) /\ Known(run, st)
  /\ run.pc = "completed" => run.listed = {} /\ run.retry = {}

RunsInv == \A r \in Runners : RunInv(runs[r], status, checkpoint)

BatchInv == BatchTypeOK /\ NothingSkipped /\ RunsInv

-----------------------------------------------------------------------------
(* Numbers and sets.                                                        *)

LEMMA ChapterNumbers ==
  /\ Last \in Nat /\ BatchSize \in Nat
  /\ Chapters \subseteq Nat /\ 1 \in Chapters /\ 1 \in 1..Last + 1
  /\ \A ch \in Chapters : ch \in Nat /\ ch + 1 \in 1..Last + 1 /\ ch \in 1..Last + 1 /\ ch <= Last
  /\ \A n \in 1..Last + 1 : n \in Nat /\ n..Last \subseteq Chapters
BY BatchAssumption DEF Chapters

LEMMA LeastChapter ==
  ASSUME NEW S \in SUBSET Chapters, S # {}
  PROVE  LET m == CHOOSE c \in S : \A d \in S : c <= d
         IN  m \in S /\ \A d \in S : m <= d
<1> DEFINE R == OpToRel(<, Nat)
<1>1. S \subseteq Nat
  BY ChapterNumbers
<1>2. PICK c \in S : \A d \in S : ~ (<<d, c>> \in R)
  BY <1>1, NatLessThanWellFounded, WFMin
<1>3. ASSUME NEW d \in S PROVE c <= d
  <2>1. <<d, c>> \notin R
    BY <1>2
  <2>2. c \in Nat /\ d \in Nat
    BY <1>1
  <2>3. ~ (d < c)
    BY <2>1, <2>2 DEF OpToRel
  <2> QED BY <2>2, <2>3
<1>4. \E m \in S : \A d \in S : m <= d
  BY <1>3
<1> QED BY <1>4

LEMMA FailedCount == Failed \in 0..Last
<1> DEFINE F == {ch \in Chapters : status[ch] = "failed"}
<1>1. IsFiniteSet(Chapters) /\ Cardinality(Chapters) = Last
  BY FS_Interval, ChapterNumbers DEF Chapters
<1>2. F \subseteq Chapters
  OBVIOUS
<1> HIDE DEF F
<1>3. Cardinality(F) \in Nat /\ Cardinality(F) <= Last
  BY <1>1, <1>2, FS_Subset, FS_CardinalityType
<1> QED BY <1>3, ChapterNumbers DEF F, Failed

-----------------------------------------------------------------------------
(* The updates of a run.                                                    *)

PCs == {"idle", "load", "list", "next", "claim", "process", "mark", "fail", "count",
        "check", "save", "completed", "recoverable"}

\* What a step that takes up no chapter and gives none back leaves alone.
SameWork(new, run) ==
  /\ new.listed = run.listed /\ new.done = run.done
  /\ new.next = run.next /\ new.retry = run.retry /\ new.cp = run.cp

LEMMA SteppedRun ==
  ASSUME NEW run \in Run, NEW pc \in PCs
  PROVE  LET new == [run EXCEPT !.pc = pc]
         IN  new \in Run /\ new.pc = pc /\ new.index = run.index /\ SameWork(new, run)
BY DEF Run, PCs, SameWork

LEMMA ThroughRun ==
  ASSUME NEW run \in Run, NEW batched \in BOOLEAN
  PROVE  LET new == Through(run, batched)
         IN  new \in Run /\ new.pc \in {"next", "count"} /\ SameWork(new, run)
<1> DEFINE batch == IF batched THEN run.batch + 1 ELSE run.batch
           pc == IF batch >= BatchSize THEN "count" ELSE "next"
           one == 1
<1>1. batch \in Nat /\ pc \in {"next", "count"} /\ one \in Chapters /\ pc \in PCs
  BY ChapterNumbers DEF Run, PCs
<1>2. Through(run, batched) = [run EXCEPT !.pc = pc, !.batch = batch, !.index = one,
                                          !.generation = 0]
  BY DEF Through
<1> HIDE DEF batch, pc, one
<1> DEFINE new == [run EXCEPT !.pc = pc, !.batch = batch, !.index = one, !.generation = 0]
<1>3. new \in Run
  BY <1>1 DEF Run
<1>4. new.pc = pc /\ SameWork(new, run)
  BY DEF Run, SameWork
<1> QED BY <1>1, <1>2, <1>3, <1>4

\* The current chapter joins the chapters to retry.
LEMMA RetryRun ==
  ASSUME NEW run \in Run
  PROVE  LET new == [run EXCEPT !.retry = @ \cup {run.index}]
         IN  /\ new \in Run /\ new.pc = run.pc /\ new.index = run.index
             /\ new.listed = run.listed /\ new.done = run.done
             /\ new.next = run.next /\ new.retry = run.retry \cup {run.index} /\ new.cp = run.cp
<1> DEFINE retry == run.retry \cup {run.index}
<1>1. retry \in SUBSET Chapters
  BY DEF Run
<1>2. [run EXCEPT !.retry = @ \cup {run.index}] = [run EXCEPT !.retry = retry]
  OBVIOUS
<1> HIDE DEF retry
<1>3. LET new == [run EXCEPT !.retry = retry]
      IN  /\ new \in Run /\ new.pc = run.pc /\ new.index = run.index
          /\ new.listed = run.listed /\ new.done = run.done
          /\ new.next = run.next /\ new.retry = retry /\ new.cp = run.cp
  BY <1>1 DEF Run
<1> QED BY <1>2, <1>3 DEF retry

-----------------------------------------------------------------------------
(* RunInv and the steps of others.                                          *)

DoneStays == \A ch \in Chapters : status[ch] = "done" => status'[ch] = "done"

LEMMA RunInvKept ==
  ASSUME NEW run \in Run, NEW st, NEW st2, NEW row, NEW row2, RunInv(run, st, row),
         \A ch \in Chapters : st[ch] = "done" => st2[ch] = "done",
         row.version \in Int, row2.version \in Int,
         row2 = row \/ row2.version = row.version + 1
  PROVE  RunInv(run, st2, row2)
<1>1. run.done \subseteq Chapters /\ run.cp \in Int
  BY DEF Run
<1>2. NotBehind(run, row) => NotBehind(run, row2)
  BY <1>1 DEF NotBehind
<1>3. Settled(run, st) => Settled(run, st2)
  BY DEF Settled
<1>4. Known(run, st) => Known(run, st2)
  BY <1>1 DEF Known
<1>5. /\ run.pc \notin {"idle", "load"} => NotBehind(run, row)
      /\ run.pc \in {"load", "list"} => run.retry = {}
      /\ run.pc = "list" => \A ch \in Chapters : ch < run.next => st[ch] = "done"
      /\ run.pc \notin Listing => Settled(run, st) /\ Ordered(run) /\ Known(run, st)
      /\ run.pc = "completed" => run.listed = {} /\ run.retry = {}
  BY DEF RunInv
<1>6. run.pc = "list" => \A ch \in Chapters : ch < run.next => st2[ch] = "done"
  BY <1>5
<1> QED BY <1>2, <1>3, <1>4, <1>5, <1>6 DEF RunInv

\* One runner moves, the chapters that are done stay done.
LEMMA RunnerMoves ==
  ASSUME BatchInv, NEW r \in Runners, NEW run \in Run, Goto(r, run), DoneStays,
         UNCHANGED checkpoint, RunInv(run, status', checkpoint),
         status' \in [Chapters -> {"pending", "failed", "done"}],
         claims' \in [Chapters -> [owner : {"task", "other", "none"}, live : BOOLEAN,
                                   generation : Nat]],
         version' \in Nat
  PROVE  BatchInv'
<1>1. BatchTypeOK'
  BY DEF BatchInv, BatchTypeOK, Goto
<1>2. NothingSkipped'
  BY DEF BatchInv, NothingSkipped, DoneStays
<1>3. RunsInv'
  <2> SUFFICES ASSUME NEW q \in Runners PROVE RunInv(runs'[q], status', checkpoint')
    BY DEF RunsInv
  <2>1. CASE q = r
    BY <2>1 DEF Goto, BatchInv, BatchTypeOK
  <2>2. CASE q # r
    <3>1. runs'[q] = runs[q] /\ runs[q] \in Run /\ checkpoint' = checkpoint
      BY <2>2 DEF Goto, BatchInv, BatchTypeOK
    <3>2. RunInv(runs[q], status, checkpoint) /\ checkpoint.version \in Int
      BY DEF BatchInv, RunsInv, BatchTypeOK
    <3>3. \A ch \in Chapters : status[ch] = "done" => status'[ch] = "done"
      BY DEF DoneStays
    <3>4. RunInv(runs[q], status', checkpoint)
      BY <3>1, <3>2, <3>3, RunInvKept
    <3> QED BY <3>1, <3>4
  <2> QED BY <2>1, <2>2
<1> QED BY <1>1, <1>2, <1>3 DEF BatchInv

\* The common case: crawler.db and tasks.db are only read.
LEMMA RunnerReads ==
  ASSUME BatchInv, NEW r \in Runners, NEW run \in Run, Goto(r, run),
         UNCHANGED <<status, claims, checkpoint, version>>, RunInv(run, status, checkpoint)
  PROVE  BatchInv'
<1>1. DoneStays /\ RunInv(run, status', checkpoint)
  BY DEF DoneStays
<1>2. /\ status' \in [Chapters -> {"pending", "failed", "done"}]
      /\ claims' \in [Chapters -> [owner : {"task", "other", "none"}, live : BOOLEAN,
                                   generation : Nat]]
      /\ version' \in Nat
  BY DEF BatchInv, BatchTypeOK
<1> QED BY <1>1, <1>2, RunnerMoves

LEMMA IdleRun == Idle \in Run /\ \A st, row : RunInv(Idle, st, row)
<1>1. Idle \in Run
  BY ChapterNumbers DEF Idle, Run
<1>2. \A st, row : RunInv(Idle, st, row)
  BY DEF Idle, RunInv, Listing
<1> QED BY <1>1, <1>2

\* No runner moves.
LEMMA OthersMove ==
  ASSUME BatchInv, UNCHANGED <<checkpoint, runs>>, DoneStays,
         status' \in [Chapters -> {"pending", "failed", "done"}],
         claims' \in [Chapters -> [owner : {"task", "other", "none"}, live : BOOLEAN,
                                   generation : Nat]],
         version' \in Nat
  PROVE  BatchInv'
<1>1. BatchTypeOK'
  BY DEF BatchInv, BatchTypeOK
<1>2. NothingSkipped'
  BY DEF BatchInv, NothingSkipped, DoneStays
<1>3. RunsInv'
  <2> SUFFICES ASSUME NEW q \in Runners PROVE RunInv(runs[q], status', checkpoint)
    BY DEF RunsInv
  <2>1. RunInv(runs[q], status, checkpoint) /\ checkpoint.version \in Int /\ runs[q] \in Run
    BY DEF BatchInv, RunsInv, BatchTypeOK
  <2>2. \A ch \in Chapters : status[ch] = "done" => status'[ch] = "done"
    BY DEF DoneStays
  <2> QED BY <2>1, <2>2, RunInvKept
<1> QED BY <1>1, <1>2, <1>3 DEF BatchInv

-----------------------------------------------------------------------------
(* RunInv and the steps of the run itself.                                  *)

\* Within the loop a run may drop what is done, and must keep the rest of what it owes.
LEMMA LoopStep ==
  ASSUME NEW run \in Run, NEW new \in Run, NEW st, NEW row, RunInv(run, st, row),
         run.pc \notin Listing, new.pc \notin Listing, new.pc # "completed",
         new.listed = run.listed, new.done = run.done, new.next = run.next, new.cp = run.cp,
         Owed(new) \subseteq Owed(run),
         \A ch \in Owed(run) : ch \in Owed(new) \/ st[ch] = "done"
  PROVE  RunInv(new, st, row)
<1>1. Settled(run, st) /\ Ordered(run) /\ Known(run, st) /\ NotBehind(run, row)
  BY DEF RunInv, Listing
<1>2. Settled(new, st)
  BY <1>1 DEF Settled
<1>3. Ordered(new) /\ Known(new, st)
  BY <1>1 DEF Ordered, Known
<1>4. NotBehind(new, row)
  BY <1>1 DEF NotBehind
<1> QED BY <1>2, <1>3, <1>4 DEF RunInv, Listing

\* The chapter in hand is done, and the run goes on.
LEMMA ThroughStep ==
  ASSUME NEW run \in Run, NEW st, NEW row, NEW batched \in BOOLEAN, RunInv(run, st, row),
         run.pc \in Working, st[run.index] = "done"
  PROVE  RunInv(Through(run, batched), st, row) /\ Through(run, batched) \in Run
<1> DEFINE new == Through(run, batched)
<1>1. new \in Run /\ new.pc \in {"next", "count"} /\ SameWork(new, run)
  BY ThroughRun
<1> HIDE DEF new
<1>2. Owed(new) = run.retry /\ Owed(run) = run.retry \cup {run.index}
  BY <1>1 DEF Owed, Working, SameWork
<1>3. RunInv(new, st, row)
  BY <1>1, <1>2, LoopStep DEF SameWork, Listing, Working
<1> QED BY <1>1, <1>3 DEF new

\* The chapter in hand is put with those to retry, and the run goes on.
LEMMA RetriedStep ==
  ASSUME NEW run \in Run, NEW st, NEW row, NEW batched \in BOOLEAN, RunInv(run, st, row),
         run.pc \in Working
  PROVE  LET new == Through([run EXCEPT !.retry = @ \cup {run.index}], batched)
         IN  new \in Run /\ RunInv(new, st, row)
<1> DEFINE mid == [run EXCEPT !.retry = @ \cup {run.index}]
           new == Through(mid, batched)
<1>1. /\ mid \in Run /\ mid.pc = run.pc /\ mid.listed = run.listed /\ mid.done = run.done
      /\ mid.next = run.next /\ mid.retry = run.retry \cup {run.index} /\ mid.cp = run.cp
  BY RetryRun
<1> HIDE DEF mid
<1>2. new \in Run /\ new.pc \in {"next", "count"} /\ SameWork(new, mid)
  BY <1>1, ThroughRun
<1> HIDE DEF new
<1>3. Owed(new) = Owed(run)
  BY <1>1, <1>2 DEF Owed, Working, SameWork
<1>4. RunInv(new, st, row)
  BY <1>1, <1>2, <1>3, LoopStep DEF SameWork, Listing, Working
<1> QED BY <1>2, <1>4 DEF new, mid

LEMMA LoadStep ==
  ASSUME BatchInv, NEW r \in Runners, load_checkpoint(r)
  PROVE  BatchInv'
<1> DEFINE cp == checkpoint.version
           next == checkpoint.next_index
           failed == checkpoint.failed
           run == runs[r]
<1>1. cp \in Nat \cup {-1} /\ next \in 1..Last + 1 /\ failed \in 0..Last /\ run \in Run
  BY DEF BatchInv, BatchTypeOK
<1>2. run.pc = "load" /\ run.retry = {}
  BY DEF load_checkpoint, At, BatchInv, RunsInv, RunInv
<1>3. Goto(r, [run EXCEPT !.pc = "list", !.cp = cp, !.next = next, !.failed = failed])
  BY DEF load_checkpoint
<1>4. \A ch \in Chapters : ch < next => status[ch] = "done"
  BY DEF BatchInv, NothingSkipped
<1> DEFINE new == [run EXCEPT !.pc = "list", !.cp = cp, !.next = next, !.failed = failed]
<1> HIDE DEF run
<1>5. /\ new.pc = "list" /\ new.cp = checkpoint.version /\ new.next = checkpoint.next_index
      /\ new.retry = {}
  BY <1>1, <1>2 DEF Run
<1> HIDE DEF cp, next, failed
<1>6. new \in Run
  BY <1>1 DEF Run
<1> HIDE DEF new
<1>7. Owed(new) = {}
  BY <1>5 DEF Owed, Working
<1>8. NotBehind(new, checkpoint)
  BY <1>1, <1>5, <1>7, ChapterNumbers DEF NotBehind, cp, next
<1>9. RunInv(new, status, checkpoint)
  BY <1>4, <1>5, <1>8 DEF RunInv, Listing, next
<1>10. Goto(r, new) /\ UNCHANGED <<status, claims, checkpoint, version>>
  BY <1>3 DEF load_checkpoint, new
<1> QED BY <1>6, <1>9, <1>10, RunnerReads

LEMMA ListStep ==
  ASSUME BatchInv, NEW r \in Runners, all_chapters(r)
  PROVE  BatchInv'
<1> DEFINE run == runs[r]
           listed == run.next..Last
           done == {ch \in listed : status[ch] = "done"}
           new == [run EXCEPT !.pc = "next", !.listed = listed, !.done = done]
<1>1. run \in Run /\ run.pc = "list" /\ RunInv(run, status, checkpoint)
  BY DEF all_chapters, At, BatchInv, BatchTypeOK, RunsInv
<1>2. Goto(r, new) /\ UNCHANGED <<status, claims, checkpoint, version>>
  BY DEF all_chapters
<1> HIDE DEF run
<1>3. run.next \in Nat /\ listed \subseteq Chapters
  BY <1>1, ChapterNumbers DEF Run
<1>4. done \subseteq listed /\ done \in SUBSET Chapters /\ listed \in SUBSET Chapters
  BY <1>3
<1>5. run.retry = {} /\ NotBehind(run, checkpoint)
  BY <1>1 DEF RunInv
<1>6. \A ch \in Chapters : ch < run.next => status[ch] = "done"
  BY <1>1 DEF RunInv
<1>7. /\ \A ch \in Chapters : ch \in listed <=> run.next <= ch
      /\ \A ch \in done : status[ch] = "done"
  BY <1>3, ChapterNumbers DEF Chapters
<1> HIDE DEF listed, done
<1>8. new \in Run
  BY <1>1, <1>4 DEF Run
<1>9. /\ new.pc = "next" /\ new.listed = listed /\ new.done = done /\ new.next = run.next
      /\ new.retry = {} /\ new.cp = run.cp
  BY <1>1, <1>5 DEF Run
<1> HIDE DEF new
<1>10. Owed(new) = {} /\ Owed(run) = {}
  BY <1>1, <1>5, <1>9 DEF Owed, Working
<1>11. Settled(new, status)
  BY <1>3, <1>6, <1>7, <1>9, ChapterNumbers DEF Settled
<1>12. Ordered(new) /\ Known(new, status)
  BY <1>4, <1>7, <1>9, <1>10 DEF Ordered, Known
<1>13. NotBehind(new, checkpoint)
  BY <1>5, <1>9, <1>10 DEF NotBehind
<1>14. RunInv(new, status, checkpoint)
  BY <1>9, <1>11, <1>12, <1>13 DEF RunInv, Listing
<1> QED BY <1>2, <1>8, <1>14, RunnerReads

\* The smallest listed chapter is taken up.
LEMMA TakenUp ==
  ASSUME NEW run \in Run, NEW st, NEW row, RunInv(run, st, row), run.pc = "next",
         row.next_index \in 1..Last + 1,
         NEW ch \in run.listed, \A d \in run.listed : ch <= d
  PROVE  LET new == [run EXCEPT !.pc = "claim", !.listed = @ \ {ch}, !.index = ch,
                                !.next = IF ch + 1 > @ THEN ch + 1 ELSE @]
         IN  /\ new \in Run /\ RunInv(new, st, row)
             /\ new.pc = "claim" /\ new.index = ch
<1> DEFINE listed == run.listed \ {ch}
           next == IF ch + 1 > run.next THEN ch + 1 ELSE run.next
           new == [run EXCEPT !.pc = "claim", !.listed = listed, !.index = ch, !.next = next]
<1>1. \A d \in run.listed : ch <= d
  OBVIOUS
<1>2. ch \in Chapters /\ listed \in SUBSET Chapters /\ run.listed \subseteq Nat
      /\ run.retry \subseteq Nat /\ run.next \in Nat /\ run.next \in 1..Last + 1 /\ ch \in Nat
      /\ row.next_index \in Nat
  BY <1>1, ChapterNumbers DEF Run
<1>3. Settled(run, st) /\ Ordered(run) /\ Known(run, st) /\ NotBehind(run, row)
  BY DEF RunInv, Listing
<1>4. Owed(run) = run.retry
  BY DEF Owed, Working
<1>5. run.next <= ch /\ next = ch + 1
  BY <1>1, <1>2, <1>3 DEF Ordered
<1>6. next \in 1..Last + 1
  BY <1>2, <1>5, ChapterNumbers
<1>7. \A d \in listed : next <= d
  BY <1>1, <1>2, <1>5
<1> HIDE DEF listed, next
<1>8. new \in Run
  BY <1>2, <1>6 DEF Run
<1>9. /\ new.pc = "claim" /\ new.listed = listed /\ new.index = ch /\ new.next = next
      /\ new.done = run.done /\ new.retry = run.retry /\ new.cp = run.cp
  BY DEF Run
<1>10. new = [run EXCEPT !.pc = "claim", !.listed = @ \ {ch}, !.index = ch,
                         !.next = IF ch + 1 > @ THEN ch + 1 ELSE @]
  BY DEF listed, next
<1> HIDE DEF new
<1>11. Owed(new) = run.retry \cup {ch}
  BY <1>9 DEF Owed, Working
<1>12. Settled(new, st)
  BY <1>3, <1>4, <1>9, <1>11 DEF Settled, listed
<1>13. Ordered(new)
  <2>1. \A d \in run.retry : d < next
    BY <1>2, <1>3, <1>4, <1>5 DEF Ordered
  <2>2. \A d \in run.retry \cup {ch} : d < next
    BY <1>2, <1>5, <2>1
  <2> QED BY <1>7, <1>9, <1>11, <2>2 DEF Ordered
<1>14. Known(new, st)
  BY <1>3, <1>9 DEF Known
<1>15. NotBehind(new, row)
  <2>1. run.cp <= row.version /\ new.cp = run.cp
    BY <1>3, <1>9 DEF NotBehind
  <2> SUFFICES ASSUME run.cp = row.version
               PROVE  row.next_index <= next /\ \A d \in run.retry \cup {ch} : row.next_index <= d
    BY <1>9, <1>11, <2>1 DEF NotBehind
  <2>2. row.next_index <= run.next /\ \A d \in run.retry : row.next_index <= d
    BY <1>3, <1>4 DEF NotBehind
  <2> QED BY <1>2, <1>5, <2>2
<1>16. RunInv(new, st, row)
  BY <1>9, <1>12, <1>13, <1>14, <1>15 DEF RunInv, Listing
<1> QED BY <1>8, <1>9, <1>10, <1>16

LEMMA LeavesStep ==
  ASSUME BatchInv, NEW r \in Runners, Leaves(r), UNCHANGED <<status, checkpoint, version>>,
         claims' \in [Chapters -> [owner : {"task", "other", "none"}, live : BOOLEAN,
                                   generation : Nat]]
  PROVE  BatchInv'
<1>1. Goto(r, Idle) /\ UNCHANGED checkpoint /\ DoneStays
  BY DEF Leaves, DoneStays
<1>2. status' \in [Chapters -> {"pending", "failed", "done"}] /\ version' \in Nat
  BY DEF BatchInv, BatchTypeOK
<1> QED BY <1>1, <1>2, IdleRun, RunnerMoves

LEMMA ClaimTyped ==
  ASSUME BatchInv
  PROVE  claims \in [Chapters -> [owner : {"task", "other", "none"}, live : BOOLEAN,
                                  generation : Nat]]
BY DEF BatchInv, BatchTypeOK

LEMMA Reading ==
  ASSUME BatchInv, NEW r \in Runners
  PROVE  /\ runs[r] \in Run /\ RunInv(runs[r], status, checkpoint)
         /\ checkpoint.next_index \in 1..Last + 1 /\ checkpoint.version \in Int
BY DEF BatchInv, BatchTypeOK, RunsInv

LEMMA NextStep ==
  ASSUME BatchInv, NEW r \in Runners, next_chapter(r)
  PROVE  BatchInv'
<1> DEFINE run == runs[r]
           ch == CHOOSE c \in run.listed : \A d \in run.listed : c <= d
           here == [run EXCEPT !.pc = "claim", !.listed = @ \ {ch}, !.index = ch,
                               !.next = IF ch + 1 > @ THEN ch + 1 ELSE @]
<1>1. run \in Run /\ RunInv(run, status, checkpoint) /\ checkpoint.next_index \in 1..Last + 1
  BY Reading
<1>2. run.pc = "next" /\ run.listed # {} /\ UNCHANGED <<status, claims, checkpoint, version>>
  BY DEF next_chapter, At
<1>3. CASE Controlled(r)
  <2>1. Leaves(r)
    BY <1>3 DEF next_chapter
  <2> QED BY <1>2, <2>1, ClaimTyped, LeavesStep
<1>4. CASE ~ Controlled(r)
  <2>1. run.listed \in SUBSET Chapters
    BY <1>1 DEF Run
  <2>2. ch \in run.listed /\ \A d \in run.listed : ch <= d
    BY <1>2, <2>1, LeastChapter
  <2>3. Goto(r, IF ch \in run.done THEN Through(here, TRUE) ELSE here)
    BY <1>4 DEF next_chapter
  <2> HIDE DEF ch, run
  <2>4. /\ here \in Run /\ RunInv(here, status, checkpoint)
        /\ here.pc = "claim" /\ here.index = ch
    BY <1>1, <1>2, <2>2, TakenUp
  <2> HIDE DEF here
  <2>5. CASE ch \in run.done
    <3>1. status[here.index] = "done"
      BY <1>1, <1>2, <2>4, <2>5 DEF RunInv, Listing, Known
    <3>2. RunInv(Through(here, TRUE), status, checkpoint) /\ Through(here, TRUE) \in Run
      BY <2>4, <3>1, ThroughStep DEF Working
    <3> QED BY <1>2, <2>3, <2>5, <3>2, RunnerReads
  <2>6. CASE ch \notin run.done
    BY <1>2, <2>3, <2>4, <2>6, RunnerReads
  <2> QED BY <2>5, <2>6
<1> QED BY <1>3, <1>4

LEMMA ClaimStep ==
  ASSUME BatchInv, NEW r \in Runners, claim_chapter(r)
  PROVE  BatchInv'
<1> DEFINE run == runs[r]
           ch == run.index
<1>1. run \in Run /\ RunInv(run, status, checkpoint) /\ run.pc = "claim" /\ ch \in Chapters
  BY Reading DEF claim_chapter, At, Run
<1>2. UNCHANGED <<status, checkpoint, version>> /\ DoneStays
  BY DEF claim_chapter, DoneStays
<1>3. CASE UNCHANGED claims /\ Goto(r, Retried(run))
  <2>1. Retried(run) \in Run /\ RunInv(Retried(run), status, checkpoint)
    BY <1>1, RetriedStep DEF Retried, Working
  <2> QED BY <1>2, <1>3, <2>1, RunnerReads
<1>4. CASE /\ claims' = [claims EXCEPT ![ch] =
                [owner |-> "task", live |-> TRUE, generation |-> claims[ch].generation + 1]]
           /\ Goto(r, [run EXCEPT !.pc = "process", !.generation = claims[ch].generation + 1])
  <2> DEFINE generation == claims[ch].generation + 1
             new == [run EXCEPT !.pc = "process", !.generation = generation]
  <2>1. generation \in Nat
    BY <1>1, ClaimTyped
  <2>2. claims' \in [Chapters -> [owner : {"task", "other", "none"}, live : BOOLEAN,
                                  generation : Nat]]
    BY <1>4, <2>1, ClaimTyped
  <2>3. Goto(r, new)
    BY <1>4
  <2> HIDE DEF generation, run
  <2>4. new \in Run
    BY <1>1, <2>1 DEF Run
  <2>5. new.pc = "process" /\ new.index = run.index /\ SameWork(new, run)
    BY <1>1 DEF Run, SameWork
  <2> HIDE DEF new
  <2>6. Owed(new) = Owed(run)
    BY <1>1, <2>5 DEF Owed, Working, SameWork
  <2>7. RunInv(new, status, checkpoint)
    BY <1>1, <2>4, <2>5, <2>6, LoopStep DEF SameWork, Listing
  <2>8. /\ status' \in [Chapters -> {"pending", "failed", "done"}] /\ version' \in Nat
        /\ RunInv(new, status', checkpoint)
    BY <1>2, <2>7 DEF BatchInv, BatchTypeOK
  <2> QED BY <1>2, <2>2, <2>3, <2>4, <2>8, RunnerMoves
<1> QED BY <1>3, <1>4 DEF claim_chapter

\* Another pc of the same kind, and nothing else.
LEMMA StepStep ==
  ASSUME BatchInv, NEW r \in Runners, NEW pc \in PCs, Step(r, pc), runs[r].pc \notin Listing,
         pc \notin Listing \cup {"completed"}, pc \in Working <=> runs[r].pc \in Working,
         UNCHANGED <<status, claims, checkpoint, version>>
  PROVE  BatchInv'
<1> DEFINE run == runs[r]
           new == [run EXCEPT !.pc = pc]
<1>1. run \in Run /\ RunInv(run, status, checkpoint)
  BY Reading
<1>2. new \in Run /\ new.pc = pc /\ new.index = run.index /\ SameWork(new, run)
  BY <1>1, SteppedRun
<1>3. Goto(r, new)
  BY DEF Step
<1> HIDE DEF new
<1>4. Owed(new) = Owed(run)
  BY <1>2 DEF Owed, SameWork
<1>5. RunInv(new, status, checkpoint)
  BY <1>1, <1>2, <1>4, LoopStep DEF SameWork
<1> QED BY <1>2, <1>3, <1>5, RunnerReads

LEMMA ReleaseTyped ==
  ASSUME BatchInv, NEW ch \in Chapters, Release(ch)
  PROVE  claims' \in [Chapters -> [owner : {"task", "other", "none"}, live : BOOLEAN,
                                   generation : Nat]]
<1>1. claims[ch].generation \in Nat
  BY ClaimTyped
<1>2. NoClaim(claims[ch].generation) \in
        [owner : {"task", "other", "none"}, live : BOOLEAN, generation : Nat]
  BY <1>1 DEF NoClaim
<1> QED BY <1>2, ClaimTyped DEF Release

LEMMA ReleaseStep ==
  ASSUME BatchInv, NEW r \in Runners, release_chapter_claim(r)
  PROVE  BatchInv'
<1>1. runs[r].index \in Chapters
  BY Reading DEF Run
<1>2. claims' \in [Chapters -> [owner : {"task", "other", "none"}, live : BOOLEAN,
                                generation : Nat]]
  BY <1>1, ClaimTyped, ReleaseTyped DEF release_chapter_claim
<1> QED BY <1>2, LeavesStep DEF release_chapter_claim

LEMMA MarkDoneStep ==
  ASSUME BatchInv, NEW r \in Runners, mark_done(r)
  PROVE  BatchInv'
<1> DEFINE run == runs[r]
           ch == run.index
<1>1. run \in Run /\ RunInv(run, status, checkpoint) /\ run.pc = "mark" /\ ch \in Chapters
      /\ checkpoint.version \in Int
  BY Reading DEF mark_done, At, Run
<1>2. CASE Step(r, "fail") /\ UNCHANGED <<status, claims>>
  BY <1>1, <1>2, StepStep DEF mark_done, PCs, Listing, Working
<1>3. CASE /\ status' = [status EXCEPT ![ch] = "done"]
           /\ Release(ch)
           /\ Goto(r, Through(run, TRUE))
  <2>1. /\ DoneStays /\ status'[ch] = "done"
        /\ status' \in [Chapters -> {"pending", "failed", "done"}]
        /\ version' \in Nat /\ UNCHANGED checkpoint
    BY <1>1, <1>3 DEF BatchInv, BatchTypeOK, DoneStays, mark_done
  <2>2. \A c \in Chapters : status[c] = "done" => status'[c] = "done"
    BY <2>1 DEF DoneStays
  <2>3. RunInv(run, status', checkpoint)
    BY <1>1, <2>2, RunInvKept
  <2>4. RunInv(Through(run, TRUE), status', checkpoint) /\ Through(run, TRUE) \in Run
    BY <1>1, <2>1, <2>3, ThroughStep DEF Working
  <2>5. claims' \in [Chapters -> [owner : {"task", "other", "none"}, live : BOOLEAN,
                                  generation : Nat]]
    BY <1>1, <1>3, ReleaseTyped
  <2> QED BY <1>3, <2>1, <2>4, <2>5, RunnerMoves
<1> QED BY <1>2, <1>3 DEF mark_done

LEMMA MarkFailedStep ==
  ASSUME BatchInv, NEW r \in Runners, mark_failed(r)
  PROVE  BatchInv'
<1> DEFINE run == runs[r]
           ch == run.index
           new == Through([run EXCEPT !.retry = @ \cup {ch}], TRUE)
<1>1. run \in Run /\ RunInv(run, status, checkpoint) /\ run.pc = "fail" /\ ch \in Chapters
      /\ checkpoint.version \in Int
  BY Reading DEF mark_failed, At, Run
<1>2. Goto(r, new) /\ UNCHANGED checkpoint
  BY DEF mark_failed
<1>3. /\ DoneStays /\ version' \in Nat
      /\ status' \in [Chapters -> {"pending", "failed", "done"}]
  BY <1>1 DEF mark_failed, BatchInv, BatchTypeOK, DoneStays
<1>4. \A c \in Chapters : status[c] = "done" => status'[c] = "done"
  BY <1>3 DEF DoneStays
<1>5. RunInv(run, status', checkpoint)
  BY <1>1, <1>4, RunInvKept
<1>6. new \in Run /\ RunInv(new, status', checkpoint)
  BY <1>1, <1>5, RetriedStep DEF Working
<1>7. claims' \in [Chapters -> [owner : {"task", "other", "none"}, live : BOOLEAN,
                                generation : Nat]]
  BY <1>1, ReleaseTyped, ClaimTyped DEF mark_failed
<1> HIDE DEF new
<1> QED BY <1>2, <1>3, <1>6, <1>7, RunnerMoves

LEMMA CountStep ==
  ASSUME BatchInv, NEW r \in Runners, counts(r)
  PROVE  BatchInv'
<1> DEFINE run == runs[r]
           failed == Failed
           new == [run EXCEPT !.pc = "check", !.failed = failed]
<1>1. run \in Run /\ RunInv(run, status, checkpoint) /\ run.pc = "count"
  BY Reading DEF counts, At
<1>2. Goto(r, new) /\ UNCHANGED <<status, claims, checkpoint, version>>
  BY DEF counts
<1>3. failed \in 0..Last
  BY FailedCount
<1> HIDE DEF failed, run
<1>4. new \in Run
  BY <1>1, <1>3 DEF Run
<1>5. new.pc = "check" /\ new.index = run.index /\ SameWork(new, run)
  BY <1>1 DEF Run, SameWork
<1> HIDE DEF new
<1>6. Owed(new) = Owed(run)
  BY <1>1, <1>5 DEF Owed, Working, SameWork
<1>7. RunInv(new, status, checkpoint)
  BY <1>1, <1>4, <1>5, <1>6, LoopStep DEF SameWork, Listing
<1> QED BY <1>2, <1>4, <1>7, RunnerReads

LEMMA ReturnsStep ==
  ASSUME BatchInv, NEW r \in Runners, returns(r)
  PROVE  BatchInv'
<1> DEFINE run == runs[r]
           new == [run EXCEPT !.pc = "completed"]
<1>1. /\ run \in Run /\ RunInv(run, status, checkpoint) /\ run.pc = "next" /\ run.listed = {}
      /\ UNCHANGED <<status, claims, checkpoint, version>>
  BY Reading DEF returns, At
<1>2. CASE Step(r, "count") \/ Step(r, "recoverable")
  BY <1>1, <1>2, StepStep DEF PCs, Listing, Working
<1>3. CASE Step(r, "completed") /\ run.retry = {}
  <2>1. new \in Run /\ new.pc = "completed" /\ SameWork(new, run)
    BY <1>1, SteppedRun DEF PCs
  <2>2. Goto(r, new)
    BY <1>3 DEF Step
  <2> HIDE DEF new
  <2>3. Owed(new) = Owed(run)
    BY <1>1, <2>1 DEF Owed, Working, SameWork
  <2>4. Settled(run, status) /\ Ordered(run) /\ Known(run, status) /\ NotBehind(run, checkpoint)
    BY <1>1 DEF RunInv, Listing
  <2>5. Settled(new, status) /\ Ordered(new) /\ Known(new, status) /\ NotBehind(new, checkpoint)
    BY <2>1, <2>3, <2>4 DEF Settled, Ordered, Known, NotBehind, SameWork
  <2>6. RunInv(new, status, checkpoint)
    BY <1>1, <1>3, <2>1, <2>5 DEF RunInv, Listing, SameWork
  <2> QED BY <1>1, <2>1, <2>2, <2>6, RunnerReads
<1> QED BY <1>2, <1>3 DEF returns

-----------------------------------------------------------------------------
(* Saving the checkpoint.                                                   *)

\* Nothing is missing below the index a run would save, and the index is none that the
\* run has already gone behind.
LEMMA NextIndexOf ==
  ASSUME NEW run \in Run, NEW st, NEW row, RunInv(run, st, row), run.pc = "save",
         row.next_index \in Nat
  PROVE  /\ NextIndex(run) \in 1..Last + 1
         /\ \A ch \in Chapters : ch < NextIndex(run) => st[ch] = "done"
         /\ NextIndex(run) <= run.next /\ \A ch \in run.retry : NextIndex(run) <= ch
         /\ run.cp = row.version => row.next_index <= NextIndex(run)
<1> DEFINE n == NextIndex(run)
<1>1. /\ run.retry \in SUBSET Chapters /\ run.listed \subseteq Chapters
      /\ run.next \in 1..Last + 1 /\ run.next \in Nat
  BY ChapterNumbers DEF Run
<1>2. /\ Owed(run) = run.retry
      /\ Settled(run, st) /\ Ordered(run) /\ NotBehind(run, row)
  BY DEF RunInv, Listing, Owed, Working
<1>3. \/ n = run.next /\ run.retry = {}
      \/ n \in run.retry /\ \A d \in run.retry : n <= d
  BY <1>1, LeastChapter DEF NextIndex
<1>4. \A d \in run.retry : d < run.next
  BY <1>2 DEF Ordered
<1> HIDE DEF n
<1>5. n \in 1..Last + 1 /\ n \in Nat /\ n <= run.next /\ \A d \in run.retry : n <= d
  <2>1. CASE n = run.next /\ run.retry = {}
    BY <1>1, <2>1
  <2>2. CASE n \in run.retry /\ \A d \in run.retry : n <= d
    <3>1. n \in 1..Last + 1 /\ n \in Nat /\ n < run.next
      BY <1>1, <1>4, <2>2, ChapterNumbers
    <3> QED BY <1>1, <2>2, <3>1
  <2> QED BY <1>3, <2>1, <2>2
<1>6. ASSUME NEW ch \in Chapters, ch < n PROVE st[ch] = "done"
  <2>1. ch \in Nat /\ ch < run.next
    BY <1>1, <1>5, <1>6, ChapterNumbers
  <2>2. ch \notin run.listed
    BY <1>1, <1>2, <2>1, ChapterNumbers DEF Ordered
  <2>3. ch \notin run.retry
    BY <1>5, <1>6, <2>1
  <2> QED BY <1>2, <2>2, <2>3 DEF Settled
<1>7. run.cp = row.version => row.next_index <= n
  BY <1>2, <1>3 DEF NotBehind
<1> QED BY <1>5, <1>6, <1>7 DEF n

LEMMA SaveStep ==
  ASSUME BatchInv, NEW r \in Runners, save_checkpoint(r)
  PROVE  BatchInv'
<1> DEFINE run == runs[r]
           n == NextIndex(run)
<1>1. /\ run \in Run /\ RunInv(run, status, checkpoint) /\ run.pc = "save"
      /\ checkpoint.next_index \in Nat /\ checkpoint.version \in Int
  BY Reading, ChapterNumbers DEF save_checkpoint, At
<1>2. UNCHANGED <<status, claims, version>>
  BY DEF save_checkpoint
<1>3. CASE Leaves(r) /\ UNCHANGED checkpoint
  BY <1>2, <1>3, ClaimTyped, LeavesStep
<1>4. CASE /\ checkpoint.version = run.cp
           /\ checkpoint' = [version |-> run.cp + 1, next_index |-> n, failed |-> run.failed]
           /\ Goto(r, [run EXCEPT !.pc = "next", !.cp = @ + 1, !.batch = 0])
  <2> DEFINE cp == run.cp + 1
             new == [run EXCEPT !.pc = "next", !.cp = cp, !.batch = 0]
  <2>1. /\ n \in 1..Last + 1
        /\ \A ch \in Chapters : ch < n => status[ch] = "done"
        /\ n <= run.next /\ \A ch \in run.retry : n <= ch
    BY <1>1, NextIndexOf
  <2>2. cp \in Nat /\ run.failed \in 0..Last
    BY <1>1 DEF Run
  <2>3. /\ checkpoint'.version = checkpoint.version + 1 /\ checkpoint'.version = cp
        /\ checkpoint'.next_index = n
        /\ checkpoint' \in [version : Nat \cup {-1}, next_index : 1..Last + 1, failed : 0..Last]
    BY <1>4, <2>1, <2>2
  <2>4. Goto(r, new)
    BY <1>4
  <2> HIDE DEF cp, n, run
  <2>5. new \in Run
    BY <1>1, <2>2 DEF Run
  <2>6. /\ new.pc = "next" /\ new.index = run.index /\ new.listed = run.listed
        /\ new.done = run.done /\ new.next = run.next /\ new.retry = run.retry /\ new.cp = cp
    BY <1>1 DEF Run
  <2> HIDE DEF new
  <2>7. Owed(new) = run.retry /\ Owed(run) = run.retry
    BY <1>1, <2>6 DEF Owed, Working
  <2>8. Settled(run, status) /\ Ordered(run) /\ Known(run, status)
    BY <1>1 DEF RunInv, Listing
  <2>9. Settled(new, status) /\ Ordered(new) /\ Known(new, status)
    BY <2>6, <2>7, <2>8 DEF Settled, Ordered, Known
  <2>10. NotBehind(new, checkpoint')
    BY <2>1, <2>2, <2>3, <2>6, <2>7 DEF NotBehind
  <2>11. RunInv(new, status, checkpoint')
    BY <2>6, <2>9, <2>10 DEF RunInv, Listing
  <2>12. RunsInv'
    <3> SUFFICES ASSUME NEW q \in Runners PROVE RunInv(runs'[q], status, checkpoint')
      BY <1>2 DEF RunsInv
    <3>1. CASE q = r
      BY <2>4, <2>11, <3>1 DEF Goto, BatchInv, BatchTypeOK
    <3>2. CASE q # r
      <4>1. runs'[q] = runs[q] /\ runs[q] \in Run /\ RunInv(runs[q], status, checkpoint)
        BY <2>4, <3>2 DEF Goto, BatchInv, BatchTypeOK, RunsInv
      <4>2. checkpoint'.version \in Int
        BY <2>2, <2>3
      <4>3. RunInv(runs[q], status, checkpoint')
        BY <1>1, <2>3, <4>1, <4>2, RunInvKept
      <4> QED BY <4>1, <4>3
    <3> QED BY <3>1, <3>2
  <2>13. BatchTypeOK'
    BY <1>2, <2>3, <2>4, <2>5 DEF BatchInv, BatchTypeOK, Goto
  <2>14. NothingSkipped'
    BY <1>2, <2>1, <2>3 DEF NothingSkipped
  <2> QED BY <2>12, <2>13, <2>14 DEF BatchInv
<1> QED BY <1>3, <1>4 DEF save_checkpoint

-----------------------------------------------------------------------------
(* The invariant.                                                           *)

LEMMA StartStep ==
  ASSUME BatchInv, NEW r \in Runners, start(r)
  PROVE  BatchInv'
<1> DEFINE expected == version + 1
           new == [Idle EXCEPT !.pc = "load", !.expected = expected]
<1>1. expected \in Nat /\ Idle \in Run /\ Idle.retry = {}
  BY IdleRun DEF BatchInv, BatchTypeOK, Idle
<1>2. Goto(r, new) /\ UNCHANGED <<status, claims, checkpoint>> /\ version' = expected
  BY DEF start
<1> HIDE DEF expected
<1>3. new \in Run /\ new.pc = "load" /\ new.retry = {}
  BY <1>1 DEF Run
<1> HIDE DEF new
<1>4. \A st, row : RunInv(new, st, row)
  BY <1>3 DEF RunInv, Listing
<1>5. DoneStays /\ status' \in [Chapters -> {"pending", "failed", "done"}]
  BY <1>2 DEF DoneStays, BatchInv, BatchTypeOK
<1> QED BY <1>1, <1>2, <1>3, <1>4, <1>5, ClaimTyped, RunnerMoves

LEMMA RunnerStepInv ==
  ASSUME BatchInv, NEW r \in Runners, RunnerStep(r)
  PROVE  BatchInv'
<1>1. CASE processed(r)
  BY <1>1, StepStep DEF processed, At, PCs, Listing, Working
<1>2. CASE check_control(r)
  BY <1>2, ClaimTyped, LeavesStep, StepStep DEF check_control, At, PCs, Listing, Working
<1>3. CASE crash(r)
  BY <1>3, ClaimTyped, LeavesStep DEF crash
<1> QED BY <1>1, <1>2, <1>3, StartStep, LoadStep, ListStep, NextStep, ClaimStep, ReleaseStep,
       MarkDoneStep, MarkFailedStep, CountStep, SaveStep, ReturnsStep DEF RunnerStep

LEMMA OtherStepInv ==
  ASSUME BatchInv, NEW ch \in Chapters, expire(ch) \/ other_claims(ch) \/ other_ends(ch)
  PROVE  BatchInv'
<1>1. claims[ch] \in [owner : {"task", "other", "none"}, live : BOOLEAN, generation : Nat]
  BY ClaimTyped
<1>2. status \in [Chapters -> {"pending", "failed", "done"}] /\ version \in Nat
  BY DEF BatchInv, BatchTypeOK
<1>3. CASE expire(ch)
  BY <1>1, <1>2, <1>3, ClaimTyped, OthersMove DEF expire, DoneStays
<1>4. CASE other_claims(ch)
  BY <1>1, <1>2, <1>4, ClaimTyped, OthersMove DEF other_claims, DoneStays
<1>5. CASE other_ends(ch)
  <2>1. DoneStays /\ status' \in [Chapters -> {"pending", "failed", "done"}]
    BY <1>2, <1>5 DEF other_ends, DoneStays
  <2> QED BY <1>2, <1>5, <2>1, ReleaseTyped, OthersMove DEF other_ends
<1> QED BY <1>3, <1>4, <1>5

LEMMA BatchInitInv == BatchInit => BatchInv
<1> SUFFICES ASSUME BatchInit PROVE BatchInv
  OBVIOUS
<1>1. NoClaim(0) \in [owner : {"task", "other", "none"}, live : BOOLEAN, generation : Nat]
  BY DEF NoClaim
<1>2. [version |-> -1, next_index |-> 1, failed |-> 0]
        \in [version : Nat \cup {-1}, next_index : 1..Last + 1, failed : 0..Last]
  BY ChapterNumbers
<1>3. BatchTypeOK
  BY <1>1, <1>2, IdleRun DEF BatchInit, BatchTypeOK
<1>4. NothingSkipped
  BY DEF BatchInit, NothingSkipped, Chapters
<1>5. RunsInv
  BY IdleRun DEF BatchInit, RunsInv
<1> QED BY <1>3, <1>4, <1>5 DEF BatchInv

LEMMA BatchNextInv == BatchInv /\ [BatchNext]_batchVars => BatchInv'
<1> SUFFICES ASSUME BatchInv, [BatchNext]_batchVars PROVE BatchInv'
  OBVIOUS
<1>1. CASE \E r \in Runners : RunnerStep(r)
  BY <1>1, RunnerStepInv
<1>2. CASE \E ch \in Chapters : expire(ch) \/ other_claims(ch) \/ other_ends(ch)
  BY <1>2, OtherStepInv
<1>3. CASE interrupt
  BY <1>3, ClaimTyped, OthersMove DEF interrupt, DoneStays, BatchInv, BatchTypeOK
<1>4. CASE reset_failed
  BY <1>4, ClaimTyped, OthersMove DEF reset_failed, DoneStays, BatchInv, BatchTypeOK
<1>5. CASE UNCHANGED batchVars
  BY <1>5, ClaimTyped, OthersMove DEF batchVars, DoneStays, BatchInv, BatchTypeOK
<1> QED BY <1>1, <1>2, <1>3, <1>4, <1>5 DEF BatchNext

LEMMA BatchInvariance == BatchSpec => []BatchInv
BY BatchInitInv, BatchNextInv, PTL DEF BatchSpec

\* No chapter below the checkpoint's next_index is missing, whatever claims run out, are
\* taken by other tasks or by another generation of the task.
THEOREM NoChapterSkipped == BatchSpec => []NothingSkipped
<1>1. BatchInv => NothingSkipped
  BY DEF BatchInv
<1> QED BY <1>1, BatchInvariance, PTL

\* A run that reports COMPLETED has every planned chapter done.
THEOREM CompletedRunsAreComplete == BatchSpec => []CompletedIsComplete
<1>1. BatchInv => CompletedIsComplete
  <2> SUFFICES ASSUME BatchInv, NEW r \in Runners, runs[r].pc = "completed", NEW ch \in Chapters
               PROVE  status[ch] = "done"
    BY DEF CompletedIsComplete
  <2>1. RunInv(runs[r], status, checkpoint)
    BY Reading
  <2>2. Settled(runs[r], status) /\ runs[r].listed = {} /\ Owed(runs[r]) = {}
    BY <2>1 DEF RunInv, Listing, Owed, Working
  <2> QED BY <2>2 DEF Settled
<1> QED BY <1>1, BatchInvariance, PTL

\* The checkpoint's next_index never decreases: a run behind the row's version cannot save.
THEOREM CheckpointsAdvance == BatchSpec => CheckpointAdvances
<1>1. BatchInv /\ [BatchNext]_batchVars => [checkpoint'.next_index >= checkpoint.next_index]_checkpoint
  <2> SUFFICES ASSUME BatchInv, [BatchNext]_batchVars, checkpoint' # checkpoint
               PROVE  checkpoint'.next_index >= checkpoint.next_index
    OBVIOUS
  <2>1. PICK r \in Runners : save_checkpoint(r)
    BY DEF BatchNext, RunnerStep, batchVars, start, load_checkpoint, all_chapters, next_chapter,
       claim_chapter, processed, release_chapter_claim, mark_done, mark_failed, counts,
       check_control, returns, crash, expire, other_claims, other_ends, interrupt, reset_failed
  <2>2. /\ runs[r] \in Run /\ RunInv(runs[r], status, checkpoint) /\ runs[r].pc = "save"
        /\ checkpoint.next_index \in Nat
    BY <2>1, Reading, ChapterNumbers DEF save_checkpoint, At
  <2>3. checkpoint.version = runs[r].cp /\ checkpoint'.next_index = NextIndex(runs[r])
    BY <2>1 DEF save_checkpoint
  <2>4. checkpoint.next_index <= NextIndex(runs[r]) /\ NextIndex(runs[r]) \in Nat
    BY <2>2, <2>3, NextIndexOf, ChapterNumbers
  <2> QED BY <2>2, <2>3, <2>4
<1> QED BY <1>1, BatchInvariance, PTL DEF BatchSpec, CheckpointAdvances
=============================================================================
