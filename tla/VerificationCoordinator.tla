----------------------- MODULE VerificationCoordinator -----------------------
(***************************************************************************)
(* VerificationCoordinator, BrowserAcquirer (browser/coordinator.py) and    *)
(* BrowserContextWorker (browser/driver.py) over the session store.  A      *)
(* verification is a visible browser on a domain's profile, which a person  *)
(* has some time to get past a challenge with.  Clients begin, continue,    *)
(* cancel and clean up verifications at the same time; the browser's own    *)
(* thread ends one whose time is up or whose browser has died.              *)
(*                                                                         *)
(* A step is a section under _guard, a ledger or session operation, or a    *)
(* command the browser's thread carries out.  A call that only reports what *)
(* there is is no step.                                                     *)
(***************************************************************************)
EXTENDS BrowserSessions

CONSTANTS
  Tokens,       \* verifications, numbered as they begin
  Fetches,      \* headless reads of a page
  Clients,
  MaxActive,    \* max_active
  MaxAttempts,  \* max_attempts: verifications of a page in a while, and challenges in one
  MaxCleanups,  \* max_failed_cleanups
  MaxOps        \* bound on client operations

ASSUME CoordinatorAssumption ==
  /\ Tokens \subseteq Nat \ {0} /\ Fetches \cap Tokens = {} /\ Clients \cap (Tokens \cup Fetches) = {}
  /\ {MaxActive, MaxAttempts, MaxCleanups} \subseteq Nat \ {0} /\ MaxOps \in Nat
  /\ IsFiniteSet(Tokens \cup Clients) /\ Nobody \notin Fetches
  /\ MaxIds >= Cardinality(Tokens \cup Fetches)

\* A verification's browser has a thread of its own, called by its token.
Threads == Clients \cup Tokens

VARIABLES
  actives,   \* the _ActiveVerification of each token
  reserved,  \* _reserved
  workers,   \* the BrowserContextWorker of each token
  terminal,  \* _terminal: the outcome remembered for a token
  ledger,    \* verification-attempts.json: the record of each token, all for one page
  repairs,   \* _ledger_repairs
  fetches,   \* what each headless read holds
  threads,
  up,        \* is the process running?
  ops

coordinatorVars == <<actives, reserved, workers, terminal, ledger, repairs, fetches, threads>>
vars == <<sessionVars, coordinatorVars, up, ops>>

\* registered and failed: is it in _active, in _failed_closures?  told: has a client its
\* token?  due: has its time run out?
NoActive == [lifecycle |-> "unused", registered |-> FALSE, failed |-> FALSE, told |-> FALSE,
             due |-> FALSE, event |-> FALSE, lock |-> Nobody, attempt |-> 0, domain |-> NONE,
             session |-> 0, cleanup_status |-> NONE, resume_ready |-> FALSE]

Gone == [NoActive EXCEPT !.lifecycle = "gone"]

NoOutcome == [status |-> NONE, cleanup |-> FALSE, resume |-> FALSE]

Idle == [pc |-> "idle", token |-> 0, status |-> NONE, consumed |-> FALSE, begins |-> FALSE,
         begun |-> FALSE, retries |-> FALSE, broken |-> FALSE, ends |-> FALSE, todo |-> {}]

NoFetch == [state |-> "unused", domain |-> NONE, session |-> 0]

Init ==
  /\ disk = EmptyDisk /\ holder = [d \in Domains |-> Nobody] /\ faults = 0
  /\ actives = [t \in Tokens |-> NoActive]
  /\ reserved = 0
  /\ workers = [t \in Tokens |-> "none"]
  /\ terminal = [t \in Tokens |-> NoOutcome]
  /\ ledger = [t \in Tokens |-> "none"]
  /\ repairs = [t \in Tokens |-> "none"]
  /\ fetches = [f \in Fetches |-> NoFetch]
  /\ threads = [p \in Threads |-> Idle]
  /\ up = TRUE /\ ops = 0

-----------------------------------------------------------------------------
At(p, pc) == threads[p].pc = pc
T(p) == threads[p].token
Active(p) == actives[T(p)]
Lifecycle(p) == Active(p).lifecycle
IsIdle(p) == At(p, "idle")

Goto(p, pc) == threads' = [threads EXCEPT ![p].pc = pc]
Set(t, active) == actives' = [actives EXCEPT ![t] = active]

\* A client that holds the verification's lock gives it back when its call returns.
Unlocked(p) == IF Active(p).lock = p THEN [Active(p) EXCEPT !.lock = Nobody] ELSE Active(p)

\* The call returns: in a sweep to the next verification, in begin to what is left to do.
Returned(p) ==
  LET thread == threads[p] IN
  threads' = [threads EXCEPT ![p] =
    IF thread.begun THEN [Idle EXCEPT !.pc = "begin_failed", !.token = thread.token, !.begun = TRUE]
    ELSE IF thread.todo # {} \/ thread.begins
    THEN [Idle EXCEPT !.pc = "sweep", !.todo = thread.todo, !.begins = thread.begins]
    ELSE Idle]

Returns(p) == Returned(p) /\ Set(T(p), Unlocked(p))

Finishes(p, status) ==
  threads' = [threads EXCEPT ![p].pc = "finish", ![p].status = status,
                             ![p].consumed = status # "completed"]

Starts(p, thread) ==
  /\ up /\ IsIdle(p) /\ ops < MaxOps
  /\ ops' = ops + 1
  /\ threads' = [threads EXCEPT ![p] = thread]

\* The browser's thread is there to carry out a command.
Serves(t) == IsIdle(t) /\ workers[t] \in {"open", "dead", "expired", "partial"}

-----------------------------------------------------------------------------
(* begin *)

\* begin sweeps first; both first see to the ledger.
_retry_ledger_repairs(p) ==
  /\ \E begins \in BOOLEAN : Starts(p, [Idle EXCEPT !.pc = "list", !.begins = begins])
  /\ \/ /\ ledger' = [t \in Tokens |->
               IF repairs[t] = "none" \/ ledger[t] = "none" THEN ledger[t]
               ELSE IF repairs[t] = "consumed" THEN "used" ELSE "none"]
        /\ repairs' = [t \in Tokens |-> "none"]
     \/ (\E t \in Tokens : repairs[t] # "none") /\ UNCHANGED <<ledger, repairs>>  \* it fails once more
  /\ UNCHANGED <<sessionVars, actives, reserved, workers, terminal, fetches, up>>

AfterSweep(thread) == IF thread.begins THEN [Idle EXCEPT !.pc = "begin"] ELSE Idle

expire_sweep_lists(p) ==
  LET due == {t \in Tokens : actives[t].registered /\ actives[t].lifecycle = "active" /\ actives[t].due} IN
  /\ At(p, "list")
  /\ threads' = [threads EXCEPT ![p] = IF due = {} THEN AfterSweep(@)
                                      ELSE [@ EXCEPT !.pc = "sweep", !.todo = due]]
  /\ UNCHANGED <<sessionVars, actives, reserved, workers, terminal, ledger, repairs, fetches, up, ops>>

\* A verification whose lock is taken, or that has gone, is passed over.
expire_sweep(p) ==
  /\ At(p, "sweep")
  /\ \/ \E t \in threads[p].todo :
          IF actives[t].lock = Nobody /\ actives[t].registered
          THEN /\ Set(t, [actives[t] EXCEPT !.lock = p])
               /\ threads' = [threads EXCEPT ![p] =
                    [@ EXCEPT !.pc = "finish", !.token = t, !.status = "timed_out",
                              !.consumed = TRUE, !.todo = threads[p].todo \ {t}]]
          ELSE threads' = [threads EXCEPT ![p].todo = @ \ {t}] /\ UNCHANGED actives
     \/ /\ threads[p].todo = {}
        /\ threads' = [threads EXCEPT ![p] = AfterSweep(@)]
        /\ UNCHANGED actives
  /\ UNCHANGED <<sessionVars, reserved, workers, terminal, ledger, repairs, fetches, up, ops>>

_capacity_used == Cardinality({t \in Tokens : actives[t].registered \/ actives[t].failed})

NextToken == {t \in Tokens : /\ actives[t].lifecycle = "unused"
                             /\ \A u \in Tokens : actives[u].lifecycle = "unused" => t <= u}

\* Mutant: nothing is reserved until the browser is there.
begin_unreserved(p) ==
  /\ At(p, "begin")
  /\ \E t \in NextToken, d \in Domains :
       /\ _capacity_used < MaxActive
       /\ Set(t, [NoActive EXCEPT !.lifecycle = "starting", !.domain = d])
       /\ threads' = [threads EXCEPT ![p] = [Idle EXCEPT !.pc = "reserve", !.token = t, !.begun = TRUE]]
       /\ reserved' = reserved + 1
  /\ UNCHANGED <<sessionVars, workers, terminal, ledger, repairs, fetches, up, ops>>

begin(p) ==
  /\ At(p, "begin")
  /\ \/ \E t \in NextToken, d \in Domains :
          /\ _capacity_used + reserved < MaxActive
          /\ Set(t, [NoActive EXCEPT !.lifecycle = "starting", !.domain = d])
          /\ threads' = [threads EXCEPT ![p] = [Idle EXCEPT !.pc = "reserve", !.token = t, !.begun = TRUE]]
          /\ reserved' = reserved + 1
     \/ /\ NextToken = {} \/ _capacity_used + reserved >= MaxActive
        /\ threads' = [threads EXCEPT ![p] = Idle]
        /\ UNCHANGED <<actives, reserved>>
  /\ UNCHANGED <<sessionVars, workers, terminal, ledger, repairs, fetches, up, ops>>

\* The attempt is written to the ledger, if the page has one left.  It may be refused all the
\* same: other pages' attempts fill the ledger, or it cannot be written.
reserve(p) ==
  /\ At(p, "reserve")
  /\ \/ /\ Cardinality({t \in Tokens : ledger[t] # "none"}) < MaxAttempts
        /\ ledger' = [ledger EXCEPT ![T(p)] = "reserved"]
        /\ Goto(p, "acquire")
        /\ UNCHANGED <<actives, reserved>>
     \/ /\ reserved' = reserved - 1
        /\ Set(T(p), Gone)
        /\ threads' = [threads EXCEPT ![p] = Idle]
        /\ UNCHANGED ledger
  /\ UNCHANGED <<sessionVars, workers, terminal, repairs, fetches, up, ops>>

begin_acquires(p) ==
  /\ At(p, "acquire")
  /\ \/ /\ Acquires(Active(p).domain, T(p))
        /\ Set(T(p), [Active(p) EXCEPT !.session = SessionOf(disk', Active(p).domain)])
        /\ Goto(p, "register")
        /\ UNCHANGED reserved
     \/ /\ AcquireFails(Active(p).domain)
        /\ Set(T(p), Gone)
        /\ reserved' = reserved - 1
        /\ Goto(p, "ledger")
  /\ UNCHANGED <<workers, terminal, ledger, repairs, fetches, up, ops>>

\* The browser's thread starts after this, so that it finds the verification registered.
register(p) ==
  /\ At(p, "register")
  /\ reserved' = reserved - 1
  /\ Set(T(p), [Active(p) EXCEPT !.lifecycle = "pending", !.registered = TRUE])
  /\ workers' = [workers EXCEPT ![T(p)] = "launching"]
  /\ Goto(p, "start")
  /\ UNCHANGED <<sessionVars, terminal, ledger, repairs, fetches, up, ops>>

\* start waits for the launch, and for what its failure leads to.
start(p) ==
  LET t == T(p) IN
  /\ At(p, "start") /\ workers[t] # "launching" /\ IsIdle(t)
  /\ Goto(p, IF workers[t] \in {"open", "dead"} THEN "navigate" ELSE "begin_failed")
  /\ UNCHANGED <<sessionVars, actives, reserved, workers, terminal, ledger, repairs, fetches, up, ops>>

navigate(p) ==
  /\ At(p, "navigate")
  /\ \/ workers[T(p)] = "open" /\ IsIdle(T(p)) /\ Goto(p, "activate") /\ UNCHANGED faults
     \/ workers[T(p)] # "open" /\ Goto(p, "begin_failed") /\ UNCHANGED faults
     \/ workers[T(p)] = "open" /\ Fault /\ Goto(p, "begin_failed")
  /\ UNCHANGED <<disk, holder, actives, reserved, workers, terminal, ledger, repairs, fetches, up, ops>>

\* The ticket is given out, unless the browser has ended meanwhile.
activate(p) ==
  /\ At(p, "activate")
  /\ IF Lifecycle(p) = "pending"
     THEN /\ Set(T(p), [Active(p) EXCEPT !.lifecycle = "active", !.told = TRUE])
          /\ threads' = [threads EXCEPT ![p] = Idle]
     ELSE Goto(p, "begin_failed") /\ UNCHANGED actives
  /\ UNCHANGED <<sessionVars, reserved, workers, terminal, ledger, repairs, fetches, up, ops>>

\* A failed start ends the verification; one that has been quarantined is reported with its
\* ticket.
begin_failed(p) ==
  /\ At(p, "begin_failed")
  /\ IF Active(p).registered /\ ~ Active(p).failed /\ Lifecycle(p) \in {"pending", "active"}
     THEN threads' = [threads EXCEPT ![p].pc = "finish", ![p].status = "failed"] /\ UNCHANGED actives
     ELSE /\ threads' = [threads EXCEPT ![p] = Idle]
          /\ Set(T(p), [Active(p) EXCEPT !.told = @ \/ Active(p).failed])
  /\ UNCHANGED <<sessionVars, reserved, workers, terminal, ledger, repairs, fetches, up, ops>>

-----------------------------------------------------------------------------
(* _finish: a client ends a verification. *)

\* Mutant: two endings go on side by side.
_finish_again(p) ==
  /\ At(p, "finish")
  /\ IF Lifecycle(p) \in {"quarantined", "released"}
     THEN /\ IF terminal[T(p)] # NoOutcome \/ Lifecycle(p) = "quarantined"
             THEN Returns(p) ELSE Goto(p, "wait") /\ UNCHANGED actives
     ELSE Set(T(p), [Active(p) EXCEPT !.lifecycle = "terminating"]) /\ Goto(p, "close")
  /\ UNCHANGED <<sessionVars, reserved, workers, terminal, ledger, repairs, fetches, up, ops>>

\* One ending is enough: whoever comes second waits for the first.
_finish(p) ==
  /\ At(p, "finish")
  /\ IF Lifecycle(p) \in {"terminating", "quarantined", "released"}
     THEN /\ IF terminal[T(p)] # NoOutcome \/ Lifecycle(p) = "quarantined"
             THEN Returns(p) ELSE Goto(p, "wait") /\ UNCHANGED actives
     ELSE Set(T(p), [Active(p) EXCEPT !.lifecycle = "terminating"]) /\ Goto(p, "close")
  /\ UNCHANGED <<sessionVars, reserved, workers, terminal, ledger, repairs, fetches, up, ops>>

\* terminal_event.wait, for the other's answer or for as long as a verification may take; begin
\* raises without its ticket then.
wait(p) ==
  /\ At(p, "wait")
  /\ \/ Active(p).event /\ Returns(p)
     \/ /\ ~ Active(p).event /\ Active(p).due
        /\ IF threads[p].begun THEN threads' = [threads EXCEPT ![p] = Idle] ELSE Returned(p)
        /\ Set(T(p), Unlocked(p))
  /\ UNCHANGED <<sessionVars, reserved, workers, terminal, ledger, repairs, fetches, up, ops>>

\* worker.close returns at once if the browser is closed, and raises if the thread that
\* would have to close it has gone; otherwise the thread is told.
close_worker(p) ==
  LET t == T(p) IN
  /\ At(p, "close")
  /\ Goto(p, CASE workers[t] = "closed" -> "close_lease"
              [] workers[t] = "orphan" -> "quarantine"
              [] OTHER -> "closing")
  /\ UNCHANGED <<sessionVars, actives, reserved, workers, terminal, ledger, repairs, fetches, up, ops>>

\* A command nobody serves any more, or not in time, raises.
worker_closes(p) ==
  LET t == T(p) IN
  /\ At(p, "closing")
  /\ \/ /\ Serves(t)
        /\ \/ workers' = [workers EXCEPT ![t] = "closed"] /\ Goto(p, "close_lease") /\ UNCHANGED faults
           \/ Fault /\ Goto(p, "quarantine") /\ UNCHANGED workers
     \/ /\ workers[t] \in {"closed", "orphan"}
        /\ Goto(p, "quarantine")
        /\ UNCHANGED <<faults, workers>>
  /\ UNCHANGED <<disk, holder, actives, reserved, terminal, ledger, repairs, fetches, up, ops>>

\* Mutant: a lease that cannot be closed is let go.
close_lease_ignored(p) ==
  LET d == Active(p).domain IN
  /\ At(p, "close_lease")
  /\ \/ holder[d] = T(p) /\ close(d, Active(p).session)
     \/ holder[d] = T(p) /\ close_fails(d, Active(p).session)
     \/ holder[d] # T(p) /\ UNCHANGED sessionVars
  /\ Goto(p, "commit")
  /\ UNCHANGED <<actives, reserved, workers, terminal, ledger, repairs, fetches, up, ops>>

\* lease.close; closing it once more does nothing.
close_lease(p) ==
  LET d == Active(p).domain IN
  /\ At(p, "close_lease")
  /\ \/ holder[d] = T(p) /\ close(d, Active(p).session) /\ Goto(p, "commit")
     \/ holder[d] = T(p) /\ close_fails(d, Active(p).session) /\ Goto(p, "quarantine")
     \/ holder[d] # T(p) /\ Goto(p, "commit") /\ UNCHANGED sessionVars
  /\ UNCHANGED <<actives, reserved, workers, terminal, ledger, repairs, fetches, up, ops>>

Outcome(status, cleanup, resume) == [status |-> status, cleanup |-> cleanup, resume |-> resume]

\* The outcome is stored with the release; a clean-up that is repeated returns after it.
commit(p) ==
  LET retries == threads[p].retries
      status == IF retries THEN Active(p).cleanup_status ELSE threads[p].status
      resume == IF retries THEN threads[p].consumed ELSE status = "completed" IN
  /\ At(p, "commit")
  /\ terminal' = [terminal EXCEPT ![T(p)] = Outcome(status, FALSE, resume)]
  /\ LET released == [Active(p) EXCEPT !.lifecycle = "released", !.registered = FALSE, !.event = TRUE] IN
     IF retries
     THEN /\ Set(T(p), [released EXCEPT !.failed = FALSE, !.lock = Nobody, !.event = Active(p).event])
          /\ Returned(p)
     ELSE Set(T(p), released) /\ Goto(p, "ledger")
  /\ UNCHANGED <<sessionVars, reserved, workers, ledger, repairs, fetches, up, ops>>

\* _quarantine: what could not be closed keeps its place and its lease, for a clean-up.  A
\* clean-up that fails leaves everything as it is.
_quarantine(p) ==
  /\ At(p, "quarantine")
  /\ IF threads[p].retries
     THEN Returns(p) /\ UNCHANGED sessionVars
     ELSE /\ mark_stale(Active(p).domain, Active(p).session)
          /\ Set(T(p), [Active(p) EXCEPT !.lifecycle = "quarantined", !.failed = TRUE,
                           !.cleanup_status = threads[p].status,
                           !.resume_ready = threads[p].status = "completed"])
          /\ threads' = [threads EXCEPT ![p].pc = IF threads[p].ends THEN "store" ELSE "ledger",
                                        ![p].broken = ~ threads[p].ends]
  /\ UNCHANGED <<reserved, workers, terminal, ledger, repairs, fetches, up, ops>>

\* The outcome that asks for a clean-up.
store(p) ==
  /\ At(p, "store")
  /\ terminal' = [terminal EXCEPT ![T(p)] =
       Outcome(Active(p).cleanup_status, TRUE, Active(p).resume_ready)]
  /\ IF threads[p].ends THEN Set(T(p), [Active(p) EXCEPT !.event = TRUE]) /\ Goto(p, "ledger")
     ELSE Returned(p) /\ Set(T(p), [Unlocked(p) EXCEPT !.event = TRUE])
  /\ UNCHANGED <<sessionVars, reserved, workers, ledger, repairs, fetches, up, ops>>

\* Mutant: a ledger that cannot be written is forgotten.
_finish_ledger_forgets(p) ==
  LET t == T(p) IN
  /\ At(p, "ledger")
  /\ \/ /\ ledger' = [ledger EXCEPT ![t] = IF @ = "none" THEN "none"
                                            ELSE IF threads[p].consumed THEN "used" ELSE "none"]
        /\ UNCHANGED <<faults, repairs>>
     \/ Fault /\ UNCHANGED <<ledger, repairs>>
  /\ IF threads[p].broken THEN Goto(p, "store") /\ UNCHANGED actives ELSE Returns(p)
  /\ UNCHANGED <<disk, holder, reserved, workers, terminal, fetches, up, ops>>

\* _finish_ledger: the attempt is used up or given back, now or in a later sweep.
_finish_ledger(p) ==
  LET t == T(p) IN
  /\ At(p, "ledger")
  /\ \/ /\ ledger' = [ledger EXCEPT ![t] = IF @ = "none" THEN "none"
                                            ELSE IF threads[p].consumed THEN "used" ELSE "none"]
        /\ UNCHANGED <<faults, repairs>>
     \/ /\ Fault
        /\ repairs' = [repairs EXCEPT ![t] = IF threads[p].consumed THEN "consumed" ELSE "given back"]
        /\ UNCHANGED ledger
  /\ IF threads[p].broken THEN Goto(p, "store") /\ UNCHANGED actives ELSE Returns(p)
  /\ UNCHANGED <<disk, holder, reserved, workers, terminal, fetches, up, ops>>

-----------------------------------------------------------------------------
(* What a client does with its ticket. *)

Known(t) == actives[t].told /\ up

\* The verification's lock is not waited for.
continue_verification(p, t) ==
  /\ Known(t) /\ terminal[t] = NoOutcome /\ actives[t].registered
  /\ actives[t].lifecycle \in {"active", "terminating"} /\ actives[t].lock = Nobody
  /\ Starts(p, [Idle EXCEPT !.token = t, !.pc = IF actives[t].due THEN "finish" ELSE "look",
                            !.status = "timed_out", !.consumed = TRUE])
  /\ Set(t, [actives[t] EXCEPT !.lock = p])
  /\ UNCHANGED <<sessionVars, reserved, workers, terminal, ledger, repairs, fetches, up>>

\* The page is captured, and loaded once more; time may run out meanwhile.
look(p) ==
  LET t == T(p) IN
  /\ At(p, "look")
  /\ \/ /\ Serves(t) /\ workers[t] = "open"
        /\ \/ Active(p).due /\ Finishes(p, "timed_out") /\ UNCHANGED actives
           \/ ~ Active(p).due /\ Finishes(p, "completed") /\ UNCHANGED actives
           \/ /\ ~ Active(p).due /\ Active(p).attempt + 1 < MaxAttempts
              /\ Set(t, [Unlocked(p) EXCEPT !.attempt = @ + 1]) /\ Returned(p)
           \/ /\ ~ Active(p).due /\ Active(p).attempt + 1 >= MaxAttempts
              /\ Set(t, [Active(p) EXCEPT !.attempt = @ + 1]) /\ Finishes(p, "failed")
        /\ UNCHANGED faults
     \/ workers[t] # "open" /\ Goto(p, "look_failed") /\ UNCHANGED <<actives, faults>>
     \/ Serves(t) /\ workers[t] = "open" /\ Fault /\ Goto(p, "look_failed") /\ UNCHANGED actives
  /\ UNCHANGED <<disk, holder, reserved, workers, terminal, ledger, repairs, fetches, up, ops>>

\* Whether the browser is alive is asked of its thread: one that has gone raises, and the
\* browser counts as alive.
_handle_worker_failure(p) ==
  LET t == T(p) IN
  /\ At(p, "look_failed")
  /\ \/ terminal[t] # NoOutcome /\ Returns(p)
     \/ terminal[t] = NoOutcome /\ ~ Active(p).registered /\ Goto(p, "wait") /\ UNCHANGED actives
     \/ /\ terminal[t] = NoOutcome /\ Active(p).registered
        /\ \/ ~ (Serves(t) /\ workers[t] = "dead") /\ Finishes(p, "failed")
           \/ /\ Serves(t) /\ workers[t] = "dead"
              /\ threads' = [threads EXCEPT ![p].pc = "crash", ![p].status = "failed"]
        /\ UNCHANGED actives
  /\ UNCHANGED <<sessionVars, reserved, workers, terminal, ledger, repairs, fetches, up, ops>>

\* The verification's lock is waited for; the call is taken to begin when it has it.
cancel(p, t) ==
  /\ Known(t) /\ terminal[t] = NoOutcome /\ actives[t].registered
  /\ actives[t].lifecycle \in {"active", "terminating"} /\ actives[t].lock = Nobody
  /\ Starts(p, [Idle EXCEPT !.token = t, !.pc = "finish", !.status = "cancelled", !.consumed = TRUE])
  /\ Set(t, [actives[t] EXCEPT !.lock = p])
  /\ UNCHANGED <<sessionVars, reserved, workers, terminal, ledger, repairs, fetches, up>>

\* What the outcome said is read before the lock is taken.  (consumed keeps resume_ready.)
retry_cleanup(p, t) ==
  /\ Known(t) /\ actives[t].failed
  /\ terminal[t] = NoOutcome \/ terminal[t].cleanup
  /\ Starts(p, [Idle EXCEPT !.token = t, !.pc = "retry", !.retries = TRUE,
       !.consumed = IF terminal[t] # NoOutcome THEN terminal[t].resume ELSE actives[t].resume_ready])
  /\ UNCHANGED <<sessionVars, actives, reserved, workers, terminal, ledger, repairs, fetches, up>>

retry_locks(p) ==
  /\ At(p, "retry") /\ Active(p).lock = Nobody
  /\ Set(T(p), [Active(p) EXCEPT !.lock = p]) /\ Goto(p, "close")
  /\ UNCHANGED <<sessionVars, reserved, workers, terminal, ledger, repairs, fetches, up, ops>>

-----------------------------------------------------------------------------
(* The browser's own thread. *)

\* What it has to tell the coordinator: the time is up, or the browser has died; and whether
\* everything is closed.
Calls(t, reason) ==
  threads' = [threads EXCEPT ![t] = [Idle EXCEPT !.pc = reason, !.token = t,
    !.status = IF reason = "deadline" THEN "timed_out" ELSE "failed"]]

launch(t) ==
  /\ workers[t] = "launching"
  /\ \/ workers' = [workers EXCEPT ![t] = "open"] /\ UNCHANGED <<threads, faults>>
     \/ Fault /\ workers' = [workers EXCEPT ![t] = "closed"] /\ Calls(t, "crash")
     \/ Fault /\ workers' = [workers EXCEPT ![t] = "partial"] /\ Calls(t, "left open")
  /\ UNCHANGED <<disk, holder, actives, reserved, terminal, ledger, repairs, fetches, up, ops>>

\* Mutant: nobody is told that the time is up.
deadline_silent(t) ==
  /\ IsIdle(t) /\ actives[t].due /\ workers[t] \in {"open", "dead"}
  /\ workers' = [workers EXCEPT ![t] = "closed"]
  /\ UNCHANGED <<sessionVars, actives, reserved, terminal, ledger, repairs, fetches, threads, up, ops>>

\* A browser that is left half launched has nobody to close it after its time.
deadline(t) ==
  /\ IsIdle(t) /\ actives[t].due
  /\ \/ /\ workers[t] \in {"open", "dead"}
        /\ \/ workers' = [workers EXCEPT ![t] = "closed"] /\ Calls(t, "deadline") /\ UNCHANGED faults
           \/ /\ Fault /\ workers' = [workers EXCEPT ![t] = "expired"]
              /\ threads' = [threads EXCEPT ![t] = [Idle EXCEPT !.pc = "left open", !.token = t,
                                                               !.status = "timed_out"]]
     \/ workers[t] = "partial" /\ workers' = [workers EXCEPT ![t] = "orphan"] /\ UNCHANGED <<threads, faults>>
  /\ UNCHANGED <<disk, holder, actives, reserved, terminal, ledger, repairs, fetches, up, ops>>

dies(t) ==
  /\ workers[t] = "open" /\ IsIdle(t) /\ Fault
  /\ workers' = [workers EXCEPT ![t] = "dead"]
  /\ UNCHANGED <<disk, holder, actives, reserved, terminal, ledger, repairs, fetches, threads, up, ops>>

notices(t) ==
  /\ workers[t] = "dead" /\ IsIdle(t)
  /\ workers' = [workers EXCEPT ![t] = "closed"] /\ Calls(t, "crash")
  /\ UNCHANGED <<sessionVars, actives, reserved, terminal, ledger, repairs, fetches, up, ops>>

\* _worker_terminal: one ending is enough.  An attempt counts once its ticket is out.
_worker_terminal(p) ==
  LET done == ~ Active(p).registered \/ Lifecycle(p) \in {"terminating", "quarantined", "released"}
      next == CASE At(p, "left open") -> "quarantine" [] At(p, "crash") -> "stale" [] OTHER -> "close_lease" IN
  /\ threads[p].pc \in {"crash", "deadline", "left open"}
  /\ IF done
     THEN /\ IF p \in Tokens THEN threads' = [threads EXCEPT ![p] = Idle] ELSE Goto(p, "wait")
          /\ UNCHANGED actives
     ELSE /\ Set(T(p), [Active(p) EXCEPT !.lifecycle = "terminating"])
          /\ threads' = [threads EXCEPT ![p].pc = next, ![p].ends = TRUE,
                                        ![p].consumed = Lifecycle(p) # "pending"]
  /\ UNCHANGED <<sessionVars, reserved, workers, terminal, ledger, repairs, fetches, up, ops>>

\* A session whose browser died is not used again.
marks_stale(p) ==
  /\ At(p, "stale")
  /\ mark_stale(Active(p).domain, Active(p).session)
  /\ Goto(p, "close_lease")
  /\ UNCHANGED <<actives, reserved, workers, terminal, ledger, repairs, fetches, up, ops>>

-----------------------------------------------------------------------------
(* BrowserAcquirer: a page is read in a browser nobody sees. *)

Reading == {f \in Fetches : fetches[f].state = "reading"}
FailedCleanups == {f \in Fetches : fetches[f].state = "failed"}

fetch_page(f) ==
  /\ up /\ fetches[f].state = "unused" /\ ops < MaxOps
  /\ ops' = ops + 1
  /\ \E d \in Domains :
       IF Cardinality(FailedCleanups) + Cardinality(Reading) >= MaxCleanups
       THEN fetches' = [fetches EXCEPT ![f].state = "over"] /\ UNCHANGED sessionVars
       ELSE \/ /\ Acquires(d, f)
               /\ fetches' = [fetches EXCEPT ![f] =
                    [state |-> "reading", domain |-> d, session |-> SessionOf(disk', d)]]
            \/ AcquireFails(d) /\ fetches' = [fetches EXCEPT ![f].state = "over"]
  /\ UNCHANGED <<actives, reserved, workers, terminal, ledger, repairs, threads, up>>

\* What cannot be closed is kept with its lease, for a clean-up.
fetch_page_closes(f) ==
  LET d == fetches[f].domain id == fetches[f].session IN
  /\ fetches[f].state = "reading"
  /\ \/ close(d, id) /\ fetches' = [fetches EXCEPT ![f].state = "over"]
     \/ close_fails(d, id) /\ fetches' = [fetches EXCEPT ![f].state = "failed"]
     \/ /\ Fault /\ UNCHANGED holder
        /\ disk' = IF Current(d, id) THEN _write_info(disk, d, "stale", id) ELSE disk
        /\ fetches' = [fetches EXCEPT ![f].state = "failed"]
  /\ UNCHANGED <<actives, reserved, workers, terminal, ledger, repairs, threads, up, ops>>

fetch_retry_cleanup(f) ==
  /\ fetches[f].state = "failed"
  /\ close(fetches[f].domain, fetches[f].session)
  /\ fetches' = [fetches EXCEPT ![f].state = "over"]
  /\ UNCHANGED <<actives, reserved, workers, terminal, ledger, repairs, threads, up, ops>>

-----------------------------------------------------------------------------
(* Time, the process, and whoever administers the store. *)

run_out(t) ==
  /\ actives[t].registered /\ ~ actives[t].due
  /\ Set(t, [actives[t] EXCEPT !.due = TRUE])
  /\ UNCHANGED <<sessionVars, reserved, workers, terminal, ledger, repairs, fetches, threads, up, ops>>

\* An outcome is remembered for terminal_ttl, and the record of an attempt for attempt_ttl,
\* which is longer than a verification.
forget(t) ==
  /\ \/ terminal[t] # NoOutcome /\ terminal' = [terminal EXCEPT ![t] = NoOutcome] /\ UNCHANGED ledger
     \/ /\ ledger[t] # "none" /\ actives[t].lifecycle \in {"released", "gone", "lost"}
        /\ ledger' = [ledger EXCEPT ![t] = "none"] /\ UNCHANGED terminal
  /\ UNCHANGED <<sessionVars, actives, reserved, workers, repairs, fetches, threads, up, ops>>

\* The process dies, and its locks with it.
crash ==
  /\ up /\ Fault /\ up' = FALSE
  /\ holder' = [d \in Domains |-> Nobody]
  /\ actives' = [t \in Tokens |-> IF actives[t].lifecycle = "unused" THEN NoActive
                                  ELSE [NoActive EXCEPT !.lifecycle = "lost"]]
  /\ reserved' = 0
  /\ workers' = [t \in Tokens |-> "none"]
  /\ terminal' = [t \in Tokens |-> NoOutcome]
  /\ repairs' = [t \in Tokens |-> "none"]
  /\ fetches' = [f \in Fetches |-> IF fetches[f].state = "unused" THEN NoFetch
                                   ELSE [NoFetch EXCEPT !.state = "over"]]
  /\ threads' = [p \in Threads |-> Idle]
  /\ UNCHANGED <<disk, ledger, ops>>

opens ==
  /\ open_store /\ up' = TRUE
  /\ UNCHANGED <<coordinatorVars, ops>>

damaged(d) == damage(d) /\ UNCHANGED <<coordinatorVars, up, ops>>

administer(d) ==
  /\ ops < MaxOps /\ ops' = ops + 1
  /\ _set_status(d, "stale") \/ _set_status(d, "revoked") \/ clear(d)
  /\ UNCHANGED <<coordinatorVars, up>>

-----------------------------------------------------------------------------
\* What a thread does once it has begun.
Goes(p) ==
  \/ expire_sweep_lists(p) \/ expire_sweep(p)
  \/ begin(p) \/ reserve(p) \/ begin_acquires(p) \/ register(p) \/ start(p) \/ navigate(p)
  \/ activate(p) \/ begin_failed(p)
  \/ _finish(p) \/ wait(p) \/ close_worker(p) \/ worker_closes(p) \/ close_lease(p) \/ commit(p)
  \/ _quarantine(p) \/ store(p) \/ _finish_ledger(p)
  \/ look(p) \/ _handle_worker_failure(p) \/ retry_locks(p)
  \/ _worker_terminal(p) \/ marks_stale(p)

Next ==
  \/ \E p \in Threads : Goes(p)
  \/ \E p \in Clients : _retry_ledger_repairs(p)
  \/ \E p \in Clients, t \in Tokens : continue_verification(p, t) \/ cancel(p, t) \/ retry_cleanup(p, t)
  \/ \E t \in Tokens : launch(t) \/ deadline(t) \/ dies(t) \/ notices(t) \/ run_out(t) \/ forget(t)
  \/ \E f \in Fetches : fetch_page(f) \/ fetch_page_closes(f) \/ fetch_retry_cleanup(f)
  \/ \E d \in Domains : administer(d) \/ damaged(d)
  \/ crash \/ opens

Spec == Init /\ [][Next]_vars

-----------------------------------------------------------------------------
TypeOK ==
  /\ disk \in Disk
  /\ holder \in [Domains -> Tokens \cup Fetches \cup {Nobody}]
  /\ faults \in 0..MaxFaults /\ ops \in 0..MaxOps /\ up \in BOOLEAN
  /\ reserved \in Nat
  /\ \A t \in Tokens :
       /\ actives[t].lifecycle \in {"unused", "starting", "pending", "active", "terminating",
                                   "quarantined", "released", "gone", "lost"}
       /\ actives[t].lock \in Clients \cup {Nobody}
       /\ workers[t] \in {"none", "launching", "open", "dead", "closed", "partial", "expired", "orphan"}
       /\ ledger[t] \in {"none", "reserved", "used"}
       /\ repairs[t] \in {"none", "consumed", "given back"}

Busy(t) == \E p \in Threads : ~ IsIdle(p) /\ T(p) = t

\* The browser of one session never sees the log-in of another, whatever was interrupted or
\* damaged before: the profile of a session that can be used holds nobody else's data.
NoForeignData ==
  \A d \in Domains :
    Status(disk, d) \in {"available", "in_use"} => disk.profile[d].data \subseteq {SessionOf(disk, d)}

\* A domain's lock is always somebody's to give back: of a call that is going on, of a
\* verification that can be ended, or of a clean-up that is on record.
LeaseIsTracked ==
  \A d \in Domains : holder[d] # Nobody =>
    LET h == holder[d] IN
    IF h \in Tokens THEN Busy(h) \/ actives[h].registered \/ actives[h].failed
    ELSE fetches[h].state \in {"reading", "failed"}

\* At most max_active verifications are there, those being begun and those that wait for a
\* clean-up included.
WithinCapacity == _capacity_used + reserved <= MaxActive

\* When a verification is over and every call about it has returned, its attempt has been
\* used up or given back, or that is left to a later sweep; one that was completed costs
\* no attempt.
AttemptSettled ==
  \A t \in Tokens :
    /\ actives[t].lifecycle \in {"quarantined", "released", "gone"} /\ ~ Busy(t)
         => ledger[t] # "reserved" \/ repairs[t] # "none"
    /\ terminal[t].status = "completed" => ledger[t] # "used" /\ repairs[t] # "consumed"

\* What clients are told of a verification that has ended does not change, however many
\* of them, and the browser's thread, end it at once.
OutcomeIsFinal ==
  [][\A t \in Tokens : terminal[t] # NoOutcome /\ terminal'[t] # NoOutcome
       => terminal'[t].status = terminal[t].status]_vars

\* A verification that waits for its user has a browser, or somebody is ending it: the end of a
\* browser whose time is up, or that has died, is never lost on the coordinator.
HasBrowser ==
  \A t \in Tokens :
    actives[t].registered /\ actives[t].lifecycle \in {"pending", "active", "terminating"} /\ ~ Busy(t)
      => workers[t] \in {"open", "dead"}

=============================================================================
