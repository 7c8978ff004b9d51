---------------------------- MODULE ConfigManager ----------------------------
(***************************************************************************)
(* adaptation/config_manager.py with adaptation/revalidation.py, on top of *)
(* the registry's files.  A thread resolves a URL, or confirms or cancels  *)
(* a pending configuration; every call to the registry is the whole        *)
(* sequence of ConfigRegistry's steps, so that the other threads, a crash  *)
(* or a failing disk come between any two of them.                         *)
(*                                                                         *)
(* All URLs are of one domain.  What a page yields (probe, replay of the   *)
(* selectors, scores, fingerprints) is one outcome, chosen freely; a       *)
(* configuration's id is fresh whenever one is made.                       *)
(***************************************************************************)
EXTENDS ConfigRegistry

CONSTANTS
  Tokens,       \* confirmation tokens, each given out once
  Overrides,    \* selector overrides a user may send with a confirmation
  MaxOps        \* bound on operations started

VARIABLES
  resolving,    \* the thread that holds the domain's resolution lock, or NONE
  pending,      \* token -> what waits for confirmation
  token_locks,  \* token -> the thread that confirms it, or NONE
  made,         \* the configurations whose ids have been given out
  run,          \* what each thread is doing
  ops

managerVars == <<resolving, pending, token_locks, made, run, ops>>
vars == <<registryVars, managerVars>>

Unused == [state |-> "unused", url |-> NONE, config |-> NONE, overrides |-> NONE]

\* entry is the registry entry a resolution works with.
NoRun == [pc |-> "idle", task |-> NONE, url |-> NONE, token |-> NONE, attempt |-> 0,
          overrides |-> NONE, entry |-> NoResult, config |-> NONE]

Pending == [state : {"unused", "live", "gone", "cancelled"}, url : Urls \cup {NONE},
            config : Configs \cup {NONE}, overrides : Overrides \cup {NONE}]

\* A pending configuration is one that has been made, and a thread at work on a token
\* holds its lock; both locks are held exactly by the threads that are inside them.
TypeOK ==
  /\ RegistryTypeOK
  /\ pending \in [Tokens -> Pending]
  /\ \A k \in Tokens : pending[k].state # "unused" => pending[k].config \in made
  /\ made \subseteq Configs
  /\ \A t \in Threads : resolving = t <=> run[t].pc \notin {"idle", "token", "guard", "cancel", "administered", "pop"}
  /\ \A t \in Threads, k \in Tokens : token_locks[k] = t =>
       run[t].token = k /\ run[t].task = "confirm" /\ run[t].pc \notin {"idle", "token"}
  /\ ops \in 0 .. MaxOps

Init ==
  /\ RegistryInit
  /\ resolving = NONE
  /\ pending = [k \in Tokens |-> Unused]
  /\ token_locks = [k \in Tokens |-> NONE]
  /\ made = {}
  /\ run = [t \in Threads |-> NoRun]
  /\ ops = 0

-----------------------------------------------------------------------------
Doing(t, pc) == run[t].pc = pc
Answer(t) == calls[t].result
Answered(t, pc) == Doing(t, pc) /\ At(t, "done")

Query(op, c, v, s) == [op |-> op, config |-> c, url |-> NONE, version |-> v, status |-> s]

\* Call the registry and go on at pc when it has answered.
Ask(t, request, pc) ==
  /\ calls' = [calls EXCEPT ![t] = Asked(request)]
  /\ run' = [run EXCEPT ![t].pc = pc]
  /\ UNCHANGED <<files, manifest, lock, work, damaged, failures>>

Lookup(t) ==
  /\ calls' = [calls EXCEPT ![t] = Asked([NoRequest EXCEPT !.op = "lookup", !.url = run[t].url])]
  /\ UNCHANGED <<files, manifest, lock, work, damaged, failures>>

\* A transition or load of the entry the resolution has read, at its version and status.
AskOfEntry(t, op, pc) ==
  LET e == run[t].entry IN
  Ask(t, Query(op, e.config, e.version, IF op = "load" THEN NONE ELSE e.status), pc)

\* The thread's operation is over, with a result or an exception; it leaves its locks.  A
\* confirmation that resolved its URL instead has one thing left to do.
Returns(t) ==
  /\ calls' = [calls EXCEPT ![t] = NoCall]
  /\ run' = [run EXCEPT ![t] = IF run[t].task = "fallback"
                                  THEN [NoRun EXCEPT !.pc = "pop", !.token = run[t].token] ELSE NoRun]
  /\ resolving' = IF resolving = t THEN NONE ELSE resolving
  /\ token_locks' = [k \in Tokens |-> IF token_locks[k] = t THEN NONE ELSE token_locks[k]]
  /\ UNCHANGED <<files, manifest, lock, work, damaged, failures>>

Stays == UNCHANGED <<pending, made, ops>>
Inside == UNCHANGED <<resolving, token_locks>> /\ Stays

MAX_ATTEMPTS == 3

\* Mutant: a conflict is tried again for as long as there is one.
Retries_forever(t) ==
  /\ Lookup(t)
  /\ run' = [run EXCEPT ![t].pc = "looked_up", ![t].entry = NoResult]
  /\ UNCHANGED <<resolving, token_locks>>

\* ConfigConflictError inside resolve: try again, three times in all.
Retries(t) ==
  IF run[t].attempt < MAX_ATTEMPTS
  THEN /\ Lookup(t)
       /\ run' = [run EXCEPT ![t].pc = "looked_up", ![t].attempt = @ + 1, ![t].entry = NoResult]
       /\ UNCHANGED <<resolving, token_locks>>
  ELSE Returns(t)

-----------------------------------------------------------------------------
(* resolve *)

resolve(t, url) ==
  /\ Doing(t, "idle") /\ ops < MaxOps
  /\ run' = [run EXCEPT ![t] = [NoRun EXCEPT !.pc = "guard", !.task = "resolve", !.url = url]]
  /\ ops' = ops + 1
  /\ UNCHANGED <<registryVars, resolving, pending, token_locks, made>>

\* Mutant: the lock of the domain is not taken.
_resolution_guard_open(t) ==
  /\ Doing(t, "guard")
  /\ resolving' = t
  /\ IF run[t].task = "confirm"
     THEN run' = [run EXCEPT ![t].pc = "confirm"] /\ UNCHANGED registryVars
     ELSE /\ Lookup(t)
          /\ run' = [run EXCEPT ![t].pc = "looked_up", ![t].attempt = 1]
  /\ UNCHANGED token_locks /\ Stays

\* The lock of the domain, in this process and between processes.  confirm comes here with
\* its token's lock and looks again at what is pending.
_resolution_guard(t) ==
  /\ Doing(t, "guard") /\ resolving = NONE
  /\ resolving' = t
  /\ IF run[t].task = "confirm"
     THEN run' = [run EXCEPT ![t].pc = "confirm"] /\ UNCHANGED registryVars
     ELSE /\ Lookup(t)
          /\ run' = [run EXCEPT ![t].pc = "looked_up", ![t].attempt = 1]
  /\ UNCHANGED token_locks /\ Stays

_resolve_locked(t) ==
  /\ Answered(t, "looked_up")
  /\ CASE Answer(t).kind = "missing" ->
            /\ run' = [run EXCEPT ![t].pc = "probe"]
            /\ UNCHANGED <<registryVars, resolving, token_locks>>
       [] Answer(t).kind = "entry" ->
            /\ calls' = [calls EXCEPT ![t] =
                 Asked(Query("load", Answer(t).config, Answer(t).version, NONE))]
            /\ run' = [run EXCEPT ![t].pc = "loaded", ![t].entry = Answer(t)]
            /\ UNCHANGED <<files, manifest, lock, work, damaged, failures, resolving, token_locks>>
       [] OTHER -> Returns(t)
  /\ Stays

\* What the replay of a stored configuration on three fresh pages comes to: the transition
\* it asks for, or no verdict, when a page is out of reach or asks for a person.
Verdicts == {"mark_validated", "mark_stale", "mark_invalid", "none"}

AfterVerdict == [mark_validated |-> "validated", mark_stale |-> "staled", mark_invalid |-> "invalidated"]

\* ConfigRevalidator.revalidate: one that cannot be loaded is invalid.
revalidate(t) ==
  /\ Answered(t, "loaded")
  /\ \/ Answer(t).kind \in {"missing", "error", "value"} /\ AskOfEntry(t, "mark_invalid", "invalidated") /\ Inside
     \/ Answer(t).kind = "io" /\ Returns(t) /\ Stays
     \/ \E verdict \in Verdicts :
          /\ Answer(t).kind = "entry"
          /\ IF verdict = "none" THEN Returns(t) /\ Stays
             ELSE AskOfEntry(t, verdict, AfterVerdict[verdict]) /\ Inside

\* After a conflict the configuration is loaded once more, which may fail in its own way.
Reloads(t, pc) == Ask(t, Query("load", run[t].entry.config, 0, NONE), pc)

_mark_valid(t) ==
  /\ Answered(t, "validated")
  /\ \/ /\ Answer(t).kind = "entry"
        /\ Ask(t, Query("load_exact", Answer(t).config, Answer(t).version, "active"), "exact")
        /\ Inside
     \/ Answer(t).kind = "conflict" /\ Reloads(t, "reloaded") /\ Inside
     \/ Answer(t).kind = "value" /\ AskOfEntry(t, "mark_invalid", "invalidated") /\ Inside
     \/ Answer(t).kind \in {"missing", "error", "io"} /\ Returns(t) /\ Stays

\* A ValueError is caught by revalidate when its pages led here, not when a missing
\* baseline or an authentication page did.
_stale(t) ==
  /\ Answered(t, "staled")
  /\ \/ /\ Answer(t).kind = "entry"
        /\ run' = [run EXCEPT ![t].pc = "probe"]
        /\ UNCHANGED registryVars /\ Inside
     \/ Answer(t).kind = "conflict" /\ Reloads(t, "reloaded") /\ Inside
     \/ Answer(t).kind = "value" /\ AskOfEntry(t, "mark_invalid", "invalidated") /\ Inside
     \/ Answer(t).kind \in {"missing", "error", "value", "io"} /\ Returns(t) /\ Stays

_invalid(t) ==
  /\ Answered(t, "invalidated")
  /\ \/ /\ Answer(t).kind = "entry"
        /\ run' = [run EXCEPT ![t].pc = "probe"]
        /\ UNCHANGED registryVars /\ Inside
     \/ Answer(t).kind \in {"conflict", "missing", "error"} /\ Reloads(t, "reloaded_any") /\ Inside
     \/ Answer(t).kind \in {"value", "io"} /\ Returns(t) /\ Stays

\* "concurrent_revision" among the reasons is a conflict of the attempt; what _invalid's
\* own reload raises is swallowed, but for a failing disk.
concurrent_revision(t) ==
  /\ Answered(t, "reloaded") \/ Answered(t, "reloaded_any")
  /\ IF Answer(t).kind = "entry" \/ (Doing(t, "reloaded_any") /\ Answer(t).kind # "io")
     THEN Retries(t) ELSE Returns(t)
  /\ Stays

\* The answer REUSED, unless the revision is no longer the latest and active.
reuse(t) ==
  /\ Answered(t, "exact")
  /\ IF Answer(t).kind = "conflict" THEN Retries(t) ELSE Returns(t)
  /\ Stays

\* The tokens that are found to have run out are forgotten; time decides which.
Forget(ks) == [k \in Tokens |-> IF k \in ks /\ pending[k].state = "live"
                                THEN [pending[k] EXCEPT !.state = "gone"] ELSE pending[k]]

\* What probing three pages comes to: nothing to build on (rejected, failed, or a page that
\* asks for a person), a draft good enough to register, or one to confirm.
ProbeOutcomes == {"none", "auto_accept", "require_confirmation"}

\* A draft becomes a configuration with an id of its own; an incomplete one is rejected.
_materialize(url) == {c \in Configs \ made : url \in Covers[c]}

_from_probe(t) ==
  /\ Doing(t, "probe")
  /\ \E outcome \in ProbeOutcomes :
       \/ outcome = "none" /\ Returns(t) /\ Stays
       \/ /\ outcome = "require_confirmation"
          /\ \E c \in _materialize(run[t].url) : \E k \in Tokens : \E purged \in SUBSET Tokens :
               /\ pending[k].state = "unused"
               /\ made' = made \cup {c}
               /\ pending' = [Forget(purged) EXCEPT ![k] =
                    [state |-> "live", url |-> run[t].url, config |-> c, overrides |-> NONE]]
               /\ Returns(t)
               /\ UNCHANGED ops
       \/ /\ outcome = "auto_accept"
          /\ \E c \in _materialize(run[t].url) :
               /\ made' = made \cup {c}
               /\ run' = [run EXCEPT ![t].pc = "checked", ![t].config = c]
               /\ Lookup(t)
               /\ UNCHANGED <<resolving, pending, token_locks, ops>>

-----------------------------------------------------------------------------
(* _register, for resolve and for confirm *)

\* ConfigConflictError out of _register: resolve tries again; confirm leaves both locks
\* and resolves its URL instead.
Conflicts(t) ==
  IF run[t].task = "confirm"
  THEN /\ run' = [run EXCEPT ![t] = [NoRun EXCEPT !.pc = "guard", !.task = "fallback",
                                                  !.url = run[t].url, !.token = run[t].token]]
       /\ calls' = [calls EXCEPT ![t] = NoCall]
       /\ resolving' = NONE
       /\ token_locks' = [token_locks EXCEPT ![run[t].token] = NONE]
       /\ UNCHANGED <<files, manifest, lock, work, damaged, failures>>
  ELSE Retries(t)

\* No other active configuration matches the URL.
check_existing(t) ==
  /\ Answered(t, "checked")
  /\ \/ /\ \/ Answer(t).kind = "missing"
           \/ Answer(t).kind = "entry" /\ Answer(t).config = run[t].config
        /\ Ask(t, Query("register", run[t].config, 0, NONE), "registered") /\ Inside
     \/ Answer(t).kind = "entry" /\ Answer(t).config # run[t].config /\ Conflicts(t) /\ Stays
     \/ Answer(t).kind \in {"error", "value", "io"} /\ Returns(t) /\ Stays

_register(t) ==
  /\ Answered(t, "registered")
  /\ \/ /\ Answer(t).kind = "entry" /\ Answer(t).status = "active"
        /\ Ask(t, Query("load_exact", Answer(t).config, Answer(t).version, "active"), "final") /\ Inside
     \/ Answer(t).kind = "entry" /\ Answer(t).status # "active" /\ Conflicts(t) /\ Stays
     \/ Answer(t).kind \notin {"entry"} /\ Returns(t) /\ Stays

\* The answer REGISTERED.  A confirmation uses up its token, if that is still there.
registered(t) ==
  /\ Answered(t, "final")
  /\ IF Answer(t).kind = "conflict" THEN Conflicts(t) /\ UNCHANGED pending
     ELSE /\ Returns(t)
          /\ pending' = IF Answer(t).kind = "entry" /\ run[t].task = "confirm"
                           /\ pending[run[t].token].state = "live"
                        THEN [pending EXCEPT ![run[t].token].state = "gone"] ELSE pending
  /\ UNCHANGED <<made, ops>>

-----------------------------------------------------------------------------
(* confirm and cancel *)

confirm(t, k, overrides) ==
  /\ Doing(t, "idle") /\ ops < MaxOps
  /\ ops' = ops + 1 /\ pending[k].state = "live"
  /\ \/ /\ run' = [run EXCEPT ![t] = [NoRun EXCEPT !.pc = "token", !.task = "confirm", !.token = k,
                                                   !.url = pending[k].url, !.overrides = overrides]]
        /\ UNCHANGED pending
     \/ pending' = Forget({k}) /\ UNCHANGED run
  /\ UNCHANGED <<registryVars, resolving, token_locks, made>>

token_lock(t) ==
  /\ Doing(t, "token") /\ token_locks[run[t].token] = NONE
  /\ token_locks' = [token_locks EXCEPT ![run[t].token] = t]
  /\ run' = [run EXCEPT ![t].pc = "guard"]
  /\ UNCHANGED <<registryVars, resolving>> /\ Stays

\* Under both locks: the token may be gone, or found to have run out, by now.  Overrides
\* are probed first; once given they cannot be changed.
confirm_locked(t) ==
  LET k == run[t].token
      p == pending[k] IN
  /\ Doing(t, "confirm")
  /\ \/ pending' = Forget({k}) /\ Returns(t)
     \/ /\ p.state = "live" /\ p.overrides # NONE /\ run[t].overrides \notin {NONE, p.overrides}
        /\ Returns(t) /\ UNCHANGED pending
     \/ /\ p.state = "live" /\ p.overrides = NONE /\ run[t].overrides # NONE
        /\ run' = [run EXCEPT ![t].pc = "reprobe", ![t].config = p.config]
        /\ UNCHANGED <<registryVars, resolving, token_locks, pending>>
     \/ /\ p.state = "live" /\ run[t].overrides \in {NONE, p.overrides}
        /\ Lookup(t)
        /\ run' = [run EXCEPT ![t].pc = "checked", ![t].config = p.config]
        /\ UNCHANGED <<resolving, token_locks, pending>>
  /\ UNCHANGED <<made, ops>>

\* The overridden selectors fail on the pages, or make another configuration; the token may
\* have run out meanwhile.
confirm_overrides(t) ==
  LET k == run[t].token IN
  /\ Doing(t, "reprobe")
  /\ \/ Returns(t) /\ UNCHANGED <<pending, made>>
     \/ \E c \in _materialize(run[t].url) :
          /\ pending[k].state = "live"
          /\ made' = made \cup {c}
          /\ pending' = [pending EXCEPT ![k].config = c, ![k].overrides = run[t].overrides]
          /\ Lookup(t)
          /\ run' = [run EXCEPT ![t].pc = "checked", ![t].config = c]
          /\ UNCHANGED <<resolving, token_locks>>
  /\ UNCHANGED ops

\* The confirmation that resolved its URL instead: the token is used up, except when the
\* resolution asked for a person.
pop(t) ==
  LET k == run[t].token IN
  /\ Doing(t, "pop")
  /\ run' = [run EXCEPT ![t] = NoRun]
  /\ \/ pending' = [pending EXCEPT ![k].state = IF @ = "live" THEN "gone" ELSE @]
     \/ UNCHANGED pending
  /\ UNCHANGED <<registryVars, resolving, token_locks, made, ops>>

cancel(t, k) ==
  /\ Doing(t, "idle") /\ ops < MaxOps
  /\ ops' = ops + 1 /\ pending[k].state = "live"
  /\ \/ /\ run' = [run EXCEPT ![t] = [NoRun EXCEPT !.pc = "cancel", !.task = "cancel", !.token = k]]
        /\ UNCHANGED pending
     \/ pending' = Forget({k}) /\ UNCHANGED run
  /\ UNCHANGED <<registryVars, resolving, token_locks, made>>

\* Mutant: the pending configuration is taken away without the token's lock.
cancel_locked_late(t) ==
  LET k == run[t].token IN
  /\ Doing(t, "cancel")
  /\ pending' = [pending EXCEPT ![k].state = IF @ = "live" THEN "cancelled" ELSE @]
  /\ run' = [run EXCEPT ![t] = NoRun]
  /\ UNCHANGED <<registryVars, resolving, token_locks, made, ops>>

cancel_locked(t) ==
  LET k == run[t].token IN
  /\ Doing(t, "cancel") /\ token_locks[k] = NONE
  /\ pending' = [pending EXCEPT ![k].state = IF @ = "live" THEN "cancelled" ELSE @]
  /\ run' = [run EXCEPT ![t] = NoRun]
  /\ UNCHANGED <<registryVars, resolving, token_locks, made, ops>>

-----------------------------------------------------------------------------
(* The environment: an administrator, a restart. *)

administer(t, op, c) ==
  /\ Doing(t, "idle") /\ ops < MaxOps /\ op \in {"mark_revoked", "unrevoke"}
  /\ ops' = ops + 1
  /\ Ask(t, Query(op, c, 0, NONE), "administered")
  /\ UNCHANGED <<resolving, pending, token_locks, made>>

\* The process dies at any point: locks are released, tokens forgotten, files left as they are.
restart ==
  /\ failures < MaxFailures /\ failures' = failures + 1
  /\ lock' = NONE /\ work' = NoWork
  /\ calls' = [t \in Threads |-> NoCall]
  /\ run' = [t \in Threads |-> NoRun]
  /\ resolving' = NONE
  /\ token_locks' = [k \in Tokens |-> NONE]
  /\ pending' = Forget(Tokens)
  /\ UNCHANGED <<files, manifest, damaged, made, ops>>

administered(t) == Answered(t, "administered") /\ Returns(t) /\ Stays

Resolves(t) ==
  \/ _resolution_guard(t) \/ _resolve_locked(t) \/ revalidate(t) \/ _mark_valid(t) \/ _stale(t)
  \/ _invalid(t) \/ concurrent_revision(t) \/ reuse(t) \/ _from_probe(t)

Registers(t) == check_existing(t) \/ _register(t) \/ registered(t)

Confirms(t) == token_lock(t) \/ confirm_locked(t) \/ confirm_overrides(t) \/ pop(t) \/ cancel_locked(t)

\* What a thread does once it has begun.
ThreadStep(t) ==
  \/ Resolves(t) \/ Registers(t) \/ Confirms(t) \/ administered(t)
  \/ RegistryStep(t) /\ UNCHANGED managerVars

Begins(t) ==
  \/ \E url \in Urls : resolve(t, url)
  \/ \E k \in Tokens : (\E o \in Overrides \cup {NONE} : confirm(t, k, o)) \/ cancel(t, k)
  \/ \E op \in {"mark_revoked", "unrevoke"}, c \in made : administer(t, op, c)

Next ==
  \/ \E t \in Threads : Begins(t) \/ ThreadStep(t) \/ (RegistryFault(t) /\ UNCHANGED managerVars)
  \/ damage /\ UNCHANGED managerVars
  \/ restart

Spec == Init /\ [][Next]_vars

\* A thread that can take its next step takes it: the calls it makes return, in time or
\* with an error, and a lock is waited for by few and held for one operation.
FairSpec == Spec /\ \A t \in Threads : WF_vars(ThreadStep(t))

-----------------------------------------------------------------------------
\* The first revision of a configuration is published for a URL, by a thread that resolves it.
FirstPublished(c) == files[c][1] = "absent" /\ files'[c][1] = "active"

\* Two threads that find no configuration for a URL, or a confirmation that comes when
\* another has been registered meanwhile, never leave two active ones for it: lookup and
\* register are one critical section of the domain (_resolution_guard, _register).
NoSecondActive ==
  [][\A t \in Threads, c \in Configs : FirstPublished(c) /\ lock = t =>
       \A d \in Configs \ {c} :
         ~(Visible(d) # <<>> /\ Last(Visible(d)) = "active" /\ run[t].url \in Covers[d])]_vars

\* A configuration whose confirmation was cancelled, with cancel answering True, is not
\* registered afterwards by a confirmation that was under way (cancel, confirm).
CancelledNeverRegistered ==
  [][\A c \in Configs : FirstPublished(c) =>
       \A k \in Tokens : pending[k].state = "cancelled" => pending[k].config # c]_vars

\* Whatever conflicts, fails or waits, a resolution, a confirmation and a cancellation come
\* to an end: with a registry that is full, too, where no transition succeeds any more.
ResolutionEnds == \A t \in Threads : run[t].pc # "idle" ~> run[t].pc = "idle"
=============================================================================
