--------------------------- MODULE ConfigRegistry ---------------------------
(***************************************************************************)
(* adaptation/registry.py over adaptation/registry_io.py: revision files   *)
(* that are published once, a manifest that is replaced, and a quarantine. *)
(* An operation takes the registry's lock, recovers (manifest, scan,       *)
(* quarantine, new manifest) and then does its work; every change of a     *)
(* file is a step of its own, so that a process can die, or the disk can   *)
(* fail, between any two of them.                                          *)
(*                                                                         *)
(* A revision's content is its status.  Its identity never differs within  *)
(* a history, because a configuration's id is random; the in-memory        *)
(* _history is rebuilt by every operation and is the lock holder's work.   *)
(* Reason files, temporary files and the unsafe links that stop a scan are *)
(* left out; nothing reads them.                                           *)
(***************************************************************************)
EXTENDS Naturals, Sequences, FiniteSets

CONSTANTS
  Configs,
  Urls,
  Covers,        \* configuration -> the URLs its patterns match
  Threads,       \* threads of any process that uses the registry
  MaxFiles,      \* max_files
  MaxDamage,     \* bound on files that are damaged on disk
  MaxFailures    \* bound on failed file operations, timeouts and crashes

NONE == "none"

ASSUME RegistryAssumption ==
  /\ Configs # {} /\ IsFiniteSet(Configs) /\ NONE \notin Configs /\ NONE \notin Threads
  /\ Covers \in [Configs -> SUBSET Urls]
  /\ MaxFiles \in Nat \ {0} /\ MaxDamage \in Nat /\ MaxFailures \in Nat

ConfigStatus == {"active", "stale", "invalid", "revoked"}
Versions == 1 .. MaxFiles

VARIABLES
  files,     \* configuration -> version -> the status in the revision file, or what else is there
  manifest,  \* the manifest: readable or not, and the highest version it names of each configuration
  lock,      \* the thread inside the global lock, or NONE
  work,      \* what the lock's holder has read
  calls,     \* each thread's operation: where it is, what was asked, what came out
  damaged,
  failures

registryVars == <<files, manifest, lock, work, calls, damaged, failures>>

NoVersions == [c \in Configs |-> 0]
NoHistory == [c \in Configs |-> <<>>]
NoWork == [history |-> NoHistory, corrupt |-> {}, broken |-> {}, missing |-> FALSE]

\* config and version identify what is asked for; status is expected_status.
Request == [op : {"lookup", "load", "load_exact", "register", "mark_stale", "mark_invalid",
                  "mark_validated", "mark_revoked", "unrevoke"},
            config : Configs \cup {NONE}, url : Urls \cup {NONE},
            version : 0 .. MaxFiles, status : ConfigStatus \cup {NONE}]

\* How an operation ends: with an entry, with no match or KeyError, or with
\* ConfigConflictError, another RegistryError, ValueError or RegistryIOError.
Result == [kind : {"none", "entry", "missing", "conflict", "error", "value", "io"},
           config : Configs \cup {NONE}, version : 0 .. MaxFiles,
           status : ConfigStatus \cup {NONE}]

NoRequest == [op |-> "lookup", config |-> NONE, url |-> NONE, version |-> 0, status |-> NONE]
NoResult == [kind |-> "none", config |-> NONE, version |-> 0, status |-> NONE]
NoCall == [pc |-> "idle", request |-> NoRequest, result |-> NoResult]

RegistryTypeOK ==
  /\ files \in [Configs -> [Versions -> ConfigStatus \cup {"absent", "damaged"}]]
  /\ manifest \in [state : {"absent", "ok", "damaged"}, high : [Configs -> 0 .. MaxFiles]]
  /\ lock \in Threads \cup {NONE}
  /\ \A t \in Threads :
       /\ calls[t].request \in Request /\ calls[t].result \in Result
       /\ calls[t].pc \in {"lock", "quarantine", "op", "record"} => calls[t].result = NoResult
       /\ calls[t].pc \in {"quarantine", "op", "record"} <=> lock = t
  /\ damaged \in 0 .. MaxDamage /\ failures \in 0 .. MaxFailures

RegistryInit ==
  /\ files = [c \in Configs |-> [v \in Versions |-> "absent"]]
  /\ manifest = [state |-> "ok", high |-> NoVersions]
  /\ lock = NONE
  /\ work = NoWork
  /\ calls = [t \in Threads |-> NoCall]
  /\ damaged = 0 /\ failures = 0

-----------------------------------------------------------------------------
At(t, pc) == calls[t].pc = pc
Req(t) == calls[t].request
Goto(t, pc) == calls' = [calls EXCEPT ![t].pc = pc]

\* A thread calls the registry, and later reads the answer.
Asked(request) == [pc |-> "lock", request |-> request, result |-> NoResult]

\* The operation returns or raises: both locks are released.
Ends(t, result) ==
  /\ calls' = [calls EXCEPT ![t] = [pc |-> "done", request |-> NoRequest, result |-> result]]
  /\ lock' = NONE
  /\ work' = NoWork

Raises(t, kind) == Ends(t, [NoResult EXCEPT !.kind = kind])
Entry(c, v, s) == [kind |-> "entry", config |-> c, version |-> v, status |-> s]

Last(s) == s[Len(s)]
Present(c) == {v \in Versions : files[c][v] # "absent"}
Bad(c) == {v \in Versions : files[c][v] = "damaged"}

\* What registry_io promises: a write or a move of a file is seen whole or not at all, and
\* a revision never takes the place of another.

atomic_write(content) == manifest' = content

atomic_publish_noreplace(c, v, status) ==
  /\ files[c][v] = "absent"
  /\ files' = [files EXCEPT ![c][v] = status]

durable_move(moved) ==
  files' = [c \in Configs |-> [v \in Versions |-> IF <<c, v>> \in moved THEN "absent" ELSE files[c][v]]]

\* The history cannot be used: a revision is damaged, one is missing, or the last ones are.
Invalid(c, high) ==
  \/ Bad(c) # {}
  \/ Present(c) # 1 .. Cardinality(Present(c))
  \/ Cardinality(Present(c)) < high[c]

\* A damaged manifest goes to the quarantine and counts for nothing.
ManifestHigh == IF manifest.state = "ok" THEN manifest.high ELSE NoVersions

_validate_or_quarantine_manifest ==
  atomic_write(IF manifest.state = "damaged" THEN [state |-> "absent", high |-> NoVersions] ELSE manifest)

\* Every revision file is read and judged.
_scan_revision_files(high) ==
  LET invalid == {c \in Configs : Present(c) # {} /\ Invalid(c, high)} IN
  [history |-> [c \in Configs |-> IF c \in invalid THEN <<>>
                                  ELSE [v \in 1 .. Cardinality(Present(c)) |-> files[c][v]]],
   corrupt |-> {f \in Configs \X Versions : f[2] \in Bad(f[1])},
   broken |-> {f \in Configs \X Versions : f[1] \in invalid /\ f[2] \in Present(f[1]) \ Bad(f[1])},
   missing |-> \E c \in Configs : high[c] > 0 /\ Present(c) = {}]

\* The lock is taken, the manifest and the files are read.  Nothing but the manifest's move
\* can be seen from outside, so that a crash in between is a crash before or after.
_global_lock(t) ==
  /\ At(t, "lock") /\ lock = NONE
  /\ lock' = t
  /\ _validate_or_quarantine_manifest
  /\ work' = _scan_revision_files(ManifestHigh)
  /\ Goto(t, "quarantine")
  /\ UNCHANGED <<files, damaged, failures>>

\* One file is moved: the damaged ones during the scan, then the rest of their histories.
_quarantine_path(t) ==
  /\ At(t, "quarantine")
  /\ \E f \in IF work.corrupt # {} THEN work.corrupt ELSE work.broken :
       /\ durable_move({f})
       /\ work' = [work EXCEPT !.corrupt = @ \ {f}, !.broken = @ \ {f}]
  /\ UNCHANGED <<manifest, lock, calls, damaged, failures>>

Manifest(history) == [state |-> "ok", high |-> [c \in Configs |-> Len(history[c])]]

\* The end of _recover: a manifest that names files nobody can account for stops the
\* operation, otherwise the manifest is rewritten from the histories.
_recover(t) ==
  /\ At(t, "quarantine") /\ work.corrupt = {} /\ work.broken = {}
  /\ \/ /\ work.missing
        /\ Raises(t, "error")
        /\ UNCHANGED manifest
     \/ /\ ~work.missing
        /\ atomic_write(Manifest(work.history))
        /\ Goto(t, "op")
        /\ UNCHANGED <<lock, work>>
  /\ UNCHANGED <<files, damaged, failures>>

-----------------------------------------------------------------------------
(* The operations.  A file may have been damaged since the scan. *)

Known(c) == work.history[c] # <<>>
Actives == {c \in Configs : Known(c) /\ Last(work.history[c]) = "active"}
Readable(c, v) == files[c][v] # "damaged"
EntryOf(c) == Entry(c, Len(work.history[c]), Last(work.history[c]))

\* Every active configuration of the domain is read; one that cannot be read is moved away
\* and ignored.  The most recently validated of those that match is the answer: which one
\* it is says nothing here.
lookup(t) ==
  LET read == {c \in Actives : Readable(c, Len(work.history[c]))}
      matches == {c \in read : Req(t).url \in Covers[c]} IN
  /\ At(t, "op") /\ Req(t).op = "lookup"
  /\ durable_move({<<c, Len(work.history[c])>> : c \in Actives \ read})
  /\ \/ matches = {} /\ Raises(t, "missing")
     \/ \E c \in matches : Ends(t, EntryOf(c))
  /\ UNCHANGED <<manifest, damaged, failures>>

\* Load one revision; a revision that cannot be read is moved away.
Loads(t, c, v) ==
  IF Readable(c, v)
  THEN Ends(t, Entry(c, v, work.history[c][v])) /\ UNCHANGED files
  ELSE Raises(t, "error") /\ durable_move({<<c, v>>})

\* Version 0 stands for the latest revision.
load(t) ==
  LET c == Req(t).config
      v == IF Req(t).version = 0 THEN Len(work.history[c]) ELSE Req(t).version IN
  /\ At(t, "op") /\ Req(t).op = "load"
  /\ IF v \in 1 .. Len(work.history[c]) THEN Loads(t, c, v) ELSE Raises(t, "missing") /\ UNCHANGED files
  /\ UNCHANGED <<manifest, damaged, failures>>

load_exact(t) ==
  LET c == Req(t).config
      v == Req(t).version IN
  /\ At(t, "op") /\ Req(t).op = "load_exact"
  /\ IF Known(c) /\ Len(work.history[c]) = v /\ Last(work.history[c]) = Req(t).status
     THEN Loads(t, c, v) ELSE Raises(t, "conflict") /\ UNCHANGED files
  /\ UNCHANGED <<manifest, damaged, failures>>

FileCount == Cardinality({f \in Configs \X Versions : f[2] <= Len(work.history[f[1]])})

\* The durable part of an operation that changes a history: the next revision is
\* published, unless a file of that name is there already.
_write_revision(t, c, status) ==
  LET v == Len(work.history[c]) + 1
      history == [work.history EXCEPT ![c] = Append(@, status)] IN
  /\ atomic_publish_noreplace(c, v, status)
  /\ work' = [work EXCEPT !.history = history]
  /\ Goto(t, "record")
  /\ UNCHANGED lock

register(t) ==
  LET c == Req(t).config IN
  /\ At(t, "op") /\ Req(t).op = "register"
  /\ \/ Known(c) /\ Ends(t, EntryOf(c)) /\ UNCHANGED files
     \/ ~Known(c) /\ FileCount >= MaxFiles /\ Raises(t, "error") /\ UNCHANGED files
     \/ ~Known(c) /\ FileCount < MaxFiles /\ _write_revision(t, c, "active")
  /\ UNCHANGED <<manifest, damaged, failures>>

Transitions == [mark_stale     |-> [to |-> "stale",   from |-> {"active", "stale"}],
                mark_invalid   |-> [to |-> "invalid", from |-> {"active", "stale", "invalid"}],
                mark_validated |-> [to |-> "active",  from |-> {"active", "stale"}],
                mark_revoked   |-> [to |-> "revoked", from |-> {"active", "stale", "invalid"}],
                unrevoke       |-> [to |-> "stale",   from |-> {"revoked"}]]

\* Mutant: a transition does not ask where it starts from.
Allowed_anywhere(r, current) ==
  /\ r.version \in {0, current.version}
  /\ r.status \in {NONE, current.status}

\* The version and status the caller expects, and the statuses the transition leaves.
Allowed(r, current) ==
  /\ r.version \in {0, current.version}
  /\ r.status \in {NONE, current.status}
  /\ current.status \in Transitions[r.op].from

_transition(t) ==
  LET r == Req(t)
      c == r.config IN
  /\ At(t, "op") /\ r.op \in DOMAIN Transitions
  /\ \/ ~Known(c) /\ Raises(t, "missing") /\ UNCHANGED files
     \/ Known(c) /\ ~Allowed(r, EntryOf(c)) /\ Raises(t, "conflict") /\ UNCHANGED files
     \/ /\ Known(c) /\ Allowed(r, EntryOf(c))
        /\ IF FileCount >= MaxFiles THEN Raises(t, "error") /\ UNCHANGED files
           ELSE IF ~Readable(c, Len(work.history[c])) THEN Raises(t, "value") /\ UNCHANGED files
           ELSE _write_revision(t, c, Transitions[r.op].to)
  /\ UNCHANGED <<manifest, damaged, failures>>

\* The revision is durable; the manifest follows and the caller gets its entry.
_write_manifest(t) ==
  /\ At(t, "record")
  /\ atomic_write(Manifest(work.history))
  /\ Ends(t, EntryOf(Req(t).config))
  /\ UNCHANGED <<files, damaged, failures>>

-----------------------------------------------------------------------------
(* Faults. *)

\* The lock does not come within lock_timeout.
lock_timeout(t) ==
  /\ At(t, "lock") /\ lock # NONE /\ failures < MaxFailures
  /\ calls' = [calls EXCEPT ![t] = [pc |-> "done", request |-> NoRequest,
                                    result |-> [NoResult EXCEPT !.kind = "error"]]]
  /\ failures' = failures + 1
  /\ UNCHANGED <<files, manifest, lock, work, damaged>>

\* The next file operation fails.  One that fails after it took effect is that step and then this.
io_error(t) ==
  /\ lock = t /\ failures < MaxFailures
  /\ Raises(t, "io")
  /\ failures' = failures + 1
  /\ UNCHANGED <<files, manifest, damaged>>

\* A file of the registry is damaged on the disk: just before an operation reads the files,
\* or between its scan and its own use of them.  At any other moment it makes no difference.
damage ==
  /\ damaged < MaxDamage
  /\ \E t \in Threads : (At(t, "lock") /\ lock = NONE) \/ At(t, "op")
  /\ damaged' = damaged + 1
  /\ \/ \E c \in Configs : \E v \in Present(c) :
          /\ files' = [files EXCEPT ![c][v] = "damaged"]
          /\ UNCHANGED manifest
     \/ /\ manifest.state = "ok"
        /\ manifest' = [state |-> "damaged", high |-> NoVersions]
        /\ UNCHANGED files
  /\ UNCHANGED <<lock, work, calls, failures>>

RegistryStep(t) ==
  \/ _global_lock(t) \/ _quarantine_path(t) \/ _recover(t) \/ _write_manifest(t)
  \/ lookup(t) \/ load(t) \/ load_exact(t) \/ register(t) \/ _transition(t)

RegistryFault(t) == lock_timeout(t) \/ io_error(t)

-----------------------------------------------------------------------------
(* The history a reader of the registry is promised: the revisions the manifest  *)
(* names, all of them or none.  Without a manifest the files speak for themselves. *)

Promised(c) == IF manifest.state = "ok" THEN 1 .. manifest.high[c] ELSE Present(c)

Visible(c) ==
  IF \A v \in Promised(c) : files[c][v] \in ConfigStatus
  THEN [v \in 1 .. Cardinality(Promised(c)) |-> files[c][v]]
  ELSE <<>>

History == INSTANCE ConfigHistory WITH history <- [c \in Configs |-> Visible(c)]

\* Whatever fails, a history only grows along the transitions or is given up whole, and a
\* revision the manifest names never changes: no failed write, no half-done quarantine and
\* no second process brings back an earlier status (_recover, _transition, _write_revision).
HistoriesOnlyGrow == History!Spec

=============================================================================
