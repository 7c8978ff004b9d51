------------------------ MODULE ConfigManager_proofs ------------------------
(***************************************************************************)
(* Proofs about ConfigRegistry and ConfigManager, for any configurations,  *)
(* URLs, threads, tokens and file limit, and any number of operations,     *)
(* crashes and failed file operations.                                     *)
(*                                                                         *)
(* HistoriesOnlyGrow is proved where at most one file is ever damaged      *)
(* (MaxDamage <= 1).  With two it is false: when the manifest is lost as   *)
(* well as the last revision, nothing says any more that there was one.    *)
(*                                                                         *)
(* OneIsActive is proved where nothing is damaged, and with one damaged    *)
(* file where all configurations cover the same URLs; it is false          *)
(* otherwise, as the README says.                                          *)
(*                                                                         *)
(* The invariant says what the files, the manifest and the holder's work   *)
(* tell of each other: the manifest is at most one revision behind, and    *)
(* whoever has recovered knows every file that is there.                   *)
(***************************************************************************)
EXTENDS ConfigManager, FiniteSetTheorems, SequenceTheorems, TLAPS

InLock == {"quarantine", "op", "record"}
CallPC == InLock \cup {"idle", "lock", "done"}
FileState == ConfigStatus \cup {"absent", "damaged"}
Work == [history : [Configs -> Seq(ConfigStatus)], corrupt : SUBSET (Configs \X Versions),
         broken : SUBSET (Configs \X Versions), missing : BOOLEAN]
Call == [pc : CallPC, request : Request, result : Result]

\* The pcs of a thread that is not waiting for the registry.
Quiet == {"idle", "token", "guard", "probe", "confirm", "reprobe", "pop", "cancel"}
\* The pcs at which entry, and config, name a configuration.
WithEntry == {"loaded", "validated", "staled", "invalidated", "reloaded", "reloaded_any"}
WithConfig == {"checked", "registered", "final"}
Waiting == WithEntry \cup WithConfig \cup {"looked_up", "exact", "administered"}

Run == [pc : Quiet \cup Waiting, task : {NONE, "resolve", "confirm", "fallback", "cancel"},
        url : Urls \cup {NONE}, token : Tokens \cup {NONE}, attempt : 0 .. MAX_ATTEMPTS,
        overrides : Overrides \cup {NONE}, entry : Result, config : Configs \cup {NONE}]

Types ==
  /\ files \in [Configs -> [Versions -> FileState]]
  /\ manifest \in [state : {"absent", "ok", "damaged"}, high : [Configs -> 0 .. MaxFiles]]
  /\ lock \in Threads \cup {NONE}
  /\ work \in Work
  /\ calls \in [Threads -> Call]
  /\ run \in [Threads -> Run]
  /\ damaged \in 0 .. MaxDamage

\* What a caller asked and was told.
CallOK(call, r) ==
  /\ call.pc \in {"idle", "done"} => call.request = NoRequest
  /\ call.request.op # "lookup" => call.request.config \in Configs
  /\ call.result.kind = "entry" => call.result.config \in Configs
  /\ r.pc \in Quiet => call.pc \in {"idle", "done"}
  /\ r.pc \in WithEntry => r.entry.config \in Configs
  /\ r.pc \in WithConfig => r.config \in Configs

CallsInv == \A t \in Threads :
              (calls[t].pc \in InLock <=> lock = t) /\ CallOK(calls[t], run[t])

Alive(c, v) == files[c][v] \in ConfigStatus
High(c) == manifest.high[c]

\* Without a readable manifest every file is as it was written.
Intact == \A c \in Configs : \E n \in 0 .. MaxFiles : \A v \in Versions :
            IF v <= n THEN Alive(c, v) ELSE files[c][v] = "absent"

Whole == \A c \in Configs, v \in Versions :
           files[c][v] # "damaged" /\ (v <= High(c) => files[c][v] # "absent")

Chained == \A c \in Configs, v \in Versions :
             Alive(c, v) => IF v = 1 THEN files[c][v] = "active"
                            ELSE Alive(c, v - 1) => files[c][v] \in History!CanFollow(files[c][v - 1])

\* The manifest is at most one revision behind, of one configuration.
Extra(c, v) == v > High(c) /\ files[c][v] # "absent"
OneBehind == /\ \A c \in Configs, v \in Versions : Extra(c, v) => v = High(c) + 1
             /\ \A c, d \in Configs, v, w \in Versions : Extra(c, v) /\ Extra(d, w) => c = d

FilesInv ==
  /\ Chained
  /\ manifest.state = "ok" => OneBehind
  /\ MaxDamage <= 1 /\ manifest.state # "ok" => Intact
  /\ damaged = 0 => manifest.state = "ok" /\ Whole

ToMove == work.corrupt \cup work.broken
Revisions(c) == Len(work.history[c])

Scanned ==
  /\ \A c \in Configs, v \in Versions :
       IF v <= Revisions(c) THEN files[c][v] = work.history[c][v]
       ELSE files[c][v] # "absent" => <<c, v>> \in ToMove
  /\ \A c \in Configs : \A v \in Versions : <<c, v>> \in ToMove => Revisions(c) = 0
  /\ manifest.state = "ok" => \A c \in Configs : Revisions(c) # 0 => High(c) <= Revisions(c)
  /\ damaged = 0 \/ (MaxDamage <= 1 /\ manifest.state # "ok") => ToMove = {}

Recovered == \A c \in Configs, v \in Versions :
  IF v <= Revisions(c) THEN files[c][v] \in {work.history[c][v], "damaged"}
  ELSE files[c][v] = "absent"

WorkInv(t) ==
  /\ lock = t => \A c \in Configs : Revisions(c) <= MaxFiles
  /\ calls[t].pc = "quarantine" => Scanned
  /\ calls[t].pc \in {"op", "record"} => Recovered
  /\ calls[t].pc = "op" /\ manifest.state = "ok" => \A c \in Configs : High(c) = Revisions(c)
  /\ calls[t].pc = "record" =>
       LET d == calls[t].request.config IN
       /\ d \in Configs /\ Revisions(d) # 0
       /\ manifest.state = "ok" =>
            \A c \in Configs : Revisions(c) = IF c = d THEN High(c) + 1 ELSE High(c)

WorksInv == \A t \in Threads : WorkInv(t)

IInv == Types /\ CallsInv /\ FilesInv /\ WorksInv

-----------------------------------------------------------------------------
(* Steps of the manager: a thread that holds no lock of the registry goes on. *)

Keeps == UNCHANGED <<files, manifest, lock, work, damaged>>
Away(t) == calls[t].pc \notin InLock

LEMMA Names ==
  /\ NONE \notin Configs /\ NONE \notin Threads /\ IsFiniteSet(Configs)
  /\ MaxFiles \in Nat /\ MaxFiles > 0 /\ 1 \in Versions /\ 0 \in 0 .. MaxFiles
  /\ Versions \subseteq Nat /\ Versions \subseteq 0 .. MaxFiles
BY RegistryAssumption DEF Versions

LEMMA PcFacts ==
  /\ "idle" \notin InLock /\ "lock" \notin InLock /\ "done" \notin InLock
  /\ InLock \subseteq CallPC /\ {"idle", "lock", "done"} \subseteq CallPC
  /\ Quiet \cap Waiting = {} /\ WithEntry \subseteq Waiting /\ WithConfig \subseteq Waiting
  /\ WithEntry \cap WithConfig = {}
BY DEF InLock, CallPC, Quiet, Waiting, WithEntry, WithConfig

LEMMA Plain ==
  /\ NoResult \in Result /\ NoRequest \in Request /\ NoCall \in Call /\ NoRun \in Run
  /\ NoResult.kind = "none" /\ NoRequest.op = "lookup"
  /\ NoCall.pc = "idle" /\ NoCall.request = NoRequest /\ NoCall.result = NoResult
  /\ NoRun.pc = "idle"
<1>1. NoResult \in Result /\ NoRequest \in Request
  BY Names DEF NoResult, NoRequest, Result, Request
<1>2. NoCall \in Call
  BY <1>1, PcFacts DEF NoCall, Call
<1>3. NoRun \in Run
  BY <1>1 DEF NoRun, Run, Quiet, MAX_ATTEMPTS
<1> QED BY <1>1, <1>2, <1>3 DEF NoResult, NoRequest, NoCall, NoRun

LEMMA Mine ==
  ASSUME IInv, NEW t \in Threads
  PROVE  /\ calls[t] \in Call /\ run[t] \in Run /\ CallOK(calls[t], run[t])
         /\ calls[t].result \in Result /\ calls[t].request \in Request
         /\ calls[t].pc \in CallPC /\ run[t].pc \in Quiet \cup Waiting
         /\ run[t].entry \in Result
         /\ calls[t].pc \in InLock <=> lock = t
BY DEF IInv, Types, CallsInv, Call, Run

\* What is done to a thread that is away changes nothing that the holder relies on.
LEMMA AwayStep ==
  ASSUME IInv, NEW t \in Threads, Away(t), Keeps, NEW call \in Call, NEW r \in Run,
         calls' = [calls EXCEPT ![t] = call], run' = [run EXCEPT ![t] = r],
         call.pc \notin InLock, CallOK(call, r)
  PROVE  IInv'
<1>1. Types /\ CallsInv /\ FilesInv /\ WorksInv /\ lock # t
  BY DEF IInv, CallsInv, Away
<1>2. Types'
  BY <1>1 DEF Types, Keeps
<1>3. \A u \in Threads : u # t => calls'[u] = calls[u] /\ run'[u] = run[u]
  BY <1>1 DEF Types
<1>4. calls'[t] = call /\ run'[t] = r
  BY <1>1 DEF Types
<1>5. CallsInv'
  BY <1>1, <1>3, <1>4 DEF CallsInv, Keeps
<1>6. FilesInv'
  BY <1>1 DEF FilesInv, Keeps, Chained, OneBehind, Intact, Whole, Extra, Alive, High
<1>7. WorksInv'
  <2> SUFFICES ASSUME NEW u \in Threads PROVE WorkInv(u)'
    BY DEF WorksInv
  <2>1. CASE u = t
    BY <1>1, <1>4, <2>1 DEF WorkInv, InLock, Keeps
  <2>2. CASE u # t
    BY <1>1, <1>3, <2>2 DEF WorksInv, WorkInv, Keeps, Scanned, Recovered, Revisions, ToMove, High
  <2> QED BY <2>1, <2>2
<1> QED BY <1>2, <1>5, <1>6, <1>7 DEF IInv

LEMMA ReturnsStep ==
  ASSUME IInv, NEW t \in Threads, Away(t), Returns(t)
  PROVE  IInv'
<1> DEFINE token == run[t].token
           pops == [NoRun EXCEPT !.pc = "pop", !.token = token]
           r == IF run[t].task = "fallback" THEN pops ELSE NoRun
<1>1. token \in Tokens \cup {NONE}
  BY Mine DEF Run
<1> HIDE DEF token
<1>2. pops \in Run /\ pops.pc = "pop"
  BY <1>1, Plain DEF Run, Quiet
<1> HIDE DEF pops
<1>3. r \in Run /\ r.pc \in {"idle", "pop"}
  BY <1>2, Plain
<1>4. calls' = [calls EXCEPT ![t] = NoCall] /\ run' = [run EXCEPT ![t] = r] /\ Keeps
  BY DEF Returns, Keeps, pops, token
<1> HIDE DEF r
<1>5. CallOK(NoCall, r)
  BY <1>3, Plain DEF CallOK, WithEntry, WithConfig
<1> QED BY <1>3, <1>4, <1>5, Plain, PcFacts, AwayStep

LEMMA AskedCall ==
  ASSUME NEW request \in Request, request.op # "lookup" => request.config \in Configs,
         NEW r \in Run, r.pc \in Waiting,
         r.pc \in WithEntry => r.entry.config \in Configs,
         r.pc \in WithConfig => r.config \in Configs
  PROVE  /\ Asked(request) \in Call /\ Asked(request).pc \notin InLock
         /\ CallOK(Asked(request), r)
BY Plain, PcFacts DEF Asked, Call, CallOK

LEMMA LookupStep ==
  ASSUME IInv, NEW t \in Threads, Away(t), Lookup(t),
         NEW r \in Run, run' = [run EXCEPT ![t] = r], r.pc \in {"looked_up", "checked"},
         r.pc = "checked" => r.config \in Configs
  PROVE  IInv'
<1> DEFINE url == run[t].url
           request == [NoRequest EXCEPT !.op = "lookup", !.url = url]
<1>1. url \in Urls \cup {NONE}
  BY Mine DEF Run
<1>2. calls' = [calls EXCEPT ![t] = Asked(request)] /\ Keeps
  BY DEF Lookup, Keeps
<1> HIDE DEF url
<1>3. request \in Request /\ request.op = "lookup"
  BY <1>1, Plain DEF Request
<1> HIDE DEF request
<1>4. r.pc \in Waiting /\ r.pc \notin WithEntry /\ (r.pc \in WithConfig => r.pc = "checked")
  BY DEF Waiting, WithEntry, WithConfig
<1>5. /\ Asked(request) \in Call /\ Asked(request).pc \notin InLock
      /\ CallOK(Asked(request), r)
  BY <1>3, <1>4, AskedCall
<1> QED BY <1>2, <1>5, AwayStep

LEMMA QueryRequest ==
  ASSUME NEW c \in Configs, NEW v \in 0 .. MaxFiles, NEW s \in ConfigStatus \cup {NONE},
         NEW op \in {"load", "load_exact", "register", "mark_stale", "mark_invalid",
                     "mark_validated", "mark_revoked", "unrevoke"}
  PROVE  /\ Query(op, c, v, s) \in Request
         /\ Query(op, c, v, s).op = op /\ Query(op, c, v, s).config = c
         /\ Query(op, c, v, s).status = s
BY DEF Query, Request

LEMMA AskStep ==
  ASSUME IInv, NEW t \in Threads, Away(t), NEW request \in Request, NEW pc \in Waiting,
         Ask(t, request, pc), request.config \in Configs,
         pc \in WithEntry => run[t].entry.config \in Configs,
         pc \in WithConfig => run[t].config \in Configs
  PROVE  IInv'
<1> DEFINE r == [run[t] EXCEPT !.pc = pc]
<1>1. run[t] \in Run /\ run \in [Threads -> Run]
  BY Mine DEF IInv, Types
<1>2. /\ calls' = [calls EXCEPT ![t] = Asked(request)] /\ Keeps
      /\ run' = [run EXCEPT ![t].pc = pc]
  BY DEF Ask, Keeps
<1>3. run' = [run EXCEPT ![t] = r]
  BY <1>1, <1>2
<1>4. r \in Run /\ r.pc = pc /\ r.entry = run[t].entry /\ r.config = run[t].config
  BY <1>1 DEF Run
<1> HIDE DEF r
<1>5. /\ Asked(request) \in Call /\ Asked(request).pc \notin InLock
      /\ CallOK(Asked(request), r)
  BY <1>4, AskedCall
<1> QED BY <1>2, <1>3, <1>4, <1>5, AwayStep

LEMMA AskOfEntryStep ==
  ASSUME IInv, NEW t \in Threads, Away(t), run[t].pc \in WithEntry,
         NEW op \in {"mark_stale", "mark_invalid", "mark_validated"},
         NEW pc \in {"validated", "staled", "invalidated"}, AskOfEntry(t, op, pc)
  PROVE  IInv'
<1> DEFINE e == run[t].entry
           request == Query(op, e.config, e.version, e.status)
<1>1. e \in Result /\ e.config \in Configs
  BY Mine DEF CallOK
<1>2. e.version \in 0 .. MaxFiles /\ e.status \in ConfigStatus \cup {NONE}
  BY <1>1 DEF Result
<1>3. Ask(t, request, pc)
  BY DEF AskOfEntry
<1>4. request \in Request /\ request.config \in Configs
  BY <1>1, <1>2, QueryRequest
<1>5. pc \in Waiting /\ pc \in WithEntry
  BY DEF Waiting, WithEntry
<1> HIDE DEF request
<1> QED BY <1>1, <1>3, <1>4, <1>5, PcFacts, AskStep

\* A thread whose call has been answered, or that has none under way.
LEMMA IsAway ==
  ASSUME IInv, NEW t \in Threads, calls[t].pc = "done" \/ run[t].pc \in Quiet
  PROVE  Away(t) /\ calls[t].request = NoRequest
BY Mine DEF Away, CallOK, InLock

\* Only the run changes.
LEMMA RunStep ==
  ASSUME IInv, NEW t \in Threads, calls[t].pc = "done" \/ run[t].pc \in Quiet,
         Keeps, UNCHANGED calls, NEW r \in Run, r.pc \in Quiet, run' = [run EXCEPT ![t] = r]
  PROVE  IInv'
<1>1. calls[t] \in Call /\ CallOK(calls[t], run[t]) /\ calls \in [Threads -> Call]
  BY Mine DEF IInv, Types
<1>2. Away(t) /\ calls[t].request = NoRequest
  BY IsAway
<1>3. calls[t].pc \in {"idle", "done"}
  BY <1>1 DEF CallOK
<1>4. CallOK(calls[t], r)
  BY <1>1, <1>2, <1>3, PcFacts DEF CallOK
<1>5. calls' = [calls EXCEPT ![t] = calls[t]]
  BY <1>1
<1> QED BY <1>1, <1>2, <1>4, <1>5, AwayStep DEF Away

LEMMA RetriesStep ==
  ASSUME IInv, NEW t \in Threads, Away(t), Retries(t)
  PROVE  IInv'
<1>1. CASE run[t].attempt < MAX_ATTEMPTS
  <2> DEFINE attempt == run[t].attempt + 1
             r == [run[t] EXCEPT !.pc = "looked_up", !.attempt = attempt, !.entry = NoResult]
  <2>1. run[t] \in Run /\ run \in [Threads -> Run] /\ attempt \in 0 .. MAX_ATTEMPTS
    BY <1>1, Mine DEF IInv, Types, Run, MAX_ATTEMPTS
  <2>2. /\ Lookup(t)
        /\ run' = [run EXCEPT ![t].pc = "looked_up", ![t].attempt = attempt, ![t].entry = NoResult]
    BY <1>1 DEF Retries
  <2> HIDE DEF attempt
  <2>3. run' = [run EXCEPT ![t] = r]
    BY <2>1, <2>2
  <2>4. r \in Run /\ r.pc = "looked_up"
    BY <2>1, Plain DEF Run, Waiting
  <2> HIDE DEF r
  <2> QED BY <2>2, <2>3, <2>4, LookupStep
<1>2. CASE ~(run[t].attempt < MAX_ATTEMPTS)
  BY <1>2, ReturnsStep DEF Retries
<1> QED BY <1>1, <1>2

LEMMA ConflictsStep ==
  ASSUME IInv, NEW t \in Threads, Away(t), Conflicts(t)
  PROVE  IInv'
<1>1. CASE run[t].task = "confirm"
  <2> DEFINE url == run[t].url
             token == run[t].token
             r == [NoRun EXCEPT !.pc = "guard", !.task = "fallback", !.url = url, !.token = token]
  <2>1. url \in Urls \cup {NONE} /\ token \in Tokens \cup {NONE}
    BY Mine DEF Run
  <2>2. run' = [run EXCEPT ![t] = r] /\ calls' = [calls EXCEPT ![t] = NoCall] /\ Keeps
    BY <1>1 DEF Conflicts, Keeps
  <2> HIDE DEF url, token
  <2>3. r \in Run /\ r.pc = "guard"
    BY <2>1, Plain DEF Run, Quiet
  <2> HIDE DEF r
  <2>4. CallOK(NoCall, r)
    BY <2>3, Plain DEF CallOK, WithEntry, WithConfig
  <2> QED BY <2>2, <2>3, <2>4, Plain, PcFacts, AwayStep
<1>2. CASE run[t].task # "confirm"
  BY <1>2, RetriesStep DEF Conflicts
<1> QED BY <1>1, <1>2

\* The thread goes on to another pc and nothing else changes.
LEMMA GoesStep ==
  ASSUME IInv, NEW t \in Threads, calls[t].pc = "done" \/ run[t].pc \in Quiet,
         UNCHANGED registryVars, NEW pc \in Quiet, run' = [run EXCEPT ![t].pc = pc]
  PROVE  IInv'
<1> DEFINE r == [run[t] EXCEPT !.pc = pc]
<1>1. run[t] \in Run /\ run \in [Threads -> Run]
  BY Mine DEF IInv, Types
<1>2. run' = [run EXCEPT ![t] = r]
  BY <1>1
<1>3. r \in Run /\ r.pc = pc
  BY <1>1 DEF Run
<1> HIDE DEF r
<1> QED BY <1>2, <1>3, RunStep DEF Keeps, registryVars

\* A conflict, an error or a result ends the thread's work, or it asks once more about the
\* entry it works with.
LEMMA ReloadsStep ==
  ASSUME IInv, NEW t \in Threads, calls[t].pc = "done", run[t].pc \in WithEntry,
         NEW pc \in {"reloaded", "reloaded_any"}, Reloads(t, pc)
  PROVE  IInv'
<1> DEFINE c == run[t].entry.config
           request == Query("load", c, 0, NONE)
<1>1. c \in Configs
  BY Mine DEF CallOK
<1>2. Ask(t, request, pc) /\ run[t].entry.config \in Configs
  BY <1>1 DEF Reloads
<1> HIDE DEF c
<1>3. request \in Request /\ request.config \in Configs
  BY <1>1, Names, QueryRequest
<1>4. pc \in Waiting /\ pc \in WithEntry
  BY DEF Waiting, WithEntry
<1> HIDE DEF request
<1> QED BY <1>2, <1>3, <1>4, IsAway, PcFacts, AskStep

\* One more reading of the revision the registry has just answered with.
LEMMA ExactStep ==
  ASSUME IInv, NEW t \in Threads, calls[t].pc = "done", Answer(t).kind = "entry",
         NEW pc \in {"exact", "final"}, pc = "final" => run[t].pc \in WithConfig,
         Ask(t, Query("load_exact", Answer(t).config, Answer(t).version, "active"), pc)
  PROVE  IInv'
<1> DEFINE a == Answer(t)
           request == Query("load_exact", a.config, a.version, "active")
<1>1. a \in Result /\ a.config \in Configs /\ (pc = "final" => run[t].config \in Configs)
  BY Mine DEF CallOK, Answer
<1>2. Ask(t, request, pc) /\ a.version \in 0 .. MaxFiles
  BY <1>1 DEF Result
<1> HIDE DEF a
<1>3. request \in Request /\ request.config \in Configs
  BY <1>1, <1>2, QueryRequest DEF ConfigStatus
<1>4. pc \in Waiting /\ pc \notin WithEntry /\ (pc \in WithConfig => pc = "final")
  BY DEF Waiting, WithEntry, WithConfig
<1> HIDE DEF request
<1> QED BY <1>1, <1>2, <1>3, <1>4, IsAway, PcFacts, AskStep

-----------------------------------------------------------------------------
(* The manager's actions. *)

LEMMA resolveStep ==
  ASSUME IInv, NEW t \in Threads, NEW url \in Urls, resolve(t, url)
  PROVE  IInv'
<1> DEFINE r == [NoRun EXCEPT !.pc = "guard", !.task = "resolve", !.url = url]
<1>1. run' = [run EXCEPT ![t] = r] /\ Keeps /\ UNCHANGED calls /\ run[t].pc \in Quiet
  BY DEF resolve, Doing, Keeps, registryVars, Quiet
<1>2. r \in Run /\ r.pc \in Quiet
  BY Plain DEF Run, Quiet
<1> HIDE DEF r
<1> QED BY <1>1, <1>2, RunStep

LEMMA guardStep ==
  ASSUME IInv, NEW t \in Threads, _resolution_guard(t)
  PROVE  IInv'
<1>1. run[t].pc \in Quiet /\ Away(t)
  BY IsAway DEF _resolution_guard, Doing, Quiet
<1>2. CASE run[t].task = "confirm"
  BY <1>1, <1>2, GoesStep DEF _resolution_guard, Quiet
<1>3. CASE run[t].task # "confirm"
  <2> DEFINE r == [run[t] EXCEPT !.pc = "looked_up", !.attempt = 1]
  <2>1. run[t] \in Run /\ run \in [Threads -> Run]
    BY Mine DEF IInv, Types
  <2>2. Lookup(t) /\ run' = [run EXCEPT ![t].pc = "looked_up", ![t].attempt = 1]
    BY <1>3 DEF _resolution_guard
  <2>3. run' = [run EXCEPT ![t] = r]
    BY <2>1, <2>2
  <2>4. r \in Run /\ r.pc = "looked_up"
    <3>1. "looked_up" \in Waiting /\ 1 \in 0 .. MAX_ATTEMPTS
      BY DEF Waiting, MAX_ATTEMPTS
    <3> QED BY <2>1, <3>1 DEF Run
  <2> HIDE DEF r
  <2> QED BY <1>1, <2>2, <2>3, <2>4, LookupStep
<1> QED BY <1>2, <1>3

LEMMA resolveLockedStep ==
  ASSUME IInv, NEW t \in Threads, _resolve_locked(t)
  PROVE  IInv'
<1>1. calls[t].pc = "done" /\ Away(t)
  BY IsAway DEF _resolve_locked, Answered, At
<1>2. CASE Answer(t).kind = "missing"
  BY <1>1, <1>2, GoesStep DEF _resolve_locked, Quiet
<1>3. CASE Answer(t).kind = "entry"
  <2> DEFINE a == Answer(t)
             request == Query("load", a.config, a.version, NONE)
             r == [run[t] EXCEPT !.pc = "loaded", !.entry = a]
  <2>1. a \in Result /\ a.config \in Configs /\ run[t] \in Run /\ run \in [Threads -> Run]
    BY <1>3, Mine DEF CallOK, Answer, IInv, Types
  <2>2. a.version \in 0 .. MaxFiles
    BY <2>1 DEF Result
  <2>3. /\ calls' = [calls EXCEPT ![t] = Asked(request)] /\ Keeps
        /\ run' = [run EXCEPT ![t].pc = "loaded", ![t].entry = a]
    BY <1>3 DEF _resolve_locked, Keeps
  <2> HIDE DEF a
  <2>4. run' = [run EXCEPT ![t] = r]
    BY <2>1, <2>3
  <2>5. r \in Run /\ r.pc = "loaded" /\ r.entry = a
    BY <2>1 DEF Run, Waiting, WithEntry
  <2> HIDE DEF r
  <2>6. request \in Request /\ request.config \in Configs
    BY <2>1, <2>2, QueryRequest
  <2> HIDE DEF request
  <2>7. "loaded" \in Waiting /\ "loaded" \in WithEntry
    BY DEF Waiting, WithEntry
  <2>8. Asked(request) \in Call /\ Asked(request).pc \notin InLock /\ CallOK(Asked(request), r)
    BY <2>1, <2>5, <2>6, <2>7, PcFacts, AskedCall
  <2> QED BY <1>1, <2>3, <2>4, <2>5, <2>8, AwayStep
<1>4. CASE Answer(t).kind \notin {"missing", "entry"}
  BY <1>1, <1>4, ReturnsStep DEF _resolve_locked
<1> QED BY <1>2, <1>3, <1>4

LEMMA revalidateStep ==
  ASSUME IInv, NEW t \in Threads, revalidate(t)
  PROVE  IInv'
<1>1. calls[t].pc = "done" /\ Away(t) /\ run[t].pc \in WithEntry
  BY IsAway DEF revalidate, Answered, At, Doing, WithEntry
<1>2. CASE AskOfEntry(t, "mark_invalid", "invalidated")
  BY <1>1, <1>2, AskOfEntryStep
<1>3. CASE Returns(t)
  BY <1>1, <1>3, ReturnsStep
<1>4. CASE \E verdict \in Verdicts : verdict # "none" /\ AskOfEntry(t, verdict, AfterVerdict[verdict])
  <2>1. PICK verdict \in Verdicts : verdict # "none" /\ AskOfEntry(t, verdict, AfterVerdict[verdict])
    BY <1>4
  <2>2. /\ verdict \in {"mark_stale", "mark_invalid", "mark_validated"}
        /\ AfterVerdict[verdict] \in {"validated", "staled", "invalidated"}
    BY <2>1 DEF Verdicts, AfterVerdict
  <2> QED BY <1>1, <2>1, <2>2, AskOfEntryStep
<1> QED BY <1>2, <1>3, <1>4 DEF revalidate

LEMMA markValidStep ==
  ASSUME IInv, NEW t \in Threads, _mark_valid(t)
  PROVE  IInv'
<1>1. calls[t].pc = "done" /\ Away(t) /\ run[t].pc \in WithEntry
  BY IsAway DEF _mark_valid, Answered, At, Doing, WithEntry
<1>2. CASE /\ Answer(t).kind = "entry"
           /\ Ask(t, Query("load_exact", Answer(t).config, Answer(t).version, "active"), "exact")
  BY <1>1, <1>2, ExactStep
<1>3. CASE Reloads(t, "reloaded")
  BY <1>1, <1>3, ReloadsStep
<1>4. CASE AskOfEntry(t, "mark_invalid", "invalidated")
  BY <1>1, <1>4, AskOfEntryStep
<1>5. CASE Returns(t)
  BY <1>1, <1>5, ReturnsStep
<1> QED BY <1>2, <1>3, <1>4, <1>5 DEF _mark_valid

LEMMA staleStep ==
  ASSUME IInv, NEW t \in Threads, _stale(t)
  PROVE  IInv'
<1>1. calls[t].pc = "done" /\ Away(t) /\ run[t].pc \in WithEntry
  BY IsAway DEF _stale, Answered, At, Doing, WithEntry
<1>2. CASE run' = [run EXCEPT ![t].pc = "probe"] /\ UNCHANGED registryVars
  BY <1>1, <1>2, GoesStep DEF Quiet
<1>3. CASE Reloads(t, "reloaded")
  BY <1>1, <1>3, ReloadsStep
<1>4. CASE AskOfEntry(t, "mark_invalid", "invalidated")
  BY <1>1, <1>4, AskOfEntryStep
<1>5. CASE Returns(t)
  BY <1>1, <1>5, ReturnsStep
<1> QED BY <1>2, <1>3, <1>4, <1>5 DEF _stale

LEMMA invalidStep ==
  ASSUME IInv, NEW t \in Threads, _invalid(t)
  PROVE  IInv'
<1>1. calls[t].pc = "done" /\ Away(t) /\ run[t].pc \in WithEntry
  BY IsAway DEF _invalid, Answered, At, Doing, WithEntry
<1>2. CASE run' = [run EXCEPT ![t].pc = "probe"] /\ UNCHANGED registryVars
  BY <1>1, <1>2, GoesStep DEF Quiet
<1>3. CASE Reloads(t, "reloaded_any")
  BY <1>1, <1>3, ReloadsStep
<1>4. CASE Returns(t)
  BY <1>1, <1>4, ReturnsStep
<1> QED BY <1>2, <1>3, <1>4 DEF _invalid

LEMMA concurrentStep ==
  ASSUME IInv, NEW t \in Threads, concurrent_revision(t) \/ reuse(t)
  PROVE  IInv'
<1>1. Away(t)
  BY IsAway DEF concurrent_revision, reuse, Answered, At
<1>2. Retries(t) \/ Returns(t)
  BY DEF concurrent_revision, reuse
<1> QED BY <1>1, <1>2, RetriesStep, ReturnsStep

\* A configuration is at hand and the registry is asked for one that is active already.
LEMMA ChecksStep ==
  ASSUME IInv, NEW t \in Threads, run[t].pc \in Quiet, Lookup(t), NEW c \in Configs,
         run' = [run EXCEPT ![t].pc = "checked", ![t].config = c]
  PROVE  IInv'
<1> DEFINE r == [run[t] EXCEPT !.pc = "checked", !.config = c]
<1>1. run[t] \in Run /\ run \in [Threads -> Run]
  BY Mine DEF IInv, Types
<1>2. run' = [run EXCEPT ![t] = r]
  BY <1>1
<1>3. r \in Run /\ r.pc = "checked" /\ r.config = c
  BY <1>1 DEF Run, Waiting, WithConfig
<1> HIDE DEF r
<1> QED BY <1>2, <1>3, IsAway, LookupStep

LEMMA fromProbeStep ==
  ASSUME IInv, NEW t \in Threads, _from_probe(t)
  PROVE  IInv'
<1>1. run[t].pc \in Quiet /\ Away(t)
  BY IsAway DEF _from_probe, Doing, Quiet
<1>2. CASE Returns(t)
  BY <1>1, <1>2, ReturnsStep
<1>3. ASSUME NEW c \in _materialize(run[t].url), Lookup(t),
             run' = [run EXCEPT ![t].pc = "checked", ![t].config = c]
      PROVE  IInv'
  BY <1>1, <1>3, ChecksStep DEF _materialize
<1> QED BY <1>2, <1>3 DEF _from_probe

LEMMA checkExistingStep ==
  ASSUME IInv, NEW t \in Threads, check_existing(t)
  PROVE  IInv'
<1>1. calls[t].pc = "done" /\ Away(t) /\ run[t].config \in Configs
  BY IsAway, Mine DEF check_existing, Answered, At, Doing, WithConfig, CallOK
<1>2. CASE Ask(t, Query("register", run[t].config, 0, NONE), "registered")
  <2> DEFINE c == run[t].config
             request == Query("register", c, 0, NONE)
  <2>1. c \in Configs /\ Ask(t, request, "registered")
    BY <1>1, <1>2
  <2> HIDE DEF c
  <2>2. request \in Request /\ request.config \in Configs
    BY <2>1, Names, QueryRequest
  <2>3. "registered" \in Waiting /\ "registered" \notin WithEntry
    BY DEF Waiting, WithEntry, WithConfig
  <2> HIDE DEF request
  <2> QED BY <1>1, <2>1, <2>2, <2>3, AskStep
<1>3. CASE Conflicts(t)
  BY <1>1, <1>3, ConflictsStep
<1>4. CASE Returns(t)
  BY <1>1, <1>4, ReturnsStep
<1> QED BY <1>2, <1>3, <1>4 DEF check_existing

LEMMA registerStep ==
  ASSUME IInv, NEW t \in Threads, _register(t)
  PROVE  IInv'
<1>1. calls[t].pc = "done" /\ Away(t) /\ run[t].pc \in WithConfig
  BY IsAway DEF _register, Answered, At, Doing, WithConfig
<1>2. CASE /\ Answer(t).kind = "entry"
           /\ Ask(t, Query("load_exact", Answer(t).config, Answer(t).version, "active"), "final")
  BY <1>1, <1>2, ExactStep
<1>3. CASE Conflicts(t)
  BY <1>1, <1>3, ConflictsStep
<1>4. CASE Returns(t)
  BY <1>1, <1>4, ReturnsStep
<1> QED BY <1>2, <1>3, <1>4 DEF _register

LEMMA registeredStep ==
  ASSUME IInv, NEW t \in Threads, registered(t) \/ administered(t)
  PROVE  IInv'
<1>1. Away(t)
  BY IsAway DEF registered, administered, Answered, At
<1>2. Conflicts(t) \/ Returns(t)
  BY DEF registered, administered
<1> QED BY <1>1, <1>2, ConflictsStep, ReturnsStep

\* confirm and cancel begin by looking at the token; it may turn out to have run out.
LEMMA confirmStep ==
  ASSUME IInv, NEW t \in Threads, NEW k \in Tokens, NEW o \in Overrides \cup {NONE},
         pending \in [Tokens -> Pending], confirm(t, k, o) \/ cancel(t, k)
  PROVE  IInv'
<1> DEFINE url == pending[k].url
           asks == [NoRun EXCEPT !.pc = "token", !.task = "confirm", !.token = k,
                                 !.url = url, !.overrides = o]
           gives == [NoRun EXCEPT !.pc = "cancel", !.task = "cancel", !.token = k]
<1>1. url \in Urls \cup {NONE}
  BY DEF Pending
<1>2. /\ run[t].pc \in Quiet /\ UNCHANGED registryVars
      /\ \/ run' = [run EXCEPT ![t] = asks]
         \/ run' = [run EXCEPT ![t] = gives]
         \/ run' = run
  BY DEF confirm, cancel, Doing, Quiet
<1> HIDE DEF url
<1>3. asks \in Run /\ asks.pc \in Quiet /\ gives \in Run /\ gives.pc \in Quiet
  BY <1>1, Plain DEF Run, Quiet
<1> HIDE DEF asks, gives
<1>4. run[t] \in Run /\ run \in [Threads -> Run]
  BY Mine DEF IInv, Types
<1>5. run' = run => run' = [run EXCEPT ![t] = run[t]]
  BY <1>4
<1> QED BY <1>2, <1>3, <1>4, <1>5, RunStep DEF Keeps, registryVars

LEMMA tokenLockStep ==
  ASSUME IInv, NEW t \in Threads, token_lock(t)
  PROVE  IInv'
BY GoesStep DEF token_lock, Doing, Quiet

LEMMA confirmLockedStep ==
  ASSUME IInv, NEW t \in Threads, pending \in [Tokens -> Pending], confirm_locked(t),
         run[t].token \in Tokens, \A k \in Tokens : pending[k].state # "unused" => pending[k].config \in Configs
  PROVE  IInv'
<1> DEFINE c == pending[run[t].token].config
<1>1. run[t].pc \in Quiet /\ Away(t)
  BY IsAway DEF confirm_locked, Doing, Quiet
<1>2. CASE Returns(t)
  BY <1>1, <1>2, ReturnsStep
<1>3. CASE /\ pending[run[t].token].state = "live"
           /\ run' = [run EXCEPT ![t].pc = "reprobe", ![t].config = c] /\ UNCHANGED registryVars
  <2> DEFINE r == [run[t] EXCEPT !.pc = "reprobe", !.config = c]
  <2>1. c \in Configs /\ run[t] \in Run /\ run \in [Threads -> Run]
    BY <1>3, Mine DEF IInv, Types
  <2> HIDE DEF c
  <2>2. run' = [run EXCEPT ![t] = r]
    BY <1>3, <2>1
  <2>3. r \in Run /\ r.pc \in Quiet
    BY <2>1 DEF Run, Quiet
  <2> HIDE DEF r
  <2> QED BY <1>1, <1>3, <2>2, <2>3, RunStep DEF Keeps, registryVars
<1>4. CASE /\ pending[run[t].token].state = "live"
           /\ Lookup(t) /\ run' = [run EXCEPT ![t].pc = "checked", ![t].config = c]
  <2>1. c \in Configs
    BY <1>4
  <2> HIDE DEF c
  <2> QED BY <1>1, <1>4, <2>1, ChecksStep
<1> QED BY <1>2, <1>3, <1>4 DEF confirm_locked

LEMMA confirmOverridesStep ==
  ASSUME IInv, NEW t \in Threads, confirm_overrides(t)
  PROVE  IInv'
<1>1. run[t].pc \in Quiet /\ Away(t)
  BY IsAway DEF confirm_overrides, Doing, Quiet
<1>2. CASE Returns(t)
  BY <1>1, <1>2, ReturnsStep
<1>3. ASSUME NEW c \in _materialize(run[t].url), Lookup(t),
             run' = [run EXCEPT ![t].pc = "checked", ![t].config = c]
      PROVE  IInv'
  BY <1>1, <1>3, ChecksStep DEF _materialize
<1> QED BY <1>2, <1>3 DEF confirm_overrides

LEMMA popStep ==
  ASSUME IInv, NEW t \in Threads, pop(t) \/ cancel_locked(t)
  PROVE  IInv'
<1>1. run[t].pc \in Quiet /\ UNCHANGED registryVars /\ run' = [run EXCEPT ![t] = NoRun]
  BY DEF pop, cancel_locked, Doing, Quiet
<1>2. NoRun \in Run /\ NoRun.pc \in Quiet
  BY Plain DEF Quiet
<1> QED BY <1>1, <1>2, RunStep DEF Keeps, registryVars

LEMMA administerStep ==
  ASSUME IInv, NEW t \in Threads, NEW op \in {"mark_revoked", "unrevoke"}, NEW c \in Configs,
         administer(t, op, c)
  PROVE  IInv'
<1> DEFINE request == Query(op, c, 0, NONE)
<1>1. Away(t) /\ Ask(t, request, "administered")
  BY IsAway DEF administer, Doing, Quiet
<1>2. request \in Request /\ request.config \in Configs
  BY Names, QueryRequest
<1>3. "administered" \in Waiting /\ "administered" \notin WithEntry /\ "administered" \notin WithConfig
  BY DEF Waiting, WithEntry, WithConfig
<1> HIDE DEF request
<1> QED BY <1>1, <1>2, <1>3, AskStep

-----------------------------------------------------------------------------
(* The registry: the holder of the lock. *)

LEMMA Holding ==
  ASSUME IInv, NEW t \in Threads, calls[t].pc \in InLock
  PROVE  /\ lock = t /\ WorkInv(t) /\ Types /\ FilesInv /\ work \in Work
         /\ \A c \in Configs : Revisions(c) \in 0 .. MaxFiles
<1>1. lock = t /\ WorkInv(t) /\ Types /\ FilesInv /\ work \in Work
  BY Mine DEF IInv, WorksInv, Types
<1>2. ASSUME NEW c \in Configs PROVE Revisions(c) \in 0 .. MaxFiles
  <2>1. work.history[c] \in Seq(ConfigStatus)
    BY <1>1 DEF Work
  <2>2. Len(work.history[c]) \in Nat
    BY <2>1, LenProperties
  <2> QED BY <1>1, <2>2, Names DEF WorkInv, Revisions
<1> QED BY <1>1, <1>2

\* Only the holder's work is relied on.
LEMMA HolderStep ==
  ASSUME NEW t \in Threads, Types', CallsInv', FilesInv', lock' \in {t, NONE}, WorkInv(t)'
  PROVE  IInv'
<1>1. ASSUME NEW u \in Threads, u # t PROVE WorkInv(u)'
  <2>1. lock' # u
    BY <1>1, Names
  <2>2. calls'[u].pc \notin InLock
    BY <2>1 DEF CallsInv
  <2> QED BY <2>1, <2>2 DEF WorkInv, InLock
<1> QED BY <1>1 DEF IInv, WorksInv

\* The holder, or a thread that waits, goes on to pc and asks for the same.
LEMMA GotoStep ==
  ASSUME IInv, NEW t \in Threads, calls[t].pc \in InLock \cup {"lock"}, NEW pc \in InLock,
         Goto(t, pc), lock' = t, lock \in {t, NONE}, UNCHANGED run
  PROVE  /\ CallsInv' /\ calls' \in [Threads -> Call] /\ calls'[t].pc = pc
         /\ calls'[t].request = calls[t].request
         /\ run' \in [Threads -> Run]
<1>1. calls \in [Threads -> Call] /\ calls' = [calls EXCEPT ![t].pc = pc] /\ run \in [Threads -> Run]
  BY DEF IInv, Types, Goto
<1>2. /\ calls'[t].pc = pc /\ calls'[t].request = calls[t].request
      /\ calls'[t].result = calls[t].result
      /\ \A u \in Threads \ {t} : calls'[u] = calls[u]
  BY <1>1 DEF Call
<1>3. calls' \in [Threads -> Call]
  BY <1>1, PcFacts DEF Call
<1>4. CallOK(calls'[t], run'[t])
  <2>1. CallOK(calls[t], run[t]) /\ calls[t].pc \notin {"idle", "done"} /\ pc \notin {"idle", "done"}
    BY Mine DEF InLock
  <2> QED BY <1>2, <2>1 DEF CallOK
<1>5. ASSUME NEW u \in Threads PROVE (calls'[u].pc \in InLock <=> lock' = u) /\ CallOK(calls'[u], run'[u])
  <2>1. CASE u = t
    BY <1>2, <1>4, <2>1
  <2>2. CASE u # t
    BY <1>2, <2>2, Names DEF IInv, CallsInv
  <2> QED BY <2>1, <2>2
<1> QED BY <1>1, <1>2, <1>3, <1>5 DEF CallsInv

LEMMA RaisesResult ==
  ASSUME NEW kind \in {"missing", "conflict", "error", "value", "io"}
  PROVE  /\ [NoResult EXCEPT !.kind = kind] \in Result
         /\ [NoResult EXCEPT !.kind = kind].kind # "entry"
BY Plain DEF Result

LEMMA NoWorkFacts == NoWork \in Work /\ \A c \in Configs : Len(NoWork.history[c]) = 0
BY DEF NoWork, Work, NoHistory

\* The operation ends: what the files and the manifest say holds by itself.
LEMMA EndsStep ==
  ASSUME IInv, NEW t \in Threads, lock = t, NEW result \in Result, Ends(t, result),
         result.kind = "entry" => result.config \in Configs, UNCHANGED run,
         files' \in [Configs -> [Versions -> FileState]],
         manifest' \in [state : {"absent", "ok", "damaged"}, high : [Configs -> 0 .. MaxFiles]],
         damaged' \in 0 .. MaxDamage, FilesInv'
  PROVE  IInv'
<1> DEFINE call == [pc |-> "done", request |-> NoRequest, result |-> result]
<1>1. calls' = [calls EXCEPT ![t] = call] /\ lock' = NONE /\ work' = NoWork
  BY DEF Ends
<1>2. call \in Call /\ call.pc = "done" /\ call.request = NoRequest /\ call.result = result
  BY Plain, PcFacts DEF Call
<1> HIDE DEF call
<1>3. calls \in [Threads -> Call] /\ run \in [Threads -> Run]
  BY DEF IInv, Types
<1>4. Types'
  BY <1>1, <1>2, <1>3, NoWorkFacts DEF Types
<1>5. CallOK(call, run[t])
  BY <1>2, Mine, Plain DEF CallOK
<1>6. ASSUME NEW u \in Threads PROVE (calls'[u].pc \in InLock <=> lock' = u) /\ CallOK(calls'[u], run'[u])
  <2>1. CASE u = t
    BY <1>1, <1>2, <1>3, <1>5, <2>1, PcFacts, Names
  <2>2. CASE u # t
    BY <1>1, <1>3, <2>2, Names DEF IInv, CallsInv
  <2> QED BY <2>1, <2>2
<1>7. WorkInv(t)'
  BY <1>1, <1>2, <1>3, Names DEF WorkInv
<1> QED BY <1>1, <1>4, <1>6, <1>7, HolderStep DEF CallsInv

LEMMA RaisesStep ==
  ASSUME IInv, NEW t \in Threads, lock = t,
         NEW kind \in {"missing", "conflict", "error", "value", "io"}, Raises(t, kind),
         files' \in [Configs -> [Versions -> FileState]],
         UNCHANGED <<run, manifest, damaged>>, FilesInv'
  PROVE  IInv'
<1> DEFINE result == [NoResult EXCEPT !.kind = kind]
<1>1. result \in Result /\ result.kind # "entry" /\ Ends(t, result)
  BY RaisesResult DEF Raises
<1> HIDE DEF result
<1>2. /\ manifest' \in [state : {"absent", "ok", "damaged"}, high : [Configs -> 0 .. MaxFiles]]
      /\ damaged' \in 0 .. MaxDamage
  BY DEF IInv, Types
<1> QED BY <1>1, <1>2, EndsStep

LEMMA FilesStay ==
  ASSUME FilesInv, UNCHANGED <<files, manifest, damaged>>
  PROVE  FilesInv'
BY DEF FilesInv, Chained, OneBehind, Intact, Whole, Extra, Alive, High

\* Moving damaged files away makes nobody believe another history.
LEMMA MovesDamaged ==
  ASSUME Types, FilesInv, NEW S, durable_move(S), UNCHANGED <<manifest, damaged>>,
         \A c \in Configs, v \in Versions : <<c, v>> \in S => files[c][v] = "damaged"
  PROVE  files' \in [Configs -> [Versions -> FileState]] /\ FilesInv'
<1>1. files \in [Configs -> [Versions -> FileState]]
  BY DEF Types
<1>2. files' = [c \in Configs |-> [v \in Versions |-> IF <<c, v>> \in S THEN "absent" ELSE files[c][v]]]
  BY DEF durable_move
<1>3. \A c \in Configs, v \in Versions :
        files'[c][v] = IF <<c, v>> \in S THEN "absent" ELSE files[c][v]
  BY <1>2
<1>4. files' \in [Configs -> [Versions -> FileState]]
  BY <1>1, <1>2 DEF FileState
<1>5. \A c \in Configs, v \in Versions : files'[c][v] # files[c][v] =>
        files[c][v] = "damaged" /\ files'[c][v] = "absent"
  BY <1>3
<1>6. "damaged" \notin ConfigStatus /\ "absent" \notin ConfigStatus
  BY DEF ConfigStatus
<1>7. Chained'
  <2> SUFFICES ASSUME NEW c \in Configs, NEW v \in Versions, Alive(c, v)',
                      v # 1 => Alive(c, v - 1)'
               PROVE  IF v = 1 THEN files'[c][v] = "active"
                      ELSE files'[c][v] \in History!CanFollow(files'[c][v - 1])
    BY DEF Chained
  <2>1. Alive(c, v) /\ files'[c][v] = files[c][v]
    BY <1>5, <1>6 DEF Alive
  <2>2. v # 1 => v - 1 \in Versions
    BY Names DEF Versions
  <2>3. v # 1 => Alive(c, v - 1) /\ files'[c][v - 1] = files[c][v - 1]
    BY <1>5, <1>6, <2>2 DEF Alive
  <2> QED BY <2>1, <2>3 DEF FilesInv, Chained
<1>8. manifest.state = "ok" => OneBehind'
  BY <1>5 DEF FilesInv, OneBehind, Extra, High
<1>9. (\A c \in Configs, v \in Versions : files[c][v] # "damaged") => files' = files
  BY <1>1, <1>4, <1>5
<1>10. MaxDamage <= 1 /\ manifest.state # "ok" => Intact'
  <2>1. SUFFICES ASSUME Intact PROVE Intact'
    BY DEF FilesInv
  <2>2. \A c \in Configs, v \in Versions : files[c][v] # "damaged"
    BY <1>6, <2>1 DEF Intact, Alive
  <2> QED BY <1>9, <2>1, <2>2 DEF Intact, Alive
<1>11. damaged = 0 => manifest.state = "ok" /\ Whole'
  <2>1. SUFFICES ASSUME manifest.state = "ok", Whole PROVE Whole'
    BY DEF FilesInv
  <2> QED BY <1>9, <2>1 DEF Whole, High
<1> QED BY <1>4, <1>7, <1>8, <1>10, <1>11 DEF FilesInv

-----------------------------------------------------------------------------
(* Taking the lock: what the scan makes of the files. *)

LEMMA Counted ==
  ASSUME Types, NEW c \in Configs
  PROVE  /\ Present(c) \subseteq Versions /\ IsFiniteSet(Present(c))
         /\ Cardinality(Present(c)) \in 0 .. MaxFiles
<1>1. Present(c) \in SUBSET Versions
  BY DEF Present
<1>2. IsFiniteSet(Versions) /\ Cardinality(Versions) = MaxFiles
  BY FS_Interval, Names, 1 \in Int, MaxFiles \in Int DEF Versions
<1>3. IsFiniteSet(Present(c)) /\ Cardinality(Present(c)) <= MaxFiles
  BY <1>1, <1>2, FS_Subset
<1> QED BY <1>1, <1>3, FS_CardinalityType, Names

LEMMA Numbered ==
  ASSUME Types, NEW c \in Configs, NEW n \in 0 .. MaxFiles, Present(c) = 1 .. n
  PROVE  Cardinality(Present(c)) = n
<1>1. n \in Int /\ n >= 0
  BY Names
<1>2. Cardinality(1 .. n) = n
  BY <1>1, FS_Interval
<1> QED BY <1>2

LEMMA ScanFacts ==
  ASSUME Types, NEW high \in [Configs -> 0 .. MaxFiles], NEW scan,
         scan = _scan_revision_files(high), NEW c \in Configs
  PROVE  /\ scan.history[c] \in Seq(ConfigStatus) /\ Len(scan.history[c]) \in 0 .. MaxFiles
         /\ Len(scan.history[c]) # 0 => high[c] <= Len(scan.history[c])
         /\ \A v \in Versions :
              /\ IF v <= Len(scan.history[c]) THEN files[c][v] = scan.history[c][v]
                 ELSE files[c][v] # "absent" => <<c, v>> \in scan.corrupt \cup scan.broken
              /\ <<c, v>> \in scan.corrupt \cup scan.broken =>
                   Len(scan.history[c]) = 0 /\ Present(c) # {} /\ Invalid(c, high)
<1> DEFINE invalid == {d \in Configs : Present(d) # {} /\ Invalid(d, high)}
           n == Cardinality(Present(c))
<1>1. /\ scan.history[c] = IF c \in invalid THEN <<>> ELSE [v \in 1 .. n |-> files[c][v]]
      /\ \A v \in Versions : <<c, v>> \in scan.corrupt <=> v \in Bad(c)
      /\ \A v \in Versions : <<c, v>> \in scan.broken <=> c \in invalid /\ v \in Present(c) \ Bad(c)
  BY DEF _scan_revision_files
<1>2. n \in 0 .. MaxFiles /\ n \in Nat /\ files \in [Configs -> [Versions -> FileState]]
  BY Counted, Names DEF Types
<1>3. \A v \in Versions : /\ v \in Present(c) <=> files[c][v] # "absent"
                          /\ v \in Bad(c) <=> files[c][v] = "damaged"
  BY DEF Present, Bad
<1>4. c \in invalid <=> Present(c) # {} /\ Invalid(c, high)
  OBVIOUS
<1>5. CASE c \in invalid
  <2>1. scan.history[c] = <<>> /\ <<>> \in Seq(ConfigStatus) /\ Len(<<>>) = 0
    BY <1>1, <1>5
  <2>2. 0 \in 0 .. MaxFiles /\ \A v \in Versions : ~(v <= 0)
    BY Names DEF Versions
  <2>3. \A v \in Versions : files[c][v] # "absent" => <<c, v>> \in scan.corrupt \cup scan.broken
    BY <1>1, <1>3, <1>5
  <2>4. Present(c) # {} /\ Invalid(c, high)
    BY <1>5
  <2> HIDE DEF n, invalid
  <2> QED BY <2>1, <2>2, <2>3, <2>4
<1>6. CASE c \notin invalid
  <2>1. Present(c) = 1 .. n
    <3>1. CASE Present(c) = {}
      BY <3>1, FS_EmptySet
    <3>2. CASE ~Invalid(c, high)
      BY <3>2 DEF Invalid
    <3> QED BY <1>4, <1>6, <3>1, <3>2
  <2>2. Bad(c) = {}
    <3>1. CASE Present(c) = {}
      BY <1>3, <3>1 DEF Bad
    <3>2. CASE ~Invalid(c, high)
      BY <3>2 DEF Invalid
    <3> QED BY <1>4, <1>6, <3>1, <3>2
  <2>3. scan.history[c] = [v \in 1 .. n |-> files[c][v]]
    BY <1>1, <1>6
  <2>4. \A v \in 1 .. n : v \in Versions /\ files[c][v] \in ConfigStatus
    BY <1>2, <1>3, <2>1, <2>2, Counted DEF FileState
  <2>5. n # 0 => high[c] <= n
    <3>1. n # 0 => Present(c) # {}
      BY FS_EmptySet
    <3>2. high[c] \in Nat /\ (Present(c) # {} => ~(n < high[c]))
      BY <1>4, <1>6, Names DEF Invalid
    <3> HIDE DEF n
    <3> QED BY <1>2, <3>1, <3>2
  <2> HIDE DEF n
  <2>6. scan.history[c] \in Seq(ConfigStatus) /\ Len(scan.history[c]) = n
    BY <1>2, <2>3, <2>4
  <2>7. \A v \in Versions : v <= n => files[c][v] = scan.history[c][v]
    <3>1. \A v \in Versions : v <= n => v \in 1 .. n
      BY <1>2, Names DEF Versions
    <3> QED BY <2>3, <3>1
  <2>8. \A v \in Versions : ~(v <= n) => files[c][v] = "absent"
    BY <1>2, <1>3, <2>1
  <2>9. \A v \in Versions : <<c, v>> \notin scan.corrupt \cup scan.broken
    BY <1>1, <1>6, <2>2
  <2> QED BY <1>2, <2>5, <2>6, <2>7, <2>8, <2>9
<1> QED BY <1>5, <1>6

LEMMA ScanWork ==
  ASSUME Types, NEW high \in [Configs -> 0 .. MaxFiles]
  PROVE  _scan_revision_files(high) \in Work
<1> DEFINE scan == _scan_revision_files(high)
<1>1. \A c \in Configs : scan.history[c] \in Seq(ConfigStatus)
  <2> TAKE c \in Configs
  <2> HIDE DEF scan
  <2>1. scan = _scan_revision_files(high)
    BY DEF scan
  <2> QED BY <2>1, ScanFacts
<1>2. scan = [history |-> [c \in Configs |-> scan.history[c]], corrupt |-> scan.corrupt,
              broken |-> scan.broken, missing |-> scan.missing]
  BY DEF _scan_revision_files
<1>3. /\ scan.corrupt \in SUBSET (Configs \X Versions)
      /\ scan.broken \in SUBSET (Configs \X Versions) /\ scan.missing \in BOOLEAN
  BY DEF _scan_revision_files
<1> HIDE DEF scan
<1>4. scan \in Work
  BY <1>1, <1>2, <1>3 DEF Work
<1> QED BY <1>4 DEF scan

\* Where nothing has been damaged, and where the manifest alone is lost, the scan finds
\* nothing to move.
LEMMA Sound ==
  ASSUME Types, FilesInv, damaged = 0 \/ (MaxDamage <= 1 /\ manifest.state # "ok"),
         NEW c \in Configs, Present(c) # {}
  PROVE  ~Invalid(c, ManifestHigh)
<1>1. CASE manifest.state = "ok"
  <2>1. damaged = 0 /\ Whole /\ OneBehind /\ High(c) \in 0 .. MaxFiles /\ ManifestHigh[c] = High(c)
    BY <1>1 DEF FilesInv, Types, High, ManifestHigh
  <2>2. Bad(c) = {}
    BY <2>1 DEF Bad, Whole
  <2>3. \A v \in Versions : v <= High(c) => v \in Present(c)
    BY <2>1 DEF Whole, Present
  <2>4. \A v \in Present(c) : v <= High(c) \/ v = High(c) + 1
    BY <2>1, Names DEF OneBehind, Extra, Present
  <2>5. PICK n \in 0 .. MaxFiles : Present(c) = 1 .. n /\ High(c) <= n
    <3>1. CASE High(c) + 1 \in Present(c)
      <4> DEFINE n == High(c) + 1
      <4>1. n \in 0 .. MaxFiles /\ High(c) <= n /\ n \in Nat
        BY <2>1, <3>1, Names DEF Present
      <4>2. Present(c) = 1 .. n
        <5>1. \A v \in Present(c) : v \in 1 .. n
          BY <2>1, <2>4, Names DEF Present, Versions
        <5>2. \A v \in 1 .. n : v \in Present(c)
          <6>1. \A v \in 1 .. n : v \in Versions /\ (v <= High(c) \/ v = High(c) + 1)
            BY <2>1, <4>1, Names DEF Versions
          <6> QED BY <2>3, <3>1, <6>1
        <5> QED BY <5>1, <5>2
      <4> HIDE DEF n
      <4> QED BY <4>1, <4>2
    <3>2. CASE High(c) + 1 \notin Present(c)
      <4> DEFINE n == High(c)
      <4>1. n \in 0 .. MaxFiles /\ High(c) <= n /\ n \in Nat
        BY <2>1, Names
      <4>2. Present(c) = 1 .. n
        <5>1. \A v \in Present(c) : v \in 1 .. n
          BY <2>1, <2>4, <3>2, Names DEF Present, Versions
        <5>2. \A v \in 1 .. n : v \in Present(c)
          <6>1. \A v \in 1 .. n : v \in Versions /\ v <= High(c)
            BY <2>1, <4>1, Names DEF Versions
          <6> QED BY <2>3, <6>1
        <5> QED BY <5>1, <5>2
      <4> HIDE DEF n
      <4> QED BY <4>1, <4>2
    <3> QED BY <3>1, <3>2
  <2>6. Cardinality(Present(c)) = n
    BY <2>5, Numbered
  <2>7. n \in Nat /\ High(c) \in Nat
    BY <2>1, Names
  <2> QED BY <2>1, <2>2, <2>5, <2>6, <2>7 DEF Invalid
<1>2. CASE manifest.state # "ok"
  <2>1. Intact /\ ManifestHigh[c] = 0
    BY <1>2 DEF FilesInv, ManifestHigh, NoVersions
  <2>2. PICK n \in 0 .. MaxFiles : \A v \in Versions :
          IF v <= n THEN Alive(c, v) ELSE files[c][v] = "absent"
    BY <2>1 DEF Intact
  <2>3. \A v \in Versions : (v \in Present(c) <=> v <= n) /\ v \notin Bad(c)
    BY <2>2 DEF Present, Bad, Alive, ConfigStatus
  <2>4. Present(c) = 1 .. n /\ Bad(c) = {}
    <3>1. \A v \in 1 .. n : v \in Versions /\ v <= n
      BY <2>2, Names DEF Versions
    <3>2. \A v \in Present(c) : v \in Versions
      BY DEF Present
    <3>3. \A v \in Present(c) : v \in 1 .. n
      BY <2>3, <3>2, Names DEF Versions
    <3>4. \A v \in 1 .. n : v \in Present(c)
      BY <2>3, <3>1
    <3>5. Bad(c) = {}
      BY <2>3 DEF Bad
    <3> QED BY <3>3, <3>4, <3>5
  <2>5. Cardinality(Present(c)) = n
    BY <2>4, Numbered
  <2>6. n \in Nat
    BY <2>2, Names
  <2> QED BY <2>1, <2>4, <2>5, <2>6 DEF Invalid
<1> QED BY <1>1, <1>2

LEMMA globalLockStep ==
  ASSUME IInv, NEW t \in Threads, _global_lock(t), UNCHANGED run
  PROVE  IInv'
<1> DEFINE high == ManifestHigh
           scan == _scan_revision_files(high)
           other == IF manifest.state = "damaged" THEN [state |-> "absent", high |-> NoVersions]
                    ELSE manifest
<1>1. /\ calls[t].pc = "lock" /\ lock = NONE /\ lock' = t /\ Goto(t, "quarantine")
      /\ manifest' = other /\ work' = scan /\ UNCHANGED <<files, damaged>>
  BY DEF _global_lock, At, _validate_or_quarantine_manifest, atomic_write
<1>2. Types /\ FilesInv
  BY DEF IInv
<1>3. high \in [Configs -> 0 .. MaxFiles]
  BY <1>2, Names DEF Types, ManifestHigh, NoVersions
<1>4. \A c \in Configs : manifest.state = "ok" => high[c] = High(c)
  BY DEF ManifestHigh, High
<1>5. ASSUME damaged = 0 \/ (MaxDamage <= 1 /\ manifest.state # "ok"), NEW c \in Configs, Present(c) # {}
      PROVE  ~Invalid(c, high)
  BY <1>2, <1>5, Sound
<1> HIDE DEF high
<1>6. scan \in Work
  BY <1>2, <1>3, ScanWork
<1>7. ASSUME NEW c \in Configs
      PROVE  /\ Len(scan.history[c]) \in 0 .. MaxFiles
             /\ Len(scan.history[c]) # 0 => high[c] <= Len(scan.history[c])
             /\ \A v \in Versions :
                  /\ IF v <= Len(scan.history[c]) THEN files[c][v] = scan.history[c][v]
                     ELSE files[c][v] # "absent" => <<c, v>> \in scan.corrupt \cup scan.broken
                  /\ <<c, v>> \in scan.corrupt \cup scan.broken =>
                       Len(scan.history[c]) = 0 /\ Present(c) # {} /\ Invalid(c, high)
  BY <1>2, <1>3, ScanFacts
<1> HIDE DEF scan
<1>8. /\ manifest.state = "ok" => other = manifest
      /\ other.state = "ok" <=> manifest.state = "ok"
      /\ other \in [state : {"absent", "ok", "damaged"}, high : [Configs -> 0 .. MaxFiles]]
  BY <1>2, Names DEF Types, NoVersions
<1> HIDE DEF other
<1>9. /\ CallsInv' /\ calls' \in [Threads -> Call] /\ calls'[t].pc = "quarantine" /\ run' \in [Threads -> Run]
  BY <1>1, GotoStep DEF InLock
<1>10. Types'
  BY <1>1, <1>2, <1>6, <1>8, <1>9 DEF Types
<1>11. FilesInv'
  <2>1. Chained' /\ (Intact => Intact') /\ damaged' = damaged
    BY <1>1, <1>2 DEF FilesInv, Chained, Intact, Alive
  <2>2. manifest.state = "ok" => (OneBehind => OneBehind') /\ (Whole => Whole')
    BY <1>1, <1>8 DEF OneBehind, Whole, Extra, High
  <2> QED BY <1>1, <1>2, <1>8, <2>1, <2>2 DEF FilesInv
<1>12. WorkInv(t)'
  <2>1. \A c \in Configs : Revisions(c)' = Len(scan.history[c])
    BY <1>1 DEF Revisions
  <2>2. ToMove' = scan.corrupt \cup scan.broken /\ ToMove' \subseteq Configs \X Versions
    BY <1>1, <1>6 DEF ToMove, Work
  <2>3. \A c \in Configs : Revisions(c)' <= MaxFiles
    BY <1>7, <2>1, Names
  <2>4. ASSUME manifest'.state = "ok", NEW c \in Configs, Revisions(c)' # 0
        PROVE  High(c)' <= Revisions(c)'
    BY <1>1, <1>4, <1>7, <1>8, <2>1, <2>4 DEF High
  <2>5. ASSUME damaged' = 0 \/ (MaxDamage <= 1 /\ manifest'.state # "ok") PROVE ToMove' = {}
    <3>1. damaged = 0 \/ (MaxDamage <= 1 /\ manifest.state # "ok")
      BY <1>1, <1>8, <2>5
    <3>2. \A c \in Configs, v \in Versions : <<c, v>> \notin ToMove'
      BY <1>5, <1>7, <2>2, <3>1
    <3> QED BY <2>2, <3>2
  <2>6. ASSUME NEW c \in Configs, NEW v \in Versions
        PROVE  /\ IF v <= Revisions(c)' THEN files'[c][v] = work'.history[c][v]
                  ELSE files'[c][v] # "absent" => <<c, v>> \in ToMove'
               /\ <<c, v>> \in ToMove' => Revisions(c)' = 0
    <3>1. Revisions(c)' = Len(scan.history[c]) /\ work' = scan /\ files' = files
      BY <1>1, <2>1
    <3>2. /\ IF v <= Len(scan.history[c]) THEN files[c][v] = scan.history[c][v]
             ELSE files[c][v] # "absent" => <<c, v>> \in ToMove'
          /\ <<c, v>> \in ToMove' => Len(scan.history[c]) = 0
      BY <1>7, <2>2
    <3> QED BY <3>1, <3>2
  <2>7. Scanned'
    BY <2>4, <2>5, <2>6 DEF Scanned
  <2> QED BY <1>9, <2>3, <2>7 DEF WorkInv
<1> QED BY <1>1, <1>9, <1>10, <1>11, <1>12, HolderStep

-----------------------------------------------------------------------------
(* The quarantine and the end of the recovery. *)

LEMMA quarantineStep ==
  ASSUME IInv, NEW t \in Threads, _quarantine_path(t), UNCHANGED run
  PROVE  IInv'
<1>1. /\ calls[t].pc = "quarantine" /\ lock = t /\ WorkInv(t) /\ Types /\ FilesInv
      /\ work \in Work /\ CallsInv
  BY Holding DEF _quarantine_path, At, InLock, IInv
<1>2. PICK f \in ToMove : /\ durable_move({f})
                          /\ work' = [work EXCEPT !.corrupt = @ \ {f}, !.broken = @ \ {f}]
  BY DEF _quarantine_path, ToMove
<1>3. f \in Configs \X Versions
  BY <1>1, <1>2 DEF Work, ToMove
<1>4. Scanned /\ UNCHANGED <<manifest, lock, calls, damaged>>
  BY <1>1 DEF WorkInv, _quarantine_path
<1>5. /\ work' \in Work /\ work'.history = work.history
      /\ ToMove' = ToMove \ {f}
  BY <1>1, <1>2 DEF Work, ToMove
<1>6. files \in [Configs -> [Versions -> FileState]]
  BY <1>1 DEF Types
<1>7. /\ files' \in [Configs -> [Versions -> FileState]]
      /\ \A c \in Configs, v \in Versions :
           files'[c][v] = IF <<c, v>> = f THEN "absent" ELSE files[c][v]
  BY <1>2, <1>6 DEF durable_move, FileState
<1>8. Types'
  BY <1>1, <1>4, <1>5, <1>7 DEF Types
<1>9. CallsInv'
  BY <1>1, <1>4 DEF CallsInv
<1>10. damaged # 0 /\ (manifest.state = "ok" \/ ~(MaxDamage <= 1))
  BY <1>2, <1>4 DEF Scanned
<1>11. "absent" \notin ConfigStatus
  BY DEF ConfigStatus
<1>12. Chained'
  <2> SUFFICES ASSUME NEW c \in Configs, NEW v \in Versions, Alive(c, v)',
                      v # 1 => Alive(c, v - 1)'
               PROVE  IF v = 1 THEN files'[c][v] = "active"
                      ELSE files'[c][v] \in History!CanFollow(files'[c][v - 1])
    BY DEF Chained
  <2>1. Alive(c, v) /\ files'[c][v] = files[c][v]
    BY <1>7, <1>11 DEF Alive
  <2>2. v # 1 => v - 1 \in Versions
    BY Names DEF Versions
  <2>3. v # 1 => Alive(c, v - 1) /\ files'[c][v - 1] = files[c][v - 1]
    BY <1>7, <1>11, <2>2 DEF Alive
  <2> QED BY <1>1, <2>1, <2>3 DEF FilesInv, Chained
<1>13. manifest.state = "ok" => OneBehind'
  BY <1>1, <1>4, <1>7 DEF FilesInv, OneBehind, Extra, High
<1>14. FilesInv'
  BY <1>4, <1>10, <1>12, <1>13 DEF FilesInv
<1>15. \A c \in Configs : Revisions(c)' = Revisions(c)
  BY <1>5 DEF Revisions
<1>16. WorkInv(t)'
  <2>1. \A c \in Configs : Revisions(c)' \in 0 .. MaxFiles
    BY <1>1, <1>15, Holding DEF InLock
  <2>2. ASSUME NEW c \in Configs, NEW v \in Versions
        PROVE  /\ IF v <= Revisions(c)' THEN files'[c][v] = work'.history[c][v]
                  ELSE files'[c][v] # "absent" => <<c, v>> \in ToMove'
               /\ <<c, v>> \in ToMove' => Revisions(c)' = 0
    <3>1. /\ IF v <= Revisions(c) THEN files[c][v] = work.history[c][v]
             ELSE files[c][v] # "absent" => <<c, v>> \in ToMove
          /\ <<c, v>> \in ToMove => Revisions(c) = 0
      BY <1>4 DEF Scanned
    <3>2. <<c, v>> = f => ~(v <= Revisions(c))
      BY <1>2, <3>1, Names DEF Versions
    <3> QED BY <1>5, <1>7, <1>15, <3>1, <3>2
  <2>3. ASSUME manifest'.state = "ok", NEW c \in Configs, Revisions(c)' # 0
        PROVE  High(c)' <= Revisions(c)'
    BY <1>4, <1>15, <2>3 DEF Scanned, High
  <2>4. damaged' # 0 /\ ~(MaxDamage <= 1 /\ manifest'.state # "ok")
    BY <1>4, <1>10
  <2>5. Scanned'
    BY <2>2, <2>3, <2>4 DEF Scanned
  <2> QED BY <1>1, <1>4, <2>1, <2>5, Names DEF WorkInv
<1> QED BY <1>1, <1>4, <1>8, <1>9, <1>14, <1>16, HolderStep

\* A manifest written from the histories that were read names exactly what is there.
LEMMA Written ==
  ASSUME IInv, NEW t \in Threads, calls[t].pc \in InLock, Recovered \/ (Scanned /\ ToMove = {}),
         manifest' = Manifest(work.history), UNCHANGED <<files, damaged>>
  PROVE  /\ manifest' \in [state : {"absent", "ok", "damaged"}, high : [Configs -> 0 .. MaxFiles]]
         /\ manifest'.state = "ok" /\ \A c \in Configs : High(c)' = Revisions(c)
         /\ FilesInv'
         /\ Recovered
<1>1. \A c \in Configs : Revisions(c) \in 0 .. MaxFiles
  BY Holding
<1>2. /\ manifest' \in [state : {"absent", "ok", "damaged"}, high : [Configs -> 0 .. MaxFiles]]
      /\ manifest'.state = "ok" /\ \A c \in Configs : High(c)' = Revisions(c)
  BY <1>1 DEF Manifest, High, Revisions
<1>3. Recovered
  BY DEF Recovered, Scanned
<1>4. \A c \in Configs, v \in Versions : v <= Revisions(c) <=> files[c][v] # "absent"
  <2> SUFFICES ASSUME NEW c \in Configs, NEW v \in Versions
               PROVE  v <= Revisions(c) <=> files[c][v] # "absent"
    OBVIOUS
  <2>1. work.history[c] \in Seq(ConfigStatus)
    BY Holding DEF Work
  <2>2. v <= Revisions(c) => v \in 1 .. Len(work.history[c])
    BY <1>1, Names DEF Revisions, Versions
  <2>3. v <= Revisions(c) => work.history[c][v] \in ConfigStatus
    BY <2>1, <2>2, ElementOfSeq
  <2> QED BY <1>3, <2>3 DEF Recovered, ConfigStatus
<1>5. Chained'
  BY DEF IInv, FilesInv, Chained, Alive
<1>6. OneBehind'
  BY <1>2, <1>4, <1>1, Names DEF OneBehind, Extra
<1>7. damaged = 0 => Whole'
  BY <1>2, <1>4 DEF IInv, FilesInv, Whole
<1> QED BY <1>2, <1>3, <1>5, <1>6, <1>7 DEF FilesInv

LEMMA recoverStep ==
  ASSUME IInv, NEW t \in Threads, _recover(t), UNCHANGED run
  PROVE  IInv'
<1>1. /\ calls[t].pc = "quarantine" /\ calls[t].pc \in InLock /\ lock = t /\ WorkInv(t) /\ Types
      /\ FilesInv /\ work \in Work /\ CallsInv /\ UNCHANGED <<files, damaged>>
  BY Holding DEF _recover, At, InLock, IInv
<1>2. CASE Raises(t, "error") /\ UNCHANGED manifest
  <2>1. FilesInv'
    BY <1>1, <1>2, FilesStay
  <2>2. files' \in [Configs -> [Versions -> FileState]]
    BY <1>1 DEF Types
  <2> QED BY <1>1, <1>2, <2>1, <2>2, RaisesStep
<1>3. CASE manifest' = Manifest(work.history) /\ Goto(t, "op") /\ UNCHANGED <<lock, work>>
  <2>1. Scanned /\ ToMove = {}
    BY <1>1 DEF WorkInv, _recover, ToMove
  <2>2. /\ manifest' \in [state : {"absent", "ok", "damaged"}, high : [Configs -> 0 .. MaxFiles]]
        /\ manifest'.state = "ok" /\ \A c \in Configs : High(c)' = Revisions(c)
        /\ FilesInv' /\ Recovered
    BY <1>1, <1>3, <2>1, Written
  <2>3. CallsInv' /\ calls' \in [Threads -> Call] /\ calls'[t].pc = "op" /\ run' \in [Threads -> Run]
    BY <1>1, <1>3, GotoStep DEF InLock
  <2>4. Types'
    BY <1>1, <1>3, <2>2, <2>3 DEF Types
  <2>5. \A c \in Configs : Revisions(c)' = Revisions(c)
    BY <1>3 DEF Revisions
  <2>6. Recovered'
    BY <1>1, <1>3, <2>2, <2>5 DEF Recovered
  <2>7. WorkInv(t)'
    BY <1>1, <1>3, <2>2, <2>3, <2>5, <2>6 DEF WorkInv
  <2> QED BY <1>1, <1>3, <2>2, <2>3, <2>4, <2>7, HolderStep
<1> QED BY <1>2, <1>3 DEF _recover, atomic_write

-----------------------------------------------------------------------------
(* The operations. *)

LEMMA AtOp ==
  ASSUME IInv, NEW t \in Threads, At(t, "op")
  PROVE  /\ calls[t].pc = "op" /\ calls[t].pc \in InLock /\ lock = t /\ Types /\ FilesInv
         /\ Recovered /\ calls[t].request \in Request
         /\ manifest.state = "ok" => \A c \in Configs : High(c) = Revisions(c)
         /\ calls[t].request.op # "lookup" => calls[t].request.config \in Configs
         /\ files \in [Configs -> [Versions -> FileState]]
<1>1. calls[t].pc = "op" /\ calls[t].pc \in InLock
  BY DEF At, InLock
<1>2. lock = t /\ WorkInv(t) /\ Types /\ FilesInv
  BY <1>1, Holding
<1> QED BY <1>1, <1>2, Mine DEF WorkInv, CallOK, Types

LEMMA HistoryFacts ==
  ASSUME IInv, NEW t \in Threads, calls[t].pc \in InLock, NEW c \in Configs
  PROVE  /\ work.history[c] \in Seq(ConfigStatus)
         /\ Len(work.history[c]) = Revisions(c) /\ Revisions(c) \in 0 .. MaxFiles
         /\ Known(c) <=> Revisions(c) # 0
         /\ \A v \in 1 .. Revisions(c) : v \in Versions /\ work.history[c][v] \in ConfigStatus
<1>1. work.history[c] \in Seq(ConfigStatus) /\ Revisions(c) \in 0 .. MaxFiles
  BY Holding DEF Work
<1>2. Len(work.history[c]) = Revisions(c)
  BY DEF Revisions
<1>3. \A v \in 1 .. Revisions(c) : work.history[c][v] \in ConfigStatus
  BY <1>1, <1>2, ElementOfSeq
<1>4. Known(c) <=> Revisions(c) # 0
  BY <1>1, <1>2, EmptySeq DEF Known
<1>5. \A v \in 1 .. Revisions(c) : v \in Versions
  BY <1>1, Names DEF Versions
<1> QED BY <1>1, <1>2, <1>3, <1>4, <1>5

LEMMA EntryResult ==
  ASSUME IInv, NEW t \in Threads, calls[t].pc \in InLock, NEW c \in Configs,
         NEW v \in 1 .. Revisions(c)
  PROVE  LET e == Entry(c, v, work.history[c][v])
         IN e \in Result /\ e.kind = "entry" /\ e.config = c
<1>1. v \in Versions /\ v \in 0 .. MaxFiles /\ work.history[c][v] \in ConfigStatus
  BY HistoryFacts, Names
<1> QED BY <1>1 DEF Entry, Result

LEMMA LatestResult ==
  ASSUME IInv, NEW t \in Threads, calls[t].pc \in InLock, NEW c \in Configs, Revisions(c) # 0
  PROVE  EntryOf(c) \in Result /\ EntryOf(c).kind = "entry" /\ EntryOf(c).config = c
<1>1. Revisions(c) \in 1 .. Revisions(c)
  BY HistoryFacts, Names
<1>2. EntryOf(c) = Entry(c, Revisions(c), work.history[c][Revisions(c)])
  BY DEF EntryOf, Last, Revisions
<1> QED BY <1>1, <1>2, EntryResult

\* An operation that leaves the files as they are.
LEMMA AnswerStep ==
  ASSUME IInv, NEW t \in Threads, lock = t, NEW result \in Result, Ends(t, result),
         result.kind = "entry" => result.config \in Configs,
         UNCHANGED <<run, files, manifest, damaged>>
  PROVE  IInv'
<1>1. /\ files' \in [Configs -> [Versions -> FileState]]
      /\ manifest' \in [state : {"absent", "ok", "damaged"}, high : [Configs -> 0 .. MaxFiles]]
      /\ damaged' \in 0 .. MaxDamage
  BY DEF IInv, Types
<1>2. FilesInv'
  BY FilesStay DEF IInv
<1> QED BY <1>1, <1>2, EndsStep

LEMMA FailStep ==
  ASSUME IInv, NEW t \in Threads, lock = t,
         NEW kind \in {"missing", "conflict", "error", "value", "io"}, Raises(t, kind),
         UNCHANGED <<run, files, manifest, damaged>>
  PROVE  IInv'
<1> DEFINE result == [NoResult EXCEPT !.kind = kind]
<1>1. result \in Result /\ result.kind # "entry" /\ Ends(t, result)
  BY RaisesResult DEF Raises
<1> HIDE DEF result
<1> QED BY <1>1, AnswerStep

LEMMA lookupStep ==
  ASSUME IInv, NEW t \in Threads, lookup(t), UNCHANGED run
  PROVE  IInv'
<1> DEFINE unread == {c \in Actives : ~Readable(c, Len(work.history[c]))}
           moved == {<<c, Len(work.history[c])>> : c \in unread}
<1>1. At(t, "op") /\ UNCHANGED <<manifest, damaged>>
  BY DEF lookup
<1>2. calls[t].pc \in InLock /\ lock = t /\ Types /\ FilesInv
  BY <1>1, AtOp
<1>3. durable_move(moved)
  <2>1. Actives \ {c \in Actives : Readable(c, Len(work.history[c]))} = unread
    OBVIOUS
  <2> QED BY <2>1 DEF lookup
<1>4. \A c \in Configs, v \in Versions : <<c, v>> \in moved => files[c][v] = "damaged"
  BY DEF Readable
<1> HIDE DEF moved
<1>5. files' \in [Configs -> [Versions -> FileState]] /\ FilesInv'
  BY <1>1, <1>2, <1>3, <1>4, MovesDamaged
<1>6. CASE Raises(t, "missing")
  BY <1>1, <1>2, <1>5, <1>6, RaisesStep
<1>7. ASSUME NEW c \in Actives, Ends(t, EntryOf(c)) PROVE IInv'
  <2>1. c \in Configs /\ Revisions(c) # 0
    BY <1>2, <1>7, HistoryFacts DEF Actives
  <2>2. EntryOf(c) \in Result /\ EntryOf(c).config \in Configs
    BY <1>2, <2>1, LatestResult
  <2>3. /\ manifest' \in [state : {"absent", "ok", "damaged"}, high : [Configs -> 0 .. MaxFiles]]
        /\ damaged' \in 0 .. MaxDamage
    BY <1>1, <1>2 DEF Types
  <2> QED BY <1>2, <1>5, <1>7, <2>2, <2>3, EndsStep
<1> QED BY <1>6, <1>7 DEF lookup

LEMMA LoadsStep ==
  ASSUME IInv, NEW t \in Threads, At(t, "op"), NEW c \in Configs, NEW v \in 1 .. Revisions(c),
         Loads(t, c, v), UNCHANGED <<run, manifest, damaged>>
  PROVE  IInv'
<1>1. calls[t].pc \in InLock /\ lock = t /\ Types /\ FilesInv
  BY AtOp
<1>2. CASE Readable(c, v)
  <2> DEFINE e == Entry(c, v, work.history[c][v])
  <2>1. e \in Result /\ e.config = c
    BY <1>1, EntryResult
  <2>2. Ends(t, e) /\ UNCHANGED files
    BY <1>2 DEF Loads
  <2> HIDE DEF e
  <2> QED BY <1>1, <2>1, <2>2, AnswerStep
<1>3. CASE ~Readable(c, v)
  <2>1. Raises(t, "error") /\ durable_move({<<c, v>>}) /\ files[c][v] = "damaged"
    BY <1>3 DEF Loads, Readable
  <2>2. files' \in [Configs -> [Versions -> FileState]] /\ FilesInv'
    BY <1>1, <2>1, MovesDamaged
  <2> QED BY <1>1, <2>1, <2>2, RaisesStep
<1> QED BY <1>2, <1>3

LEMMA loadStep ==
  ASSUME IInv, NEW t \in Threads, load(t), UNCHANGED run
  PROVE  IInv'
<1> DEFINE c == Req(t).config
           v == IF Req(t).version = 0 THEN Len(work.history[c]) ELSE Req(t).version
<1>1. At(t, "op") /\ lock = t /\ c \in Configs /\ UNCHANGED <<manifest, damaged>>
  BY AtOp DEF load, Req
<1>2. CASE v \in 1 .. Len(work.history[c])
  <2>1. Loads(t, c, v) /\ v \in 1 .. Revisions(c)
    BY <1>2 DEF load, Revisions
  <2> HIDE DEF c, v
  <2> QED BY <1>1, <2>1, LoadsStep
<1>3. CASE v \notin 1 .. Len(work.history[c])
  BY <1>1, <1>3, FailStep DEF load
<1> QED BY <1>2, <1>3

LEMMA loadExactStep ==
  ASSUME IInv, NEW t \in Threads, load_exact(t), UNCHANGED run
  PROVE  IInv'
<1> DEFINE c == Req(t).config
           v == Req(t).version
           latest == Known(c) /\ Len(work.history[c]) = v /\ Last(work.history[c]) = Req(t).status
<1>1. /\ At(t, "op") /\ lock = t /\ c \in Configs /\ UNCHANGED <<manifest, damaged>>
      /\ calls[t].pc \in InLock
  BY AtOp DEF load_exact, Req
<1>2. CASE latest
  <2>1. Loads(t, c, v) /\ v = Revisions(c) /\ Known(c)
    BY <1>2 DEF load_exact, Revisions
  <2> HIDE DEF c, v
  <2>2. v \in 1 .. Revisions(c)
    BY <1>1, <2>1, HistoryFacts, Names
  <2> QED BY <1>1, <2>1, <2>2, LoadsStep
<1>3. CASE ~latest
  <2>1. Raises(t, "conflict") /\ UNCHANGED files
    BY <1>3 DEF load_exact
  <2> QED BY <1>1, <2>1, FailStep
<1> QED BY <1>2, <1>3

\* A history is never longer than the files there are.
LEMMA Counts ==
  ASSUME IInv, NEW t \in Threads, calls[t].pc \in InLock, NEW c \in Configs
  PROVE  Revisions(c) <= FileCount
<1> DEFINE all == {f \in Configs \X Versions : f[2] <= Len(work.history[f[1]])}
           mine == {c} \X (1 .. Revisions(c))
<1>1. Revisions(c) \in Nat /\ \A v \in 1 .. Revisions(c) : v \in Versions
  BY HistoryFacts, Names
<1>2. IsFiniteSet(Configs \X Versions)
  <2>1. IsFiniteSet(Versions)
    <3>1. 1 \in Int /\ MaxFiles \in Int
      BY Names
    <3> QED BY <3>1, FS_Interval DEF Versions
  <2> QED BY <2>1, Names, FS_Product
<1>3. IsFiniteSet(all)
  BY <1>2, FS_Subset
<1>4. mine \in SUBSET all
  BY <1>1 DEF Revisions
<1>5. Cardinality(mine) = Revisions(c)
  <2>1. IsFiniteSet({c}) /\ Cardinality({c}) = 1
    BY FS_Singleton
  <2>2. IsFiniteSet(1 .. Revisions(c)) /\ Cardinality(1 .. Revisions(c)) = Revisions(c)
    <3>1. 1 \in Int /\ Revisions(c) \in Int /\ Revisions(c) >= 0
      BY <1>1
    <3> QED BY <3>1, FS_Interval
  <2>3. Cardinality(mine) = Cardinality({c}) * Cardinality(1 .. Revisions(c))
    BY <2>1, <2>2, FS_Product
  <2> QED BY <1>1, <2>1, <2>2, <2>3
<1>6. Cardinality(mine) <= Cardinality(all)
  BY <1>3, <1>4, FS_Subset
<1> QED BY <1>5, <1>6 DEF FileCount

LEMMA CountIsNat == FileCount \in Nat
<1>1. IsFiniteSet(Configs \X Versions)
  <2>1. 1 \in Int /\ MaxFiles \in Int
    BY Names
  <2> QED BY <2>1, Names, FS_Interval, FS_Product DEF Versions
<1>2. IsFiniteSet({f \in Configs \X Versions : f[2] <= Len(work.history[f[1]])})
  BY <1>1, FS_Subset
<1> QED BY <1>2, FS_CardinalityType DEF FileCount

\* The next revision of a history: the files, the work and the holder's call afterwards.
LEMMA WriteStep ==
  ASSUME IInv, NEW t \in Threads, At(t, "op"), NEW c \in Configs, c = calls[t].request.config,
         NEW s \in ConfigStatus, FileCount < MaxFiles, _write_revision(t, c, s),
         Revisions(c) = 0 => s = "active",
         Revisions(c) # 0 => s \in History!CanFollow(work.history[c][Revisions(c)]),
         UNCHANGED <<run, manifest, damaged>>
  PROVE  IInv'
<1> DEFINE n == Revisions(c)
           v == n + 1
<1>1. /\ calls[t].pc = "op" /\ calls[t].pc \in InLock /\ lock = t /\ Types /\ FilesInv /\ Recovered
      /\ manifest.state = "ok" => \A d \in Configs : High(d) = Revisions(d)
      /\ files \in [Configs -> [Versions -> FileState]] /\ work \in Work
  BY AtOp, Holding
<1>2. /\ n \in Nat /\ n <= MaxFiles /\ work.history[c] \in Seq(ConfigStatus)
      /\ Len(work.history[c]) = n
  BY <1>1, HistoryFacts, Names
<1>3. v \in Versions
  <2>1. n <= FileCount /\ FileCount \in Nat
    BY <1>1, Counts, CountIsNat
  <2> HIDE DEF n
  <2> QED BY <1>2, <2>1, Names DEF Versions
<1> DEFINE history == [work.history EXCEPT ![c] = Append(@, s)]
<1>4. /\ files[c][v] = "absent" /\ files' = [files EXCEPT ![c][v] = s]
      /\ work' = [work EXCEPT !.history = history]
      /\ Goto(t, "record") /\ lock' = lock
  BY <1>2 DEF _write_revision, atomic_publish_noreplace
<1> HIDE DEF v
<1>5. v = n + 1
  BY DEF v
<1>6. /\ files' \in [Configs -> [Versions -> FileState]]
      /\ files'[c][v] = s
      /\ \A d \in Configs, w \in Versions : d # c \/ w # v => files'[d][w] = files[d][w]
  BY <1>1, <1>3, <1>4 DEF FileState
<1>7. work.history \in [Configs -> Seq(ConfigStatus)]
  BY <1>1 DEF Work
<1>8. /\ history \in [Configs -> Seq(ConfigStatus)]
      /\ history[c] = Append(work.history[c], s)
      /\ \A d \in Configs \ {c} : history[d] = work.history[d]
  BY <1>2, <1>7, AppendProperties
<1> HIDE DEF history
<1>9. work' \in Work /\ work'.history = history
  BY <1>1, <1>4, <1>8 DEF Work
<1>10. /\ Revisions(c)' = v
       /\ \A d \in Configs \ {c} : Revisions(d)' = Revisions(d) /\ work'.history[d] = work.history[d]
       /\ work'.history[c][v] = s
       /\ \A w \in 1 .. n : work'.history[c][w] = work.history[c][w]
  <2> HIDE DEF n
  <2>1. Revisions(c)' = v
    BY <1>2, <1>5, <1>8, <1>9, AppendProperties DEF Revisions
  <2>2. \A d \in Configs \ {c} : Revisions(d)' = Revisions(d) /\ work'.history[d] = work.history[d]
    BY <1>8, <1>9 DEF Revisions
  <2>3. work'.history[c][v] = s /\ \A w \in 1 .. n : work'.history[c][w] = work.history[c][w]
    <3> DEFINE before == work.history[c]
               after == history[c]
    <3>1. before \in Seq(ConfigStatus) /\ Len(before) = n /\ after = Append(before, s)
      BY <1>2, <1>8
    <3> HIDE DEF before, after
    <3>2. after[v] = s /\ \A w \in 1 .. n : after[w] = before[w]
      BY <1>2, <1>5, <3>1, AppendProperties
    <3> QED BY <1>9, <3>2 DEF before, after
  <2> QED BY <2>1, <2>2, <2>3
<1>11. CallsInv' /\ calls' \in [Threads -> Call] /\ calls'[t].pc = "record" /\ run' \in [Threads -> Run]
       /\ calls'[t].request = calls[t].request
  BY <1>1, <1>4, GotoStep DEF InLock
<1>12. Types'
  BY <1>1, <1>4, <1>6, <1>9, <1>11 DEF Types
<1>13. \A d \in Configs, w \in Versions :
         w > Revisions(d) => files[d][w] = "absent"
  <2> TAKE d \in Configs, w \in Versions
  <2>1. Revisions(d) \in 0 .. MaxFiles
    BY <1>1, HistoryFacts
  <2> QED BY <1>1, <2>1, Names DEF Recovered
<1>14. \A d \in Configs, w \in Versions :
         w <= Revisions(d) => files[d][w] \in {work.history[d][w], "damaged"}
  BY <1>1 DEF Recovered
<1>15. \A d \in Configs : Revisions(d) \in 0 .. MaxFiles /\ Revisions(d) \in Nat
  BY <1>1, HistoryFacts, Names
<1>16. Chained'
  <2> SUFFICES ASSUME NEW d \in Configs, NEW w \in Versions, Alive(d, w)',
                      w # 1 => Alive(d, w - 1)'
               PROVE  IF w = 1 THEN files'[d][w] = "active"
                      ELSE files'[d][w] \in History!CanFollow(files'[d][w - 1])
    BY DEF Chained
  <2>1. w # 1 => w - 1 \in Versions
    BY Names DEF Versions
  <2>2. CASE d = c /\ w = v
    <3>1. CASE n = 0
      BY <1>5, <1>6, <2>2, <3>1
    <3>2. CASE n # 0
      <4>1. w # 1 /\ w - 1 = n /\ n \in Versions /\ n # v
        BY <1>2, <1>5, <2>1, <2>2, <3>2
      <4>2. files'[c][n] = files[c][n] /\ Alive(c, n)
        BY <1>6, <2>2, <4>1 DEF Alive
      <4>3. files[c][n] = work.history[c][n]
        BY <1>2, <1>14, <4>1, <4>2 DEF Alive, ConfigStatus
      <4> QED BY <1>6, <2>2, <3>2, <4>1, <4>2, <4>3
    <3> QED BY <3>1, <3>2
  <2>3. CASE ~(d = c /\ w = v)
    <3>1. files'[d][w] = files[d][w] /\ Alive(d, w)
      BY <1>6, <2>3 DEF Alive
    <3>2. ~(d = c /\ w - 1 = v)
      <4> SUFFICES ASSUME d = c, w - 1 = v PROVE FALSE
        OBVIOUS
      <4>1. w > Revisions(c)
        BY <1>2, <1>5, Names
      <4>2. files[d][w] = "absent"
        BY <1>13, <4>1
      <4> QED BY <3>1, <4>2 DEF Alive, ConfigStatus
    <3>3. w # 1 => files'[d][w - 1] = files[d][w - 1] /\ Alive(d, w - 1)
      BY <1>6, <2>1, <3>2 DEF Alive
    <3> QED BY <1>1, <3>1, <3>3 DEF FilesInv, Chained
  <2> QED BY <2>2, <2>3
<1>17. manifest.state = "ok" => OneBehind'
  <2> SUFFICES ASSUME manifest.state = "ok" PROVE OneBehind'
    OBVIOUS
  <2>1. \A d \in Configs : High(d)' = Revisions(d)
    BY <1>1 DEF High
  <2>2. \A d \in Configs, w \in Versions : Extra(d, w)' => d = c /\ w = v
    BY <1>6, <1>13, <2>1 DEF Extra
  <2> QED BY <1>5, <2>1, <2>2 DEF OneBehind
<1>18. MaxDamage <= 1 /\ manifest.state # "ok" => Intact'
  <2> SUFFICES ASSUME Intact, NEW d \in Configs
               PROVE  \E m \in 0 .. MaxFiles : \A w \in Versions :
                        IF w <= m THEN Alive(d, w)' ELSE files'[d][w] = "absent"
    BY <1>1 DEF FilesInv, Intact
  <2>1. \A w \in Versions : files[d][w] # "damaged"
    BY DEF Intact, Alive, ConfigStatus
  <2>2. \A w \in Versions : IF w <= Revisions(d) THEN Alive(d, w) ELSE files[d][w] = "absent"
    <3> TAKE w \in Versions
    <3>1. CASE w <= Revisions(d)
      <4>1. w \in 1 .. Revisions(d)
        BY <1>15, <3>1, Names DEF Versions
      <4>2. work.history[d][w] \in ConfigStatus
        BY <1>1, <4>1, HistoryFacts
      <4> QED BY <1>14, <2>1, <3>1, <4>2 DEF Alive
    <3>2. CASE ~(w <= Revisions(d))
      BY <1>13, <1>15, <3>2, Names
    <3> QED BY <3>1, <3>2
  <2>3. CASE d = c
    <3>1. v \in 0 .. MaxFiles
      BY <1>3, Names
    <3>2. \A w \in Versions : (w <= v <=> w <= n \/ w = v) /\ (w = v => ~(w <= n))
      BY <1>2, <1>5, Names
    <3>3. \A w \in Versions : IF w <= v THEN Alive(d, w)' ELSE files'[d][w] = "absent"
      BY <1>6, <2>2, <2>3, <3>2 DEF Alive
    <3> QED BY <3>1, <3>3
  <2>4. CASE d # c
    BY <1>6, <1>15, <2>2, <2>4 DEF Alive
  <2> QED BY <2>3, <2>4
<1>19. damaged = 0 => manifest.state = "ok" /\ Whole'
  BY <1>1, <1>6, <1>4 DEF FilesInv, Whole, High, ConfigStatus
<1>20. FilesInv'
  BY <1>16, <1>17, <1>18, <1>19 DEF FilesInv
<1>21. WorkInv(t)'
  <2>1. \A d \in Configs : Revisions(d)' <= MaxFiles
    BY <1>3, <1>10, <1>15, Names DEF Versions
  <2>2. Recovered'
    <3> SUFFICES ASSUME NEW d \in Configs, NEW w \in Versions
                 PROVE  IF w <= Revisions(d)' THEN files'[d][w] \in {work'.history[d][w], "damaged"}
                        ELSE files'[d][w] = "absent"
      BY DEF Recovered
    <3>1. CASE d # c
      BY <1>1, <1>6, <1>10, <3>1 DEF Recovered
    <3>2. CASE d = c /\ w = v
      <4>1. w <= Revisions(d)'
        BY <1>2, <1>5, <1>10, <3>2
      <4>2. files'[d][w] = work'.history[d][w]
        BY <1>6, <1>10, <3>2
      <4> QED BY <4>1, <4>2
    <3>3. CASE d = c /\ w # v
      <4>1. CASE w <= n
        <5>1. w \in 1 .. n /\ w <= Revisions(d)'
          BY <1>2, <1>5, <1>10, <3>3, <4>1, Names DEF Versions
        <5> QED BY <1>6, <1>10, <1>14, <3>3, <4>1, <5>1
      <4>2. CASE ~(w <= n)
        <5>1. w > Revisions(c) /\ ~(w <= v)
          BY <1>2, <1>5, <3>3, <4>2, Names
        <5> QED BY <1>6, <1>10, <1>13, <3>3, <5>1
      <4> QED BY <4>1, <4>2
    <3> QED BY <3>1, <3>2, <3>3
  <2>3. manifest'.state = "ok" =>
          \A d \in Configs : Revisions(d)' = IF d = c THEN High(d)' + 1 ELSE High(d)'
    BY <1>1, <1>5, <1>10 DEF High
  <2>4. Revisions(c)' # 0
    BY <1>2, <1>5, <1>10
  <2> QED BY <1>11, <2>1, <2>2, <2>3, <2>4 DEF WorkInv
<1> QED BY <1>1, <1>4, <1>11, <1>12, <1>20, <1>21, HolderStep

LEMMA registryRegisterStep ==
  ASSUME IInv, NEW t \in Threads, register(t), UNCHANGED run
  PROVE  IInv'
<1> DEFINE c == Req(t).config
<1>1. /\ At(t, "op") /\ lock = t /\ c \in Configs /\ c = calls[t].request.config
      /\ UNCHANGED <<manifest, damaged>> /\ calls[t].pc \in InLock
  BY AtOp DEF register, Req
<1>2. Known(c) <=> Revisions(c) # 0
  BY <1>1, HistoryFacts
<1>3. CASE Known(c) /\ Ends(t, EntryOf(c)) /\ UNCHANGED files
  <2> HIDE DEF c
  <2>1. EntryOf(c) \in Result /\ EntryOf(c).config = c
    BY <1>1, <1>2, <1>3, LatestResult
  <2> QED BY <1>1, <1>3, <2>1, AnswerStep
<1>4. CASE Raises(t, "error") /\ UNCHANGED files
  BY <1>1, <1>4, FailStep
<1>5. CASE ~Known(c) /\ FileCount < MaxFiles /\ _write_revision(t, c, "active")
  <2> HIDE DEF c
  <2>1. "active" \in ConfigStatus
    BY DEF ConfigStatus
  <2> QED BY <1>1, <1>2, <1>5, <2>1, WriteStep
<1> QED BY <1>3, <1>4, <1>5 DEF register

\* The registry's transitions and those a reader is promised are the same.
LEMMA TransitionsFollow ==
  ASSUME NEW op \in DOMAIN Transitions, NEW s \in Transitions[op].from
  PROVE  Transitions[op].to \in History!CanFollow(s) /\ Transitions[op].to \in ConfigStatus
BY DEF Transitions, History!CanFollow, History!ConfigStatus, ConfigStatus

LEMMA transitionStep ==
  ASSUME IInv, NEW t \in Threads, _transition(t), UNCHANGED run
  PROVE  IInv'
<1> DEFINE r == Req(t)
           c == r.config
           current == Last(work.history[c])
<1>1. /\ At(t, "op") /\ r.op \in DOMAIN Transitions /\ UNCHANGED <<manifest, damaged>>
      /\ r = calls[t].request
  BY DEF _transition, Req
<1>2. "lookup" \notin DOMAIN Transitions
  BY DEF Transitions
<1>3. lock = t /\ c \in Configs /\ c = calls[t].request.config /\ calls[t].pc \in InLock
  BY <1>1, <1>2, AtOp
<1>4. CASE Raises(t, "missing") /\ UNCHANGED files
  BY <1>1, <1>3, <1>4, FailStep
<1>5. CASE Raises(t, "conflict") /\ UNCHANGED files
  BY <1>1, <1>3, <1>5, FailStep
<1>6. CASE Known(c) /\ Allowed(r, EntryOf(c))
  <2>1. CASE FileCount >= MaxFiles
    <3>1. Raises(t, "error") /\ UNCHANGED files
      BY <1>6, <2>1 DEF _transition
    <3> QED BY <1>1, <1>3, <3>1, FailStep
  <2>2. CASE ~(FileCount >= MaxFiles) /\ ~Readable(c, Len(work.history[c]))
    <3>1. Raises(t, "value") /\ UNCHANGED files
      BY <1>6, <2>2 DEF _transition
    <3> QED BY <1>1, <1>3, <3>1, FailStep
  <2>3. CASE ~(FileCount >= MaxFiles) /\ Readable(c, Len(work.history[c]))
    <3>1. _write_revision(t, c, Transitions[r.op].to)
      BY <1>6, <2>3 DEF _transition
    <3>2. current \in Transitions[r.op].from
      BY <1>6 DEF Allowed, EntryOf, Entry
    <3>3. current = work.history[c][Revisions(c)]
      BY DEF Last, Revisions
    <3>4. /\ Transitions[r.op].to \in ConfigStatus
          /\ Transitions[r.op].to \in History!CanFollow(work.history[c][Revisions(c)])
      BY <1>1, <3>2, <3>3, TransitionsFollow
    <3>5. Revisions(c) # 0 /\ FileCount < MaxFiles
      <4>1. Revisions(c) # 0
        BY <1>3, <1>6, HistoryFacts
      <4>2. FileCount \in Nat
        BY CountIsNat
      <4> QED BY <2>3, <4>1, <4>2, Names
    <3> HIDE DEF c, r
    <3> QED BY <1>1, <1>3, <3>1, <3>4, <3>5, WriteStep
  <2> QED BY <2>1, <2>2, <2>3
<1> QED BY <1>4, <1>5, <1>6 DEF _transition

LEMMA writeManifestStep ==
  ASSUME IInv, NEW t \in Threads, _write_manifest(t), UNCHANGED run
  PROVE  IInv'
<1> DEFINE d == calls[t].request.config
<1>1. /\ calls[t].pc = "record" /\ calls[t].pc \in InLock /\ lock = t /\ WorkInv(t) /\ Types
      /\ Ends(t, EntryOf(d)) /\ manifest' = Manifest(work.history) /\ UNCHANGED <<files, damaged>>
  BY Holding DEF _write_manifest, At, InLock, atomic_write, Req
<1>2. Recovered /\ d \in Configs /\ Revisions(d) # 0
  BY <1>1 DEF WorkInv
<1>3. /\ manifest' \in [state : {"absent", "ok", "damaged"}, high : [Configs -> 0 .. MaxFiles]]
      /\ FilesInv'
  BY <1>1, <1>2, Written
<1>4. /\ files' \in [Configs -> [Versions -> FileState]] /\ damaged' \in 0 .. MaxDamage
  BY <1>1 DEF Types
<1> HIDE DEF d
<1>5. EntryOf(d) \in Result /\ EntryOf(d).config = d
  BY <1>1, <1>2, LatestResult
<1> QED BY <1>1, <1>2, <1>3, <1>4, <1>5, EndsStep DEF _write_manifest

-----------------------------------------------------------------------------
(* The faults. *)

LEMMA lockTimeoutStep ==
  ASSUME IInv, NEW t \in Threads, lock_timeout(t), UNCHANGED run
  PROVE  IInv'
<1> DEFINE result == [NoResult EXCEPT !.kind = "error"]
           call == [pc |-> "done", request |-> NoRequest, result |-> result]
<1>1. /\ calls[t].pc = "lock" /\ calls' = [calls EXCEPT ![t] = call] /\ Keeps
      /\ run \in [Threads -> Run]
  BY DEF lock_timeout, At, Keeps, IInv, Types
<1>2. result \in Result /\ result.kind # "entry"
  BY RaisesResult
<1> HIDE DEF result
<1>3. call \in Call /\ call.pc = "done" /\ call.request = NoRequest /\ call.result = result
  BY <1>2, Plain, PcFacts DEF Call
<1> HIDE DEF call
<1>4. CallOK(call, run[t]) /\ run[t] \in Run
  BY <1>2, <1>3, Mine, Plain DEF CallOK
<1>5. run' = [run EXCEPT ![t] = run[t]]
  BY <1>1
<1> QED BY <1>1, <1>3, <1>4, <1>5, PcFacts, AwayStep DEF Away

LEMMA ioErrorStep ==
  ASSUME IInv, NEW t \in Threads, io_error(t), UNCHANGED run
  PROVE  IInv'
BY FailStep DEF io_error

\* Damage comes between two operations, or between an operation's scan and its own use of
\* what it has read.
LEMMA damageStep ==
  ASSUME IInv, damage, UNCHANGED run
  PROVE  IInv'
<1>1. /\ UNCHANGED <<lock, work, calls>> /\ damaged' = damaged + 1 /\ damaged < MaxDamage
      /\ Types /\ FilesInv /\ CallsInv /\ WorksInv /\ MaxDamage \in Nat /\ damaged \in Nat
  BY RegistryAssumption DEF damage, IInv, Types
<1>2. /\ damaged' # 0 /\ damaged' \in 0 .. MaxDamage
      /\ MaxDamage <= 1 => damaged = 0
  BY <1>1
<1>3. \A t \in Threads : calls[t].pc \in InLock => calls[t].pc = "op"
  <2> SUFFICES ASSUME NEW t \in Threads, calls[t].pc \in InLock PROVE calls[t].pc = "op"
    OBVIOUS
  <2>1. lock = t /\ lock # NONE
    BY <1>1, Names DEF CallsInv
  <2>2. PICK u \in Threads : At(u, "op")
    BY <2>1 DEF damage
  <2>3. lock = u
    BY <1>1, <2>2 DEF CallsInv, At, InLock
  <2> QED BY <2>1, <2>2, <2>3 DEF At
<1>4. CallsInv'
  BY <1>1 DEF CallsInv
<1>5. "damaged" \in FileState /\ "damaged" \notin ConfigStatus /\ "damaged" # "absent"
  BY DEF FileState, ConfigStatus
<1>6. ASSUME NEW c \in Configs, NEW v \in Present(c),
             files' = [files EXCEPT ![c][v] = "damaged"], UNCHANGED manifest
      PROVE  IInv'
  <2>1. v \in Versions /\ files[c][v] # "absent"
    BY <1>6 DEF Present
  <2>2. /\ files' \in [Configs -> [Versions -> FileState]]
        /\ \A d \in Configs, w \in Versions :
             files'[d][w] = IF d = c /\ w = v THEN "damaged" ELSE files[d][w]
    BY <1>1, <1>5, <1>6, <2>1 DEF Types, FileState
  <2>3. Types'
    BY <1>1, <1>2, <1>6, <2>2 DEF Types
  <2>4. Chained'
    <3> SUFFICES ASSUME NEW d \in Configs, NEW w \in Versions, Alive(d, w)',
                        w # 1 => Alive(d, w - 1)'
                 PROVE  IF w = 1 THEN files'[d][w] = "active"
                        ELSE files'[d][w] \in History!CanFollow(files'[d][w - 1])
      BY DEF Chained
    <3>1. Alive(d, w) /\ files'[d][w] = files[d][w]
      BY <1>5, <2>2 DEF Alive
    <3>2. w # 1 => w - 1 \in Versions
      BY Names DEF Versions
    <3>3. w # 1 => Alive(d, w - 1) /\ files'[d][w - 1] = files[d][w - 1]
      BY <1>5, <2>2, <3>2 DEF Alive
    <3> QED BY <1>1, <3>1, <3>3 DEF FilesInv, Chained
  <2>5. manifest.state = "ok" => OneBehind'
    BY <1>1, <1>6, <2>1, <2>2 DEF FilesInv, OneBehind, Extra, High
  <2>6. MaxDamage <= 1 => manifest.state = "ok"
    BY <1>1, <1>2 DEF FilesInv
  <2>7. FilesInv'
    BY <1>2, <1>6, <2>4, <2>5, <2>6 DEF FilesInv
  <2>8. ASSUME NEW t \in Threads PROVE WorkInv(t)'
    <3>1. WorkInv(t) /\ \A d \in Configs : Revisions(d)' = Revisions(d)
      BY <1>1 DEF WorksInv, Revisions
    <3>2. calls[t].pc = "op" => Recovered'
      <4> SUFFICES ASSUME Recovered, NEW d \in Configs, NEW w \in Versions
                   PROVE  IF w <= Revisions(d) THEN files'[d][w] \in {work.history[d][w], "damaged"}
                          ELSE files'[d][w] = "absent"
        BY <1>1, <3>1 DEF WorkInv, Recovered
      <4> QED BY <2>1, <2>2 DEF Recovered
    <3>3. calls'[t].pc \notin {"quarantine", "record"}
      BY <1>1, <1>3 DEF InLock
    <3>4. calls'[t].pc = "op" /\ manifest'.state = "ok" => \A d \in Configs : High(d)' = Revisions(d)'
      BY <1>1, <1>6, <3>1 DEF WorkInv, High
    <3>5. lock' = t => \A d \in Configs : Revisions(d)' <= MaxFiles
      BY <1>1, <3>1 DEF WorkInv
    <3> QED BY <1>1, <3>2, <3>3, <3>4, <3>5 DEF WorkInv
  <2> QED BY <1>4, <2>3, <2>7, <2>8 DEF IInv, WorksInv
<1>7. ASSUME manifest.state = "ok", manifest' = [state |-> "damaged", high |-> NoVersions],
             UNCHANGED files
      PROVE  IInv'
  <2>1. /\ manifest' \in [state : {"absent", "ok", "damaged"}, high : [Configs -> 0 .. MaxFiles]]
        /\ manifest'.state = "damaged"
    BY <1>7, Names DEF NoVersions
  <2>2. Types'
    BY <1>1, <1>2, <1>7, <2>1 DEF Types
  <2>3. Chained'
    BY <1>1, <1>7 DEF FilesInv, Chained, Alive
  <2>4. MaxDamage <= 1 => Intact'
    <3> SUFFICES ASSUME MaxDamage <= 1, NEW c \in Configs
                 PROVE  \E n \in 0 .. MaxFiles : \A v \in Versions :
                          IF v <= n THEN Alive(c, v)' ELSE files'[c][v] = "absent"
      BY DEF Intact
    <3>1. Whole /\ OneBehind /\ High(c) \in 0 .. MaxFiles /\ files \in [Configs -> [Versions -> FileState]]
      BY <1>1, <1>2, <1>7 DEF FilesInv, Types, High
    <3>2. \A v \in Versions : Alive(c, v) <=> files[c][v] # "absent"
      BY <1>5, <3>1 DEF Whole, Alive, FileState, ConfigStatus
    <3>3. \A v \in Versions : v <= High(c) => Alive(c, v)
      BY <3>1, <3>2 DEF Whole
    <3>4. \A v \in Versions : v > High(c) /\ Alive(c, v) => v = High(c) + 1
      BY <3>1, <3>2 DEF OneBehind, Extra
    <3>5. CASE High(c) + 1 \in Versions /\ Alive(c, High(c) + 1)
      <4> DEFINE n == High(c) + 1
      <4>1. n \in 0 .. MaxFiles
        BY <3>5, Names
      <4>2. \A v \in Versions : IF v <= n THEN Alive(c, v)' ELSE files'[c][v] = "absent"
        <5> TAKE v \in Versions
        <5>1. v <= n => v <= High(c) \/ v = n
          BY <3>1, Names
        <5>2. ~(v <= n) => v > High(c) /\ v # High(c) + 1
          BY <3>1, Names
        <5> QED BY <1>7, <3>2, <3>3, <3>4, <3>5, <5>1, <5>2 DEF Alive
      <4> QED BY <4>1, <4>2
    <3>6. CASE ~(High(c) + 1 \in Versions /\ Alive(c, High(c) + 1))
      <4>1. \A v \in Versions : IF v <= High(c) THEN Alive(c, v)' ELSE files'[c][v] = "absent"
        <5> TAKE v \in Versions
        <5>1. ~(v <= High(c)) => v > High(c)
          BY <3>1, Names
        <5> QED BY <1>7, <3>2, <3>3, <3>4, <3>6, <5>1 DEF Alive
      <4> QED BY <3>1, <4>1
    <3> QED BY <3>5, <3>6
  <2>5. FilesInv'
    BY <1>2, <2>1, <2>3, <2>4 DEF FilesInv
  <2>6. ASSUME NEW t \in Threads PROVE WorkInv(t)'
    <3>1. WorkInv(t) /\ \A d \in Configs : Revisions(d)' = Revisions(d)
      BY <1>1 DEF WorksInv, Revisions
    <3>2. Recovered => Recovered'
      BY <1>1, <1>7, <3>1 DEF Recovered
    <3>3. calls'[t].pc \notin {"quarantine", "record"}
      BY <1>1, <1>3 DEF InLock
    <3>4. lock' = t => \A d \in Configs : Revisions(d)' <= MaxFiles
      BY <1>1, <3>1 DEF WorkInv
    <3> QED BY <1>1, <2>1, <3>1, <3>2, <3>3, <3>4 DEF WorkInv
  <2> QED BY <1>4, <2>2, <2>5, <2>6 DEF IInv, WorksInv
<1> QED BY <1>6, <1>7 DEF damage

LEMMA restartStep ==
  ASSUME IInv, restart
  PROVE  IInv'
<1>1. /\ lock' = NONE /\ work' = NoWork /\ calls' = [t \in Threads |-> NoCall]
      /\ run' = [t \in Threads |-> NoRun] /\ UNCHANGED <<files, manifest, damaged>>
      /\ Types /\ FilesInv
  BY DEF restart, IInv
<1>2. Types'
  BY <1>1, Plain, NoWorkFacts DEF Types
<1>3. FilesInv'
  BY <1>1, FilesStay
<1>4. CallOK(NoCall, NoRun)
  BY Plain DEF CallOK, WithEntry, WithConfig
<1>5. CallsInv'
  BY <1>1, <1>4, Plain, PcFacts, Names DEF CallsInv
<1>6. WorksInv'
  BY <1>1, Plain, Names DEF WorksInv, WorkInv
<1> QED BY <1>2, <1>3, <1>5, <1>6 DEF IInv

LEMMA InitIInv == Init => IInv
<1> SUFFICES ASSUME Init PROVE IInv
  OBVIOUS
<1>1. /\ files = [c \in Configs |-> [v \in Versions |-> "absent"]]
      /\ manifest = [state |-> "ok", high |-> NoVersions] /\ lock = NONE /\ work = NoWork
      /\ calls = [t \in Threads |-> NoCall] /\ damaged = 0 /\ run = [t \in Threads |-> NoRun]
  BY DEF Init, RegistryInit
<1>2. Types
  <2>1. 0 \in 0 .. MaxDamage
    BY RegistryAssumption
  <2>2. manifest \in [state : {"absent", "ok", "damaged"}, high : [Configs -> 0 .. MaxFiles]]
    BY <1>1, Names DEF NoVersions
  <2>3. files \in [Configs -> [Versions -> FileState]]
    BY <1>1 DEF FileState
  <2> QED BY <1>1, <2>1, <2>2, <2>3, Plain, NoWorkFacts DEF Types
<1>3. FilesInv
  <2>1. \A c \in Configs, v \in Versions : files[c][v] = "absent"
    BY <1>1
  <2>2. \A c \in Configs, v \in Versions : ~(v <= High(c))
    BY <1>1 DEF High, NoVersions, Versions
  <2> QED BY <1>1, <2>1, <2>2 DEF FilesInv, Chained, OneBehind, Whole, Extra, Alive, ConfigStatus
<1>4. CallOK(NoCall, NoRun)
  BY Plain DEF CallOK, WithEntry, WithConfig
<1>5. CallsInv
  BY <1>1, <1>4, Plain, PcFacts, Names DEF CallsInv
<1>6. WorksInv
  BY <1>1, Plain, Names DEF WorksInv, WorkInv
<1> QED BY <1>2, <1>3, <1>5, <1>6 DEF IInv

-----------------------------------------------------------------------------
(* The tokens.  What waits under a token is one configuration of its own, and *)
(* whoever has it at hand to register it is the confirmation that holds the   *)
(* token's lock.                                                              *)

Given(k) == pending[k].state # "unused"

PendInv ==
  /\ pending \in [Tokens -> Pending] /\ made \subseteq Configs
  /\ token_locks \in [Tokens -> Threads \cup {NONE}]
  /\ \A k \in Tokens : Given(k) => pending[k].config \in made
  /\ \A k, l \in Tokens : Given(k) /\ Given(l) /\ pending[k].config = pending[l].config => k = l

InHand(t) ==
  /\ run[t].config \in made
  /\ \A k \in Tokens : Given(k) /\ pending[k].config = run[t].config =>
       run[t].task = "confirm" /\ run[t].token = k /\ pending[k].state # "cancelled"

ConfirmInv(t) ==
  /\ run[t].pc \in {"token", "confirm", "reprobe"} => run[t].task = "confirm"
  /\ run[t].task \in {"confirm", "fallback"} \/ run[t].pc \in {"pop", "cancel"} => run[t].token \in Tokens
  /\ run[t].task = "confirm" /\ run[t].pc # "token" => token_locks[run[t].token] = t
  /\ run[t].pc \in WithConfig => InHand(t)
  /\ calls[t].request.op = "register" =>
       run[t].pc = "registered" /\ calls[t].request.config = run[t].config

TokensInv == PendInv /\ \A t \in Threads : ConfirmInv(t)

Others(t) == \A u \in Threads \ {t} : run'[u] = run[u] /\ calls'[u].request = calls[u].request

KeepsLocks(t) ==
  /\ token_locks' \in [Tokens -> Threads \cup {NONE}]
  /\ \A u \in Threads \ {t}, k \in Tokens : token_locks[k] = u => token_locks'[k] = u

\* Tokens run out or are used up, and are cancelled where nobody confirms them.
Settles ==
  /\ pending' \in [Tokens -> Pending] /\ made' = made
  /\ \A k \in Tokens : /\ pending'[k].config = pending[k].config
                       /\ pending'[k].state = "unused" <=> pending[k].state = "unused"
                       /\ pending'[k].state = "cancelled" =>
                            pending[k].state = "cancelled" \/ token_locks[k] = NONE

LEMMA OthersStep ==
  ASSUME TokensInv, NEW t \in Threads, Others(t), KeepsLocks(t), PendInv', ConfirmInv(t)',
         made \subseteq made',
         \A k \in Tokens : pending'[k].state # "unused" /\ pending'[k].config \in made =>
           /\ Given(k) /\ pending'[k].config = pending[k].config
           /\ pending'[k].state = "cancelled" => pending[k].state = "cancelled" \/ token_locks[k] = NONE
  PROVE  TokensInv'
<1> SUFFICES ASSUME NEW u \in Threads, u # t PROVE ConfirmInv(u)'
  BY DEF TokensInv
<1>1. ConfirmInv(u) /\ run'[u] = run[u] /\ calls'[u].request = calls[u].request
  BY DEF TokensInv, Others
<1>2. run[u].task = "confirm" /\ run[u].pc # "token" => token_locks'[run[u].token] = u
  BY <1>1 DEF ConfirmInv, KeepsLocks
<1>3. run[u].pc \in WithConfig => InHand(u)'
  <2> SUFFICES ASSUME run[u].pc \in WithConfig PROVE InHand(u)'
    OBVIOUS
  <2>1. InHand(u) /\ run[u].config \in made /\ run[u].pc # "token"
    BY <1>1 DEF ConfirmInv, InHand, WithConfig
  <2>2. ASSUME NEW k \in Tokens, Given(k)', pending'[k].config = run[u].config
        PROVE  run[u].task = "confirm" /\ run[u].token = k /\ pending'[k].state # "cancelled"
    <3>1. Given(k) /\ pending[k].config = run[u].config
      BY <2>1, <2>2 DEF Given
    <3>2. run[u].task = "confirm" /\ run[u].token = k /\ pending[k].state # "cancelled"
      BY <2>1, <3>1 DEF InHand
    <3>3. token_locks[k] = u /\ u # NONE
      BY <1>1, <2>1, <3>2, Names DEF ConfirmInv
    <3> QED BY <2>1, <2>2, <3>2, <3>3 DEF Given
  <2> QED BY <1>1, <2>1, <2>2 DEF InHand
<1> QED BY <1>1, <1>2, <1>3 DEF ConfirmInv

LEMMA SettlesPend ==
  ASSUME TokensInv, NEW t \in Threads, KeepsLocks(t), Settles
  PROVE  PendInv'
BY DEF TokensInv, PendInv, KeepsLocks, Settles, Given

LEMMA SettlesStep ==
  ASSUME TokensInv, NEW t \in Threads, Others(t), KeepsLocks(t), Settles, ConfirmInv(t)'
  PROVE  TokensInv'
<1>1. PendInv'
  BY SettlesPend
<1>2. \A k \in Tokens : pending'[k].state # "unused" /\ pending'[k].config \in made =>
        /\ Given(k) /\ pending'[k].config = pending[k].config
        /\ pending'[k].state = "cancelled" => pending[k].state = "cancelled" \/ token_locks[k] = NONE
  BY DEF Settles, Given
<1> QED BY <1>1, <1>2, OthersStep DEF Settles

LEMMA StaySettled ==
  ASSUME TokensInv, UNCHANGED <<pending, made>>
  PROVE  Settles
BY DEF TokensInv, PendInv, Settles

LEMMA ForgetFacts ==
  ASSUME TokensInv, NEW ks
  PROVE  /\ Forget(ks) \in [Tokens -> Pending]
         /\ \A k \in Tokens : /\ Forget(ks)[k].config = pending[k].config
                              /\ Forget(ks)[k].state = "unused" <=> pending[k].state = "unused"
                              /\ Forget(ks)[k].state = "cancelled" => pending[k].state = "cancelled"
<1>1. pending \in [Tokens -> Pending]
  BY DEF TokensInv, PendInv
<1>2. \A k \in Tokens : Forget(ks)[k] = IF k \in ks /\ pending[k].state = "live"
                                        THEN [pending[k] EXCEPT !.state = "gone"] ELSE pending[k]
  BY DEF Forget
<1>3. \A k \in Tokens : /\ [pending[k] EXCEPT !.state = "gone"] \in Pending
                        /\ [pending[k] EXCEPT !.state = "gone"].config = pending[k].config
                        /\ [pending[k] EXCEPT !.state = "gone"].state = "gone"
  BY <1>1 DEF Pending
<1>4. Forget(ks) \in [Tokens -> Pending]
  BY <1>1, <1>3 DEF Forget
<1> QED BY <1>2, <1>3, <1>4

LEMMA ForgetSettled ==
  ASSUME TokensInv, NEW ks, pending' = Forget(ks), made' = made
  PROVE  Settles
<1> DEFINE after == Forget(ks)
<1>1. /\ after \in [Tokens -> Pending]
      /\ \A k \in Tokens : /\ after[k].config = pending[k].config
                           /\ after[k].state = "unused" <=> pending[k].state = "unused"
                           /\ after[k].state = "cancelled" => pending[k].state = "cancelled"
  BY ForgetFacts
<1>2. pending' = after
  OBVIOUS
<1> HIDE DEF after
<1> QED BY <1>1, <1>2 DEF Settles

\* One token's state becomes another one, if it was live.
LEMMA SettlesOne ==
  ASSUME TokensInv, NEW k \in Tokens, NEW s \in {"gone", "cancelled"},
         pending' = [pending EXCEPT ![k].state = IF @ = "live" THEN s ELSE @], made' = made,
         s = "cancelled" => token_locks[k] = NONE
  PROVE  Settles
<1> DEFINE p == pending[k]
           s2 == IF p.state = "live" THEN s ELSE p.state
           q == [p EXCEPT !.state = s2]
<1>1. pending \in [Tokens -> Pending] /\ p \in Pending
  BY DEF TokensInv, PendInv
<1>2. pending' = [pending EXCEPT ![k] = q]
  BY <1>1
<1>3. s2 \in {"unused", "live", "gone", "cancelled"}
  BY <1>1 DEF Pending
<1>4. s2 = "unused" <=> p.state = "unused"
  OBVIOUS
<1>5. s2 = "cancelled" => p.state = "cancelled" \/ token_locks[k] = NONE
  OBVIOUS
<1> HIDE DEF s2
<1>6. q \in Pending /\ q.config = p.config /\ q.state = s2
  BY <1>1, <1>3 DEF Pending
<1> HIDE DEF q
<1>7. pending'[k] = q /\ \A l \in Tokens \ {k} : pending'[l] = pending[l]
  BY <1>1, <1>2
<1>8. pending' \in [Tokens -> Pending]
  BY <1>1, <1>2, <1>6
<1> QED BY <1>4, <1>5, <1>6, <1>7, <1>8 DEF Settles

\* Where only t's run and call change.
LEMMA MyRun ==
  ASSUME IInv, NEW t \in Threads, NEW r, NEW call,
         run' = [run EXCEPT ![t] = r], calls' = [calls EXCEPT ![t] = call]
  PROVE  Others(t) /\ run'[t] = r /\ calls'[t] = call
BY DEF IInv, Types, Others

LEMMA LocksStay ==
  ASSUME TokensInv, NEW t \in Threads, UNCHANGED token_locks
  PROVE  KeepsLocks(t)
BY DEF TokensInv, PendInv, KeepsLocks

LEMMA LeavesLocks ==
  ASSUME IInv, TokensInv, NEW t \in Threads, Returns(t)
  PROVE  Others(t) /\ KeepsLocks(t) /\ ConfirmInv(t)'
<1> DEFINE token == run[t].token
           pops == [NoRun EXCEPT !.pc = "pop", !.token = token]
           r == IF run[t].task = "fallback" THEN pops ELSE NoRun
<1>1. /\ calls' = [calls EXCEPT ![t] = NoCall] /\ run' = [run EXCEPT ![t] = r]
      /\ token_locks' = [k \in Tokens |-> IF token_locks[k] = t THEN NONE ELSE token_locks[k]]
  BY DEF Returns
<1>2. /\ run[t].task = "fallback" => token \in Tokens
      /\ token_locks \in [Tokens -> Threads \cup {NONE}]
  BY DEF TokensInv, ConfirmInv, PendInv
<1> HIDE DEF token
<1>3. /\ pops.pc = "pop" /\ pops.task = NONE /\ pops.token = token
      /\ NoRun.pc = "idle" /\ NoRun.task = NONE
  BY DEF NoRun
<1> HIDE DEF pops
<1>4. Others(t) /\ run'[t] = r /\ calls'[t] = NoCall
  BY <1>1, MyRun
<1>5. KeepsLocks(t)
  BY <1>1, <1>2 DEF KeepsLocks
<1>6. /\ run'[t].pc \in {"idle", "pop"} /\ run'[t].task = NONE
      /\ run'[t].pc = "pop" => run'[t].token \in Tokens
  BY <1>2, <1>3, <1>4
<1>7. ConfirmInv(t)'
  <2>1. calls'[t].request.op # "register"
    BY <1>4, Plain
  <2>2. NONE \notin {"confirm", "fallback"}
    BY DEF NONE
  <2> QED BY <1>6, <2>1, <2>2 DEF ConfirmInv, WithConfig
<1> QED BY <1>4, <1>5, <1>7

LEMMA ReturnsTokens ==
  ASSUME IInv, TokensInv, NEW t \in Threads, Returns(t), Settles
  PROVE  TokensInv'
BY LeavesLocks, SettlesStep

\* A thread goes on with the same task.
Goes(t, r, call) == run' = [run EXCEPT ![t] = r] /\ calls' = [calls EXCEPT ![t] = call]

LEMMA SameTask ==
  ASSUME IInv, TokensInv, NEW t \in Threads, Settles, UNCHANGED token_locks, NEW r, NEW call,
         Goes(t, r, call),
         r.task = run[t].task, r.token = run[t].token, r.config = run[t].config,
         run[t].pc # "token", r.pc \notin {"token", "confirm", "reprobe", "pop", "cancel"},
         r.pc \in WithConfig => run[t].pc \in WithConfig,
         call.request.op = "register" => r.pc = "registered" /\ call.request.config = r.config
  PROVE  TokensInv'
<1>1. Others(t) /\ run'[t] = r /\ calls'[t] = call /\ KeepsLocks(t) /\ ConfirmInv(t)
  <2>1. Others(t) /\ run'[t] = r /\ calls'[t] = call
    BY DEF Goes, IInv, Types, Others
  <2>2. KeepsLocks(t)
    BY LocksStay
  <2>3. ConfirmInv(t)
    BY DEF TokensInv
  <2> QED BY <2>1, <2>2, <2>3
<1>2. r.pc \in WithConfig => InHand(t)'
  <2> SUFFICES ASSUME r.pc \in WithConfig PROVE InHand(t)'
    OBVIOUS
  <2>1. InHand(t)
    BY <1>1 DEF ConfirmInv
  <2>2. ASSUME NEW k \in Tokens, Given(k)', pending'[k].config = run'[t].config
        PROVE  run'[t].task = "confirm" /\ run'[t].token = k /\ pending'[k].state # "cancelled"
    <3>1. Given(k) /\ pending[k].config = run[t].config
      BY <1>1, <2>2 DEF Given, Settles
    <3>2. run[t].task = "confirm" /\ run[t].token = k /\ pending[k].state # "cancelled"
      BY <2>1, <3>1 DEF InHand
    <3>3. token_locks[k] = t /\ t # NONE
      BY <1>1, <3>2, Names DEF ConfirmInv
    <3> QED BY <1>1, <3>2, <3>3 DEF Settles
  <2> QED BY <1>1, <2>1, <2>2 DEF InHand, Settles
<1>3. ConfirmInv(t)'
  BY <1>1, <1>2 DEF ConfirmInv
<1> QED BY <1>1, <1>3, SettlesStep

LEMMA SelfCall ==
  ASSUME IInv, NEW t \in Threads, calls[t].pc = "done" \/ run[t].pc \in Quiet
  PROVE  /\ calls = [calls EXCEPT ![t] = calls[t]] /\ calls[t].request.op # "register"
         /\ run \in [Threads -> Run] /\ run[t] \in Run
<1>1. calls[t].request = NoRequest
  BY IsAway
<1> QED BY <1>1, Plain, Mine DEF IInv, Types

\* A thread's work goes on at another pc that no configuration in hand comes with.
LEMMA GoesTokens ==
  ASSUME IInv, TokensInv, NEW t \in Threads, calls[t].pc = "done" \/ run[t].pc \in Quiet,
         UNCHANGED <<calls, token_locks, pending, made>>,
         NEW pc \in Quiet \ {"token", "confirm", "reprobe", "pop", "cancel"}, run[t].pc # "token",
         run' = [run EXCEPT ![t].pc = pc]
  PROVE  TokensInv'
<1>1. /\ calls' = [calls EXCEPT ![t] = calls[t]] /\ calls[t].request.op # "register"
      /\ run \in [Threads -> Run] /\ run[t] \in Run
  BY SelfCall
<1>2. PICK r : /\ run' = [run EXCEPT ![t] = r] /\ r.pc = pc
               /\ r.task = run[t].task /\ r.token = run[t].token /\ r.config = run[t].config
  <2> DEFINE moved == [run[t] EXCEPT !.pc = pc]
  <2>1. run' = [run EXCEPT ![t] = moved]
    BY <1>1
  <2>2. /\ moved.task = run[t].task /\ moved.token = run[t].token
        /\ moved.config = run[t].config /\ moved.pc = pc
    BY <1>1 DEF Run
  <2> HIDE DEF moved
  <2> QED BY <2>1, <2>2
<1>3. PICK call : calls' = [calls EXCEPT ![t] = call] /\ call.request.op # "register"
  BY <1>1
<1>4. Settles
  BY StaySettled
<1>5. r.pc \notin WithConfig /\ r.pc \notin {"token", "confirm", "reprobe", "pop", "cancel"}
  BY <1>2 DEF WithConfig, Quiet
<1>6. Goes(t, r, call)
  BY <1>2, <1>3 DEF Goes
<1> QED BY <1>2, <1>3, <1>4, <1>5, <1>6, SameTask

LEMMA AskTokens ==
  ASSUME IInv, TokensInv, NEW t \in Threads, NEW request \in Request, NEW pc \in Waiting,
         Ask(t, request, pc), UNCHANGED <<token_locks, pending, made>>, run[t].pc # "token",
         pc \in WithConfig => run[t].pc \in WithConfig,
         request.op = "register" => pc = "registered" /\ request.config = run[t].config
  PROVE  TokensInv'
<1> DEFINE r == [run[t] EXCEPT !.pc = pc]
<1>1. run[t] \in Run /\ run \in [Threads -> Run]
  BY Mine DEF IInv, Types
<1>2. /\ calls' = [calls EXCEPT ![t] = Asked(request)]
      /\ run' = [run EXCEPT ![t].pc = pc]
  BY DEF Ask
<1>3. run' = [run EXCEPT ![t] = r]
  BY <1>1, <1>2
<1>4. r.task = run[t].task /\ r.token = run[t].token /\ r.config = run[t].config /\ r.pc = pc
  BY <1>1 DEF Run
<1> HIDE DEF r
<1> DEFINE call == Asked(request)
<1>5. call.request = request /\ Settles /\ calls' = [calls EXCEPT ![t] = call]
  BY <1>2, StaySettled DEF Asked
<1> HIDE DEF call
<1>6. r.pc \notin {"token", "confirm", "reprobe", "pop", "cancel"}
  BY <1>4 DEF Waiting, WithEntry, WithConfig
<1>7. r.pc \in WithConfig => run[t].pc \in WithConfig
  BY <1>4
<1>8. call.request.op = "register" => r.pc = "registered" /\ call.request.config = r.config
  BY <1>4, <1>5
<1>9. Goes(t, r, call)
  BY <1>3, <1>5 DEF Goes
<1> QED BY <1>2, <1>4, <1>5, <1>6, <1>7, <1>8, <1>9, SameTask

\* The transitions and loads of the entry at hand.
LEMMA AskOfEntryTokens ==
  ASSUME IInv, TokensInv, NEW t \in Threads, run[t].pc \in WithEntry,
         NEW op \in {"mark_stale", "mark_invalid", "mark_validated"},
         NEW pc \in {"validated", "staled", "invalidated"}, AskOfEntry(t, op, pc), Inside
  PROVE  TokensInv'
<1> DEFINE e == run[t].entry
           request == Query(op, e.config, e.version, e.status)
<1>1. e \in Result /\ e.config \in Configs
  BY Mine DEF CallOK
<1>2. e.version \in 0 .. MaxFiles /\ e.status \in ConfigStatus \cup {NONE}
  BY <1>1 DEF Result
<1>3. Ask(t, request, pc)
  BY DEF AskOfEntry
<1>4. request \in Request /\ request.op = op
  BY <1>1, <1>2, QueryRequest
<1>5. pc \in Waiting /\ pc \notin WithConfig /\ run[t].pc # "token"
  BY DEF Waiting, WithEntry, WithConfig
<1> HIDE DEF request
<1> QED BY <1>3, <1>4, <1>5, AskTokens DEF Inside, Stays

LEMMA QueryTokens ==
  ASSUME IInv, TokensInv, NEW t \in Threads, NEW c \in Configs, NEW v \in 0 .. MaxFiles,
         NEW s \in ConfigStatus \cup {NONE},
         NEW op \in {"load", "load_exact", "mark_revoked", "unrevoke"},
         NEW pc \in {"reloaded", "reloaded_any", "exact", "final", "administered"},
         Ask(t, Query(op, c, v, s), pc), UNCHANGED <<token_locks, pending, made>>, run[t].pc # "token",
         pc = "final" => run[t].pc \in WithConfig
  PROVE  TokensInv'
<1> DEFINE request == Query(op, c, v, s)
<1>1. request \in Request /\ request.op = op
  BY QueryRequest
<1>2. pc \in Waiting /\ (pc \in WithConfig => pc = "final")
  BY DEF Waiting, WithEntry, WithConfig
<1> HIDE DEF request
<1>3. Ask(t, request, pc)
  BY DEF request
<1> QED BY <1>1, <1>2, <1>3, AskTokens

LEMMA ReloadsTokens ==
  ASSUME IInv, TokensInv, NEW t \in Threads, run[t].pc \in WithEntry,
         NEW pc \in {"reloaded", "reloaded_any"}, Reloads(t, pc), Inside
  PROVE  TokensInv'
<1> DEFINE c == run[t].entry.config
<1>1. c \in Configs /\ run[t].pc # "token"
  BY Mine DEF CallOK, WithEntry
<1>2. Ask(t, Query("load", c, 0, NONE), pc)
  BY DEF Reloads
<1> HIDE DEF c
<1>3. 0 \in 0 .. MaxFiles /\ NONE \in ConfigStatus \cup {NONE}
  BY Names
<1> QED BY <1>1, <1>2, <1>3, QueryTokens DEF Inside, Stays

LEMMA ExactTokens ==
  ASSUME IInv, TokensInv, NEW t \in Threads, Answer(t).kind = "entry",
         NEW pc \in {"exact", "final"}, pc = "final" => run[t].pc \in WithConfig,
         run[t].pc # "token", Inside,
         Ask(t, Query("load_exact", Answer(t).config, Answer(t).version, "active"), pc)
  PROVE  TokensInv'
<1> DEFINE a == Answer(t)
<1>1. a \in Result /\ a.config \in Configs
  BY Mine DEF CallOK, Answer
<1>2. a.version \in 0 .. MaxFiles /\ "active" \in ConfigStatus \cup {NONE}
  BY <1>1 DEF Result, ConfigStatus
<1> HIDE DEF a
<1>3. Ask(t, Query("load_exact", a.config, a.version, "active"), pc)
  BY DEF a
<1> QED BY <1>1, <1>2, <1>3, QueryTokens DEF Inside, Stays

LEMMA LookupTokens ==
  ASSUME IInv, TokensInv, NEW t \in Threads, Lookup(t), UNCHANGED <<token_locks, pending, made>>,
         NEW r \in Run, run' = [run EXCEPT ![t] = r], r.pc = "looked_up",
         r.task = run[t].task, r.token = run[t].token, r.config = run[t].config,
         run[t].pc # "token"
  PROVE  TokensInv'
<1> DEFINE request == [NoRequest EXCEPT !.op = "lookup", !.url = run[t].url]
<1>1. calls' = [calls EXCEPT ![t] = Asked(request)]
  BY DEF Lookup
<1>2. request.op = "lookup"
  BY DEF NoRequest
<1> HIDE DEF request
<1>3. Asked(request).request.op = "lookup" /\ Settles
  BY <1>2, StaySettled DEF Asked
<1>4. r.pc \notin {"token", "confirm", "reprobe", "pop", "cancel"} /\ r.pc \notin WithConfig
  BY DEF WithConfig
<1>5. Goes(t, r, Asked(request))
  BY <1>1 DEF Goes
<1> QED BY <1>3, <1>4, <1>5, SameTask

LEMMA RetriesTokens ==
  ASSUME IInv, TokensInv, NEW t \in Threads, Retries(t), UNCHANGED <<pending, made>>, run[t].pc # "token"
  PROVE  TokensInv'
<1>1. CASE run[t].attempt < MAX_ATTEMPTS
  <2> DEFINE attempt == run[t].attempt + 1
             r == [run[t] EXCEPT !.pc = "looked_up", !.attempt = attempt, !.entry = NoResult]
  <2>1. run[t] \in Run /\ run \in [Threads -> Run] /\ attempt \in 0 .. MAX_ATTEMPTS
    BY <1>1, Mine DEF IInv, Types, Run, MAX_ATTEMPTS
  <2>2. /\ Lookup(t) /\ UNCHANGED token_locks
        /\ run' = [run EXCEPT ![t].pc = "looked_up", ![t].attempt = attempt, ![t].entry = NoResult]
    BY <1>1 DEF Retries
  <2> HIDE DEF attempt
  <2>3. run' = [run EXCEPT ![t] = r]
    BY <2>1, <2>2
  <2>4. /\ r \in Run /\ r.pc = "looked_up" /\ r.task = run[t].task
        /\ r.token = run[t].token /\ r.config = run[t].config
    BY <2>1, Plain DEF Run, Waiting
  <2> HIDE DEF r
  <2> QED BY <2>2, <2>3, <2>4, LookupTokens
<1>2. CASE ~(run[t].attempt < MAX_ATTEMPTS)
  BY <1>2, ReturnsTokens, StaySettled DEF Retries
<1> QED BY <1>1, <1>2

LEMMA ConflictsTokens ==
  ASSUME IInv, TokensInv, NEW t \in Threads, Conflicts(t), UNCHANGED <<pending, made>>,
         run[t].pc # "token"
  PROVE  TokensInv'
<1>1. CASE run[t].task = "confirm"
  <2> DEFINE url == run[t].url
             token == run[t].token
             r == [NoRun EXCEPT !.pc = "guard", !.task = "fallback", !.url = url, !.token = token]
  <2>1. token \in Tokens /\ token_locks \in [Tokens -> Threads \cup {NONE}] /\ token_locks[token] = t
    BY <1>1 DEF TokensInv, ConfirmInv, PendInv
  <2>2. /\ run' = [run EXCEPT ![t] = r] /\ calls' = [calls EXCEPT ![t] = NoCall]
        /\ token_locks' = [token_locks EXCEPT ![token] = NONE]
    BY <1>1 DEF Conflicts
  <2> HIDE DEF url, token
  <2>3. r.pc = "guard" /\ r.task = "fallback" /\ r.token = token
    BY DEF NoRun
  <2> HIDE DEF r
  <2>4. Others(t) /\ run'[t] = r /\ calls'[t] = NoCall
    BY <2>2, MyRun
  <2>5. KeepsLocks(t)
    BY <2>1, <2>2 DEF KeepsLocks
  <2>6. ConfirmInv(t)'
    BY <2>1, <2>3, <2>4, Plain DEF ConfirmInv, WithConfig
  <2> QED BY <2>4, <2>5, <2>6, StaySettled, SettlesStep
<1>2. CASE run[t].task # "confirm"
  BY <1>2, RetriesTokens DEF Conflicts
<1> QED BY <1>1, <1>2

-----------------------------------------------------------------------------
(* The manager's actions once more. *)

\* An operation begins: confirm and cancel have a token that is live.
LEMMA BeginsTokens ==
  ASSUME IInv, TokensInv, NEW t \in Threads, run[t].pc \in Quiet, NEW r, UNCHANGED calls,
         run' = [run EXCEPT ![t] = r], UNCHANGED token_locks, Settles,
         \/ r.pc = "guard" /\ r.task = "resolve"
         \/ r.pc = "token" /\ r.task = "confirm" /\ r.token \in Tokens
         \/ r.pc = "cancel" /\ r.task = "cancel" /\ r.token \in Tokens
         \/ r.pc = "idle" /\ r.task = NONE
  PROVE  TokensInv'
<1>1. /\ calls' = [calls EXCEPT ![t] = calls[t]] /\ calls[t].request.op # "register"
  BY SelfCall
<1>2. Others(t) /\ run'[t] = r /\ calls'[t] = calls[t] /\ KeepsLocks(t)
  BY <1>1, MyRun, LocksStay
<1>3. ConfirmInv(t)'
  BY <1>1, <1>2 DEF ConfirmInv, WithConfig, NONE
<1> QED BY <1>2, <1>3, SettlesStep

LEMMA resolveTokens ==
  ASSUME IInv, TokensInv, NEW t \in Threads, NEW url \in Urls, resolve(t, url)
  PROVE  TokensInv'
<1> DEFINE r == [NoRun EXCEPT !.pc = "guard", !.task = "resolve", !.url = url]
<1>1. /\ run' = [run EXCEPT ![t] = r] /\ UNCHANGED <<calls, token_locks, pending, made>>
      /\ run[t].pc \in Quiet
  BY DEF resolve, Doing, Quiet, registryVars
<1>2. r.pc = "guard" /\ r.task = "resolve"
  BY DEF NoRun
<1> HIDE DEF r
<1> QED BY <1>1, <1>2, BeginsTokens, StaySettled

\* The token had run out: nothing has begun.
LEMMA NotBegun ==
  ASSUME IInv, TokensInv, NEW t \in Threads, Settles, UNCHANGED <<run, calls, token_locks>>
  PROVE  TokensInv'
<1>1. Others(t) /\ KeepsLocks(t)
  BY LocksStay DEF Others
<1>2. ConfirmInv(t) /\ (run[t].pc \in WithConfig => run[t].pc # "token")
  BY DEF TokensInv, WithConfig
<1>3. run[t].pc \in WithConfig => InHand(t)'
  <2> SUFFICES ASSUME run[t].pc \in WithConfig, NEW k \in Tokens, Given(k)',
                      pending'[k].config = run[t].config
               PROVE  run[t].task = "confirm" /\ run[t].token = k /\ pending'[k].state # "cancelled"
    BY <1>2 DEF InHand, Settles, ConfirmInv
  <2>1. InHand(t) /\ Given(k) /\ pending[k].config = run[t].config
    BY <1>2 DEF ConfirmInv, Given, Settles
  <2>2. run[t].task = "confirm" /\ run[t].token = k /\ pending[k].state # "cancelled"
    BY <2>1 DEF InHand
  <2>3. token_locks[k] = t /\ t # NONE
    BY <1>2, <2>2, Names DEF ConfirmInv
  <2> QED BY <2>2, <2>3 DEF Settles
<1>4. ConfirmInv(t)'
  BY <1>2, <1>3 DEF ConfirmInv
<1> QED BY <1>1, <1>4, SettlesStep

LEMMA confirmTokens ==
  ASSUME IInv, TokensInv, NEW t \in Threads, NEW k \in Tokens, NEW o \in Overrides \cup {NONE},
         confirm(t, k, o) \/ cancel(t, k)
  PROVE  TokensInv'
<1> DEFINE url == pending[k].url
           asks == [NoRun EXCEPT !.pc = "token", !.task = "confirm", !.token = k,
                                 !.url = url, !.overrides = o]
           gives == [NoRun EXCEPT !.pc = "cancel", !.task = "cancel", !.token = k]
<1>1. run[t].pc \in Quiet /\ UNCHANGED <<calls, token_locks, made>>
  BY DEF confirm, cancel, Doing, Quiet, registryVars
<1>2. \/ run' = [run EXCEPT ![t] = asks] /\ UNCHANGED pending
      \/ run' = [run EXCEPT ![t] = gives] /\ UNCHANGED pending
      \/ run' = run /\ pending' = Forget({k})
  BY DEF confirm, cancel
<1> HIDE DEF url
<1>3. /\ asks.pc = "token" /\ asks.task = "confirm" /\ asks.token = k
      /\ gives.pc = "cancel" /\ gives.task = "cancel" /\ gives.token = k
  BY DEF NoRun
<1> HIDE DEF asks, gives
<1>4. Settles
  BY <1>1, <1>2, StaySettled, ForgetSettled
<1>5. CASE run' = [run EXCEPT ![t] = asks]
  BY <1>1, <1>3, <1>4, <1>5, BeginsTokens
<1>6. CASE run' = [run EXCEPT ![t] = gives]
  BY <1>1, <1>3, <1>4, <1>6, BeginsTokens
<1>7. CASE run' = run
  BY <1>1, <1>4, <1>7, NotBegun
<1> QED BY <1>2, <1>5, <1>6, <1>7

LEMMA guardTokens ==
  ASSUME IInv, TokensInv, NEW t \in Threads, _resolution_guard(t)
  PROVE  TokensInv'
<1>1. run[t].pc = "guard" /\ run[t].pc \in Quiet /\ UNCHANGED token_locks /\ Stays
  BY DEF _resolution_guard, Doing, Quiet
<1>2. run[t] \in Run /\ run \in [Threads -> Run] /\ ConfirmInv(t)
  BY Mine DEF IInv, Types, TokensInv
<1>3. CASE run[t].task = "confirm"
  <2> DEFINE r == [run[t] EXCEPT !.pc = "confirm"]
  <2>1. run' = [run EXCEPT ![t].pc = "confirm"] /\ UNCHANGED calls
    BY <1>3 DEF _resolution_guard, registryVars
  <2>2. run' = [run EXCEPT ![t] = r]
    BY <1>2, <2>1
  <2>3. r.pc = "confirm" /\ r.task = run[t].task /\ r.token = run[t].token
    BY <1>2 DEF Run
  <2> HIDE DEF r
  <2>4. calls' = [calls EXCEPT ![t] = calls[t]] /\ calls[t].request.op # "register"
    BY <1>1, <2>1, SelfCall
  <2>5. Others(t) /\ run'[t] = r /\ calls'[t] = calls[t] /\ KeepsLocks(t)
    BY <1>1, <2>2, <2>4, MyRun, LocksStay
  <2>6. ConfirmInv(t)'
    BY <1>1, <1>2, <1>3, <2>3, <2>4, <2>5 DEF ConfirmInv, WithConfig
  <2> QED BY <1>1, <2>5, <2>6, StaySettled, SettlesStep DEF Stays
<1>4. CASE run[t].task # "confirm"
  <2> DEFINE r == [run[t] EXCEPT !.pc = "looked_up", !.attempt = 1]
  <2>1. Lookup(t) /\ run' = [run EXCEPT ![t].pc = "looked_up", ![t].attempt = 1]
    BY <1>4 DEF _resolution_guard
  <2>2. run' = [run EXCEPT ![t] = r]
    BY <1>2, <2>1
  <2>3. /\ r \in Run /\ r.pc = "looked_up" /\ r.task = run[t].task /\ r.token = run[t].token
        /\ r.config = run[t].config
    <3>1. "looked_up" \in Waiting /\ 1 \in 0 .. MAX_ATTEMPTS
      BY DEF Waiting, MAX_ATTEMPTS
    <3> QED BY <1>2, <3>1 DEF Run
  <2> HIDE DEF r
  <2> QED BY <1>1, <2>1, <2>2, <2>3, LookupTokens DEF Stays
<1> QED BY <1>3, <1>4

LEMMA resolveLockedTokens ==
  ASSUME IInv, TokensInv, NEW t \in Threads, _resolve_locked(t)
  PROVE  TokensInv'
<1>1. /\ calls[t].pc = "done" /\ run[t].pc = "looked_up" /\ Stays
      /\ UNCHANGED <<pending, made>>
  BY DEF _resolve_locked, Answered, At, Doing, Stays
<1>2. CASE Answer(t).kind = "missing"
  <2>1. /\ run' = [run EXCEPT ![t].pc = "probe"] /\ UNCHANGED <<calls, token_locks, pending, made>>
    BY <1>1, <1>2 DEF _resolve_locked, registryVars
  <2>2. "probe" \in Quiet \ {"token", "confirm", "reprobe", "pop", "cancel"}
    BY DEF Quiet
  <2> QED BY <1>1, <2>1, <2>2, GoesTokens
<1>3. CASE Answer(t).kind = "entry"
  <2> DEFINE a == Answer(t)
             request == Query("load", a.config, a.version, NONE)
             r == [run[t] EXCEPT !.pc = "loaded", !.entry = a]
             call == Asked(request)
  <2>1. run[t] \in Run /\ run \in [Threads -> Run]
    BY Mine DEF IInv, Types
  <2>2. /\ calls' = [calls EXCEPT ![t] = call] /\ UNCHANGED token_locks
        /\ run' = [run EXCEPT ![t].pc = "loaded", ![t].entry = a]
    BY <1>3 DEF _resolve_locked
  <2> HIDE DEF a
  <2>3. run' = [run EXCEPT ![t] = r]
    BY <2>1, <2>2
  <2>4. /\ r.pc = "loaded" /\ r.task = run[t].task /\ r.token = run[t].token
        /\ r.config = run[t].config
    BY <2>1 DEF Run
  <2> HIDE DEF r
  <2>5. call.request.op = "load"
    BY DEF Asked, Query
  <2> HIDE DEF call
  <2>6. r.pc \notin {"token", "confirm", "reprobe", "pop", "cancel"} /\ r.pc \notin WithConfig
    BY <2>4 DEF WithConfig
  <2>7. call.request.op = "register" => r.pc = "registered" /\ call.request.config = r.config
    BY <2>5
  <2>8. Goes(t, r, call) /\ Settles
    BY <1>1, <2>2, <2>3, StaySettled DEF Goes
  <2> QED BY <1>1, <2>2, <2>4, <2>6, <2>7, <2>8, SameTask
<1>4. CASE Answer(t).kind \notin {"missing", "entry"}
  BY <1>1, <1>4, StaySettled, ReturnsTokens DEF _resolve_locked
<1> QED BY <1>2, <1>3, <1>4

LEMMA revalidateTokens ==
  ASSUME IInv, TokensInv, NEW t \in Threads, revalidate(t)
  PROVE  TokensInv'
<1>1. run[t].pc \in WithEntry
  BY DEF revalidate, Answered, Doing, WithEntry
<1>2. CASE AskOfEntry(t, "mark_invalid", "invalidated") /\ Inside
  BY <1>1, <1>2, AskOfEntryTokens
<1>3. CASE Returns(t) /\ Stays
  BY <1>3, StaySettled, ReturnsTokens DEF Stays
<1>4. CASE \E verdict \in Verdicts :
             verdict # "none" /\ AskOfEntry(t, verdict, AfterVerdict[verdict]) /\ Inside
  <2>1. PICK verdict \in Verdicts :
          verdict # "none" /\ AskOfEntry(t, verdict, AfterVerdict[verdict]) /\ Inside
    BY <1>4
  <2>2. /\ verdict \in {"mark_stale", "mark_invalid", "mark_validated"}
        /\ AfterVerdict[verdict] \in {"validated", "staled", "invalidated"}
    BY <2>1 DEF Verdicts, AfterVerdict
  <2> QED BY <1>1, <2>1, <2>2, AskOfEntryTokens
<1> QED BY <1>2, <1>3, <1>4 DEF revalidate

\* What _mark_valid, _stale, _invalid, concurrent_revision and reuse have in common.
LEMMA verdictTokens ==
  ASSUME IInv, TokensInv, NEW t \in Threads,
         _mark_valid(t) \/ _stale(t) \/ _invalid(t) \/ concurrent_revision(t) \/ reuse(t)
  PROVE  TokensInv'
<1>1. /\ run[t].pc \in WithEntry \cup {"exact"} /\ calls[t].pc = "done" /\ run[t].pc # "token"
      /\ _mark_valid(t) \/ _stale(t) \/ _invalid(t) => run[t].pc \in WithEntry
  BY DEF _mark_valid, _stale, _invalid, concurrent_revision, reuse, Answered, Doing, At, WithEntry
<1>2. CASE /\ Answer(t).kind = "entry" /\ Inside
           /\ Ask(t, Query("load_exact", Answer(t).config, Answer(t).version, "active"), "exact")
  BY <1>1, <1>2, ExactTokens
<1>3. ASSUME NEW pc \in {"reloaded", "reloaded_any"}, Reloads(t, pc), Inside, run[t].pc \in WithEntry
      PROVE  TokensInv'
  BY <1>3, ReloadsTokens
<1>4. CASE AskOfEntry(t, "mark_invalid", "invalidated") /\ Inside /\ run[t].pc \in WithEntry
  BY <1>4, AskOfEntryTokens
<1>5. CASE Returns(t) /\ Stays
  BY <1>5, StaySettled, ReturnsTokens DEF Stays
<1>6. CASE run' = [run EXCEPT ![t].pc = "probe"] /\ UNCHANGED registryVars /\ Inside
  <2>1. UNCHANGED <<calls, token_locks, pending, made>>
    BY <1>6 DEF registryVars, Inside, Stays
  <2>2. "probe" \in Quiet \ {"token", "confirm", "reprobe", "pop", "cancel"}
    BY DEF Quiet
  <2> QED BY <1>1, <1>6, <2>1, <2>2, GoesTokens
<1>7. CASE Retries(t) /\ Stays
  BY <1>1, <1>7, RetriesTokens DEF Stays
<1>8. CASE _mark_valid(t)
  BY <1>1, <1>2, <1>3, <1>4, <1>5, <1>8 DEF _mark_valid
<1>9. CASE _stale(t)
  BY <1>1, <1>3, <1>4, <1>5, <1>6, <1>9 DEF _stale
<1>10. CASE _invalid(t)
  BY <1>1, <1>3, <1>5, <1>6, <1>10 DEF _invalid
<1>11. CASE concurrent_revision(t) \/ reuse(t)
  BY <1>5, <1>7, <1>11 DEF concurrent_revision, reuse
<1> QED BY <1>8, <1>9, <1>10, <1>11

\* A configuration comes into a thread's hand, and nothing else than it or the token under
\* which it waits changes.
Checks(t, c) ==
  /\ Lookup(t) /\ run' = [run EXCEPT ![t].pc = "checked", ![t].config = c]
  /\ UNCHANGED token_locks

LEMMA InHandTokens ==
  ASSUME IInv, TokensInv, NEW t \in Threads, NEW c \in Configs, Checks(t, c), run[t].pc # "token",
         PendInv', made \subseteq made', c \in made',
         \A k \in Tokens : Given(k)' /\ pending'[k].config = c =>
           run[t].task = "confirm" /\ run[t].token = k /\ pending'[k].state # "cancelled",
         \A k \in Tokens : pending'[k].state # "unused" /\ pending'[k].config \in made =>
           /\ Given(k) /\ pending'[k].config = pending[k].config
           /\ pending'[k].state = "cancelled" => pending[k].state = "cancelled" \/ token_locks[k] = NONE
  PROVE  TokensInv'
<1> DEFINE r == [run[t] EXCEPT !.pc = "checked", !.config = c]
           call == Asked([NoRequest EXCEPT !.op = "lookup", !.url = run[t].url])
<1>1. run[t] \in Run /\ run \in [Threads -> Run] /\ ConfirmInv(t)
  BY Mine DEF IInv, Types, TokensInv
<1>2. run' = [run EXCEPT ![t] = r] /\ UNCHANGED token_locks
  BY <1>1 DEF Checks
<1>3. r.pc = "checked" /\ r.config = c /\ r.task = run[t].task /\ r.token = run[t].token
  BY <1>1 DEF Run
<1> HIDE DEF r
<1>4. calls' = [calls EXCEPT ![t] = call] /\ call.request.op = "lookup"
  BY DEF Checks, Lookup, Asked, NoRequest
<1> HIDE DEF call
<1>5. Others(t) /\ run'[t] = r /\ calls'[t] = call /\ KeepsLocks(t)
  <2>1. Others(t) /\ run'[t] = r /\ calls'[t] = call
    <3>1. calls \in [Threads -> Call]
      BY DEF IInv, Types
    <3>2. run'[t] = r /\ \A u \in Threads \ {t} : run'[u] = run[u]
      BY <1>1, <1>2
    <3>3. calls'[t] = call /\ \A u \in Threads \ {t} : calls'[u] = calls[u]
      BY <1>4, <3>1
    <3> QED BY <3>2, <3>3 DEF Others
  <2>2. KeepsLocks(t)
    BY <1>2, LocksStay
  <2> QED BY <2>1, <2>2
<1>6. InHand(t)'
  BY <1>3, <1>5 DEF InHand
<1>7. ConfirmInv(t)'
  BY <1>1, <1>2, <1>3, <1>4, <1>5, <1>6 DEF ConfirmInv
<1> QED BY <1>5, <1>7, OthersStep

LEMMA fromProbeTokens ==
  ASSUME IInv, TokensInv, NEW t \in Threads, _from_probe(t)
  PROVE  TokensInv'
<1>1. run[t].pc = "probe" /\ PendInv
  BY DEF _from_probe, Doing, TokensInv
<1>2. CASE Returns(t) /\ Stays
  BY <1>2, StaySettled, ReturnsTokens DEF Stays
<1>3. ASSUME NEW c \in _materialize(run[t].url), NEW k \in Tokens, NEW purged \in SUBSET Tokens,
             pending[k].state = "unused", made' = made \cup {c}, Returns(t),
             pending' = [Forget(purged) EXCEPT ![k] =
                    [state |-> "live", url |-> run[t].url, config |-> c, overrides |-> NONE]]
      PROVE  TokensInv'
  <2> DEFINE url == run[t].url
             p == [state |-> "live", url |-> url, config |-> c, overrides |-> NONE]
             before == Forget(purged)
  <2>1. c \in Configs /\ c \notin made /\ url \in Urls \cup {NONE}
    BY Mine DEF _materialize, Run
  <2> HIDE DEF url
  <2>2. p \in Pending /\ p.state = "live" /\ p.config = c
    BY <2>1 DEF Pending
  <2> HIDE DEF p
  <2>3. /\ before \in [Tokens -> Pending]
        /\ \A l \in Tokens : /\ before[l].config = pending[l].config
                             /\ before[l].state = "unused" <=> pending[l].state = "unused"
                             /\ before[l].state = "cancelled" => pending[l].state = "cancelled"
    BY ForgetFacts
  <2> HIDE DEF before
  <2>4. pending' = [before EXCEPT ![k] = p]
    BY <1>3 DEF p, before, url
  <2>5. /\ pending' \in [Tokens -> Pending] /\ pending'[k] = p
        /\ \A l \in Tokens \ {k} : pending'[l] = before[l]
    BY <2>2, <2>3, <2>4
  <2>6. Others(t) /\ KeepsLocks(t) /\ ConfirmInv(t)'
    BY <1>3, LeavesLocks
  <2>7. PendInv'
    <3>1. \A l \in Tokens : Given(l)' => pending'[l].config \in made'
      BY <1>1, <1>3, <2>2, <2>3, <2>5 DEF PendInv, Given
    <3>2. ASSUME NEW l \in Tokens, NEW m \in Tokens, Given(l)', Given(m)',
                 pending'[l].config = pending'[m].config
          PROVE  l = m
      <4>1. CASE l # k /\ m # k
        BY <1>1, <2>3, <2>5, <3>2, <4>1 DEF PendInv, Given
      <4>2. ASSUME NEW n \in Tokens, n # k, Given(n)' PROVE pending'[n].config # c
        BY <1>1, <2>1, <2>3, <2>5, <4>2 DEF PendInv, Given
      <4>3. pending'[k].config = c
        BY <2>2, <2>5
      <4> QED BY <3>2, <4>1, <4>2, <4>3
    <3> QED BY <1>1, <1>3, <2>1, <2>5, <2>6, <3>1, <3>2 DEF PendInv, KeepsLocks
  <2>8. \A l \in Tokens : pending'[l].state # "unused" /\ pending'[l].config \in made =>
          /\ Given(l) /\ pending'[l].config = pending[l].config
          /\ pending'[l].state = "cancelled" => pending[l].state = "cancelled" \/ token_locks[l] = NONE
    BY <2>1, <2>2, <2>3, <2>5 DEF Given
  <2> QED BY <1>3, <2>6, <2>7, <2>8, OthersStep
<1>4. ASSUME NEW c \in _materialize(run[t].url), made' = made \cup {c}, Lookup(t),
             run' = [run EXCEPT ![t].pc = "checked", ![t].config = c],
             UNCHANGED <<pending, token_locks>>
      PROVE  TokensInv'
  <2>1. c \in Configs /\ c \notin made
    BY DEF _materialize
  <2>2. PendInv'
    BY <1>1, <1>4, <2>1 DEF PendInv, Given
  <2>3. \A k \in Tokens : Given(k)' => pending'[k].config # c
    BY <1>1, <1>4, <2>1 DEF PendInv, Given
  <2>4. \A k \in Tokens : pending'[k].state # "unused" /\ pending'[k].config \in made =>
          /\ Given(k) /\ pending'[k].config = pending[k].config
          /\ pending'[k].state = "cancelled" => pending[k].state = "cancelled" \/ token_locks[k] = NONE
    BY <1>4 DEF Given
  <2>5. made \subseteq made' /\ c \in made' /\ run[t].pc # "token"
    BY <1>1, <1>4
  <2>6. Checks(t, c)
    BY <1>4 DEF Checks
  <2> QED BY <2>1, <2>2, <2>3, <2>4, <2>5, <2>6, InHandTokens
<1> QED BY <1>2, <1>3, <1>4 DEF _from_probe

LEMMA registersTokens ==
  ASSUME IInv, TokensInv, NEW t \in Threads, check_existing(t) \/ _register(t)
  PROVE  TokensInv'
<1>1. run[t].pc \in WithConfig /\ run[t].pc # "token" /\ run[t].config \in Configs
  BY Mine DEF check_existing, _register, Answered, Doing, WithConfig, CallOK
<1>2. CASE Ask(t, Query("register", run[t].config, 0, NONE), "registered") /\ Inside
  <2> DEFINE c == run[t].config
             request == Query("register", c, 0, NONE)
  <2>1. request \in Request /\ request.config = c
    BY <1>1, Names, QueryRequest
  <2>2. "registered" \in Waiting
    BY DEF Waiting, WithConfig
  <2> HIDE DEF request
  <2>3. Ask(t, request, "registered")
    BY <1>2 DEF request
  <2> QED BY <1>1, <1>2, <2>1, <2>2, <2>3, AskTokens DEF Inside, Stays
<1>3. CASE Conflicts(t) /\ Stays
  BY <1>1, <1>3, ConflictsTokens DEF Stays
<1>4. CASE Returns(t) /\ Stays
  BY <1>4, StaySettled, ReturnsTokens DEF Stays
<1>5. CASE /\ Answer(t).kind = "entry" /\ Inside
           /\ Ask(t, Query("load_exact", Answer(t).config, Answer(t).version, "active"), "final")
  BY <1>1, <1>5, ExactTokens
<1> QED BY <1>2, <1>3, <1>4, <1>5 DEF check_existing, _register

LEMMA registeredTokens ==
  ASSUME IInv, TokensInv, NEW t \in Threads, registered(t) \/ administered(t)
  PROVE  TokensInv'
<1>1. CASE administered(t)
  BY <1>1, StaySettled, ReturnsTokens DEF administered, Stays
<1>2. CASE registered(t)
  <2> DEFINE k == run[t].token
  <2>1. run[t].pc = "final" /\ made' = made /\ ConfirmInv(t)
    BY <1>2 DEF registered, Answered, Doing, TokensInv
  <2>2. CASE Conflicts(t) /\ UNCHANGED pending
    BY <2>1, <2>2, ConflictsTokens
  <2>3. CASE Returns(t) /\ UNCHANGED pending
    BY <2>1, <2>3, StaySettled, ReturnsTokens
  <2>4. CASE /\ Returns(t) /\ run[t].task = "confirm" /\ pending[k].state = "live"
             /\ pending' = [pending EXCEPT ![k].state = "gone"]
    <3>1. k \in Tokens
      BY <2>1, <2>4 DEF ConfirmInv
    <3>2. pending' = [pending EXCEPT ![k].state = IF @ = "live" THEN "gone" ELSE @]
      BY <2>4, <3>1 DEF TokensInv, PendInv
    <3>3. Settles
      BY <2>1, <3>1, <3>2, SettlesOne
    <3> QED BY <2>4, <3>3, ReturnsTokens
  <2> QED BY <1>2, <2>2, <2>3, <2>4 DEF registered
<1> QED BY <1>1, <1>2

LEMMA tokenLockTokens ==
  ASSUME IInv, TokensInv, NEW t \in Threads, token_lock(t)
  PROVE  TokensInv'
<1> DEFINE k == run[t].token
           r == [run[t] EXCEPT !.pc = "guard"]
<1>1. /\ run[t].pc = "token" /\ run[t].pc \in Quiet /\ token_locks[k] = NONE
      /\ token_locks' = [token_locks EXCEPT ![k] = t] /\ UNCHANGED <<calls, pending, made>>
      /\ run' = [run EXCEPT ![t].pc = "guard"]
  BY DEF token_lock, Doing, Quiet, registryVars, Stays
<1>2. run[t] \in Run /\ run \in [Threads -> Run] /\ ConfirmInv(t)
  BY Mine DEF IInv, Types, TokensInv
<1>3. k \in Tokens /\ run[t].task = "confirm"
  BY <1>1, <1>2 DEF ConfirmInv
<1>4. run' = [run EXCEPT ![t] = r]
  BY <1>1, <1>2
<1>5. r.pc = "guard" /\ r.task = "confirm" /\ r.token = k
  BY <1>2, <1>3 DEF Run
<1> HIDE DEF r
<1>6. calls' = [calls EXCEPT ![t] = calls[t]] /\ calls[t].request.op # "register"
  BY <1>1, SelfCall
<1>7. Others(t) /\ run'[t] = r /\ calls'[t] = calls[t]
  BY <1>4, <1>6, MyRun
<1>8. KeepsLocks(t) /\ token_locks'[k] = t
  BY <1>1, <1>3, Names DEF KeepsLocks, TokensInv, PendInv
<1>9. ConfirmInv(t)'
  BY <1>3, <1>5, <1>6, <1>7, <1>8 DEF ConfirmInv, WithConfig
<1> QED BY <1>1, <1>7, <1>8, <1>9, StaySettled, SettlesStep

LEMMA confirmLockedTokens ==
  ASSUME IInv, TokensInv, NEW t \in Threads, confirm_locked(t)
  PROVE  TokensInv'
<1> DEFINE token == run[t].token
           waits == pending[token].config
<1>1. run[t].pc = "confirm" /\ run[t].pc \in Quiet /\ made' = made
  BY DEF confirm_locked, Doing, Quiet
<1>2. run[t] \in Run /\ run \in [Threads -> Run] /\ ConfirmInv(t) /\ PendInv
  BY Mine DEF IInv, Types, TokensInv
<1>3. token \in Tokens /\ run[t].task = "confirm" /\ token_locks[token] = t
  BY <1>1, <1>2 DEF ConfirmInv
<1>4. CASE Returns(t) /\ pending' = Forget({token})
  BY <1>1, <1>4, ForgetSettled, ReturnsTokens
<1>5. CASE Returns(t) /\ UNCHANGED pending
  BY <1>1, <1>5, StaySettled, ReturnsTokens
<1>6. CASE /\ pending[token].state = "live" /\ run' = [run EXCEPT ![t].pc = "reprobe", ![t].config = waits]
           /\ UNCHANGED <<registryVars, token_locks, pending>>
  <2> DEFINE r == [run[t] EXCEPT !.pc = "reprobe", !.config = waits]
  <2>1. run' = [run EXCEPT ![t] = r] /\ UNCHANGED calls
    BY <1>2, <1>6 DEF registryVars
  <2>2. r.pc = "reprobe" /\ r.task = "confirm" /\ r.token = token
    BY <1>2, <1>3 DEF Run
  <2> HIDE DEF r
  <2>3. calls' = [calls EXCEPT ![t] = calls[t]] /\ calls[t].request.op # "register"
    BY <1>1, <2>1, SelfCall
  <2>4. Others(t) /\ run'[t] = r /\ calls'[t] = calls[t] /\ KeepsLocks(t)
    BY <1>6, <2>1, <2>3, MyRun, LocksStay
  <2>5. ConfirmInv(t)'
    BY <1>3, <1>6, <2>2, <2>3, <2>4 DEF ConfirmInv, WithConfig
  <2> QED BY <1>1, <1>6, <2>4, <2>5, StaySettled, SettlesStep
<1>7. ASSUME NEW d \in made, d = waits, pending[token].state = "live", Lookup(t),
             run' = [run EXCEPT ![t].pc = "checked", ![t].config = d],
             UNCHANGED <<token_locks, pending>>
      PROVE  TokensInv'
  <2>1. PendInv'
    BY <1>1, <1>2, <1>7 DEF PendInv, Given
  <2>2. \A l \in Tokens : Given(l)' /\ pending'[l].config = d =>
          run[t].task = "confirm" /\ run[t].token = l /\ pending'[l].state # "cancelled"
    BY <1>2, <1>3, <1>7 DEF PendInv, Given
  <2>3. \A l \in Tokens : pending'[l].state # "unused" /\ pending'[l].config \in made =>
          /\ Given(l) /\ pending'[l].config = pending[l].config
          /\ pending'[l].state = "cancelled" => pending[l].state = "cancelled" \/ token_locks[l] = NONE
    BY <1>7 DEF Given
  <2>4. /\ run[t].pc # "token" /\ made \subseteq made' /\ d \in made'
        /\ token_locks' = token_locks /\ d \in Configs
    BY <1>1, <1>2, <1>7 DEF PendInv
  <2>5. Checks(t, d)
    BY <1>7, <2>4 DEF Checks
  <2> QED BY <1>7, <2>1, <2>2, <2>3, <2>4, <2>5, InHandTokens
<1>8. pending[token].state = "live" => waits \in made
  BY <1>2, <1>3 DEF Given, PendInv
<1> QED BY <1>4, <1>5, <1>6, <1>7, <1>8 DEF confirm_locked

LEMMA confirmOverridesTokens ==
  ASSUME IInv, TokensInv, NEW t \in Threads, confirm_overrides(t)
  PROVE  TokensInv'
<1> DEFINE k == run[t].token
<1>1. run[t].pc = "reprobe"
  BY DEF confirm_overrides, Doing
<1>2. run[t] \in Run /\ ConfirmInv(t) /\ PendInv
  BY Mine DEF TokensInv
<1>3. k \in Tokens /\ run[t].task = "confirm"
  BY <1>1, <1>2 DEF ConfirmInv
<1>4. CASE Returns(t) /\ UNCHANGED <<pending, made>>
  BY <1>4, StaySettled, ReturnsTokens
<1>5. ASSUME NEW c \in _materialize(run[t].url), pending[k].state = "live", made' = made \cup {c},
             pending' = [pending EXCEPT ![k].config = c, ![k].overrides = run[t].overrides],
             Lookup(t), run' = [run EXCEPT ![t].pc = "checked", ![t].config = c],
             UNCHANGED token_locks
      PROVE  TokensInv'
  <2> DEFINE o == run[t].overrides
             p == [pending[k] EXCEPT !.config = c, !.overrides = o]
  <2>1. c \in Configs /\ c \notin made /\ o \in Overrides \cup {NONE} /\ pending \in [Tokens -> Pending]
    BY <1>2 DEF _materialize, Run, PendInv
  <2> HIDE DEF o
  <2>2. pending' = [pending EXCEPT ![k] = p]
    <3>1. pending[k] \in Pending
      BY <1>3, <2>1
    <3>2. pending' = [pending EXCEPT ![k].config = c, ![k].overrides = o]
      BY <1>5 DEF o
    <3> QED BY <1>3, <2>1, <3>1, <3>2
  <2>3. p \in Pending /\ p.config = c /\ p.state = "live"
    <3>1. pending[k] \in Pending /\ pending[k].state = "live"
      BY <1>3, <1>5, <2>1
    <3>2. p \in Pending
      BY <2>1, <3>1 DEF Pending
    <3>3. p.config = c /\ p.state = "live"
      BY <3>1 DEF Pending
    <3> QED BY <3>2, <3>3
  <2> HIDE DEF p
  <2>4. /\ pending' \in [Tokens -> Pending] /\ pending'[k] = p
        /\ \A l \in Tokens \ {k} : pending'[l] = pending[l]
    BY <1>3, <2>1, <2>2, <2>3
  <2>5. \A l \in Tokens \ {k} : Given(l)' => pending'[l].config \in made
    BY <1>2, <2>4 DEF PendInv, Given
  <2>6. PendInv'
    <3>1. \A l \in Tokens : Given(l)' => pending'[l].config \in made'
      BY <1>5, <2>3, <2>4, <2>5
    <3>2. ASSUME NEW l \in Tokens, NEW m \in Tokens, Given(l)', Given(m)',
                 pending'[l].config = pending'[m].config
          PROVE  l = m
      <4>1. CASE l # k /\ m # k
        BY <1>2, <2>4, <3>2, <4>1 DEF PendInv, Given
      <4>2. pending'[k].config = c
        BY <2>3, <2>4
      <4> QED BY <2>1, <2>5, <3>2, <4>1, <4>2
    <3> QED BY <1>2, <1>5, <2>1, <2>4, <3>1, <3>2 DEF PendInv
  <2>7. \A l \in Tokens : Given(l)' /\ pending'[l].config = c =>
          run[t].task = "confirm" /\ run[t].token = l /\ pending'[l].state # "cancelled"
    BY <1>3, <2>1, <2>3, <2>4, <2>5
  <2>8. \A l \in Tokens : pending'[l].state # "unused" /\ pending'[l].config \in made =>
          /\ Given(l) /\ pending'[l].config = pending[l].config
          /\ pending'[l].state = "cancelled" => pending[l].state = "cancelled" \/ token_locks[l] = NONE
    BY <2>1, <2>3, <2>4 DEF Given
  <2>9. /\ Checks(t, c)
        /\ run[t].pc # "token" /\ made \subseteq made' /\ c \in made'
    BY <1>1, <1>5 DEF Checks
  <2> QED BY <2>1, <2>6, <2>7, <2>8, <2>9, InHandTokens
<1> QED BY <1>4, <1>5 DEF confirm_overrides

LEMMA popTokens ==
  ASSUME IInv, TokensInv, NEW t \in Threads, pop(t) \/ cancel_locked(t)
  PROVE  TokensInv'
<1> DEFINE k == run[t].token
<1>1. /\ run[t].pc \in {"pop", "cancel"} /\ run[t].pc \in Quiet /\ run' = [run EXCEPT ![t] = NoRun]
      /\ UNCHANGED <<calls, token_locks, made>> /\ ConfirmInv(t)
  BY DEF pop, cancel_locked, Doing, Quiet, registryVars, TokensInv
<1>2. k \in Tokens
  BY <1>1 DEF ConfirmInv
<1>3. \/ UNCHANGED pending
      \/ pending' = [pending EXCEPT ![k].state = IF @ = "live" THEN "gone" ELSE @]
      \/ /\ pending' = [pending EXCEPT ![k].state = IF @ = "live" THEN "cancelled" ELSE @]
         /\ token_locks[k] = NONE
  BY DEF pop, cancel_locked
<1>4. Settles
  BY <1>1, <1>2, <1>3, StaySettled, SettlesOne
<1>5. NoRun.pc = "idle" /\ NoRun.task = NONE
  BY DEF NoRun
<1> QED BY <1>1, <1>4, <1>5, BeginsTokens

LEMMA administerTokens ==
  ASSUME IInv, TokensInv, NEW t \in Threads, NEW op \in {"mark_revoked", "unrevoke"},
         NEW c \in Configs, administer(t, op, c)
  PROVE  TokensInv'
<1> DEFINE request == Query(op, c, 0, NONE)
<1>1. /\ Ask(t, request, "administered") /\ run[t].pc # "token" /\ UNCHANGED <<token_locks, pending, made>>
  BY DEF administer, Doing
<1>2. request \in Request /\ request.op = op
  BY Names, QueryRequest
<1>3. "administered" \in Waiting /\ "administered" \notin WithConfig
  BY DEF Waiting, WithEntry, WithConfig
<1> HIDE DEF request
<1> QED BY <1>1, <1>2, <1>3, AskTokens

\* What a step of the registry does to the calls: an answer, or the same question further on.
LEMMA RegistryCalls ==
  ASSUME IInv, NEW t \in Threads, RegistryStep(t) \/ RegistryFault(t), NEW u \in Threads
  PROVE  calls'[u].request \in {calls[u].request, NoRequest}
<1>1. calls \in [Threads -> Call]
  BY DEF IInv, Types
<1>2. ASSUME NEW pc, Goto(t, pc) PROVE calls'[u].request = calls[u].request
  BY <1>1, <1>2 DEF Goto, Call
<1>3. ASSUME NEW result, Ends(t, result) PROVE calls'[u].request \in {calls[u].request, NoRequest}
  BY <1>1, <1>3 DEF Ends
<1>4. CASE _global_lock(t) \/ _quarantine_path(t) \/ _recover(t) \/ _write_manifest(t)
  BY <1>2, <1>3, <1>4 DEF _global_lock, _quarantine_path, _recover, _write_manifest, Raises
<1>5. CASE lookup(t) \/ load(t) \/ load_exact(t)
  BY <1>3, <1>5 DEF lookup, load, load_exact, Loads, Raises
<1>6. CASE register(t) \/ _transition(t)
  BY <1>2, <1>3, <1>6 DEF register, _transition, _write_revision, Raises
<1>7. CASE lock_timeout(t) \/ io_error(t)
  BY <1>1, <1>3, <1>7 DEF lock_timeout, io_error, Raises
<1> QED BY <1>4, <1>5, <1>6, <1>7 DEF RegistryStep, RegistryFault

LEMMA RegistryTokens ==
  ASSUME TokensInv, UNCHANGED managerVars,
         \A u \in Threads : calls'[u].request \in {calls[u].request, NoRequest}
  PROVE  TokensInv'
<1>1. PendInv'
  BY DEF TokensInv, PendInv, managerVars, Given
<1>2. ASSUME NEW u \in Threads PROVE ConfirmInv(u)'
  <2>1. ConfirmInv(u) /\ UNCHANGED <<run, pending, made, token_locks>>
    BY DEF TokensInv, managerVars
  <2>2. InHand(u) => InHand(u)'
    BY <2>1 DEF InHand, Given
  <2>3. calls'[u].request.op = "register" => calls'[u].request = calls[u].request
    BY Plain
  <2> QED BY <2>1, <2>2, <2>3 DEF ConfirmInv
<1> QED BY <1>1, <1>2 DEF TokensInv

LEMMA restartTokens ==
  ASSUME IInv, TokensInv, restart
  PROVE  TokensInv'
<1>1. /\ calls' = [u \in Threads |-> NoCall] /\ run' = [u \in Threads |-> NoRun]
      /\ token_locks' = [k \in Tokens |-> NONE] /\ pending' = Forget(Tokens) /\ made' = made
  BY DEF restart
<1>2. Settles
  BY <1>1, ForgetSettled
<1>3. PendInv'
  BY <1>1, <1>2 DEF TokensInv, PendInv, Settles, Given
<1>4. NoRun.pc = "idle" /\ NoRun.task = NONE /\ NoCall.request.op = "lookup"
  BY Plain DEF NoRun
<1>5. ASSUME NEW u \in Threads PROVE ConfirmInv(u)'
  BY <1>1, <1>4 DEF ConfirmInv, WithConfig, NONE
<1> QED BY <1>3, <1>5 DEF TokensInv

LEMMA InitTokens == Init => TokensInv
<1> SUFFICES ASSUME Init PROVE TokensInv
  OBVIOUS
<1>1. /\ calls = [u \in Threads |-> NoCall] /\ run = [u \in Threads |-> NoRun]
      /\ token_locks = [k \in Tokens |-> NONE] /\ pending = [k \in Tokens |-> Unused] /\ made = {}
  BY DEF Init, RegistryInit
<1>2. Unused \in Pending /\ Unused.state = "unused"
  BY DEF Unused, Pending
<1>3. PendInv
  BY <1>1, <1>2 DEF PendInv, Given
<1>4. NoRun.pc = "idle" /\ NoRun.task = NONE /\ NoCall.request.op = "lookup"
  BY Plain DEF NoRun
<1>5. ASSUME NEW u \in Threads PROVE ConfirmInv(u)
  BY <1>1, <1>4 DEF ConfirmInv, WithConfig, NONE
<1> QED BY <1>3, <1>5 DEF TokensInv

-----------------------------------------------------------------------------
(* Every step keeps both invariants. *)

Inv == IInv /\ TokensInv

LEMMA RegistryKeeps ==
  ASSUME Inv, NEW t \in Threads, RegistryStep(t) \/ RegistryFault(t), UNCHANGED managerVars
  PROVE  Inv'
<1>1. IInv /\ TokensInv /\ UNCHANGED run
  BY DEF Inv, managerVars
<1>2. IInv'
  <2>1. CASE _global_lock(t)
    BY <1>1, <2>1, globalLockStep
  <2>2. CASE _quarantine_path(t)
    BY <1>1, <2>2, quarantineStep
  <2>3. CASE _recover(t)
    BY <1>1, <2>3, recoverStep
  <2>4. CASE _write_manifest(t)
    BY <1>1, <2>4, writeManifestStep
  <2>5. CASE lookup(t)
    BY <1>1, <2>5, lookupStep
  <2>6. CASE load(t)
    BY <1>1, <2>6, loadStep
  <2>7. CASE load_exact(t)
    BY <1>1, <2>7, loadExactStep
  <2>8. CASE register(t)
    BY <1>1, <2>8, registryRegisterStep
  <2>9. CASE _transition(t)
    BY <1>1, <2>9, transitionStep
  <2>10. CASE lock_timeout(t)
    BY <1>1, <2>10, lockTimeoutStep
  <2>11. CASE io_error(t)
    BY <1>1, <2>11, ioErrorStep
  <2> QED BY <2>1, <2>2, <2>3, <2>4, <2>5, <2>6, <2>7, <2>8, <2>9, <2>10, <2>11 DEF RegistryStep, RegistryFault
<1>3. TokensInv'
  BY <1>1, RegistryCalls, RegistryTokens
<1> QED BY <1>2, <1>3 DEF Inv

LEMMA ResolvesKeeps ==
  ASSUME Inv, NEW t \in Threads, Resolves(t)
  PROVE  Inv'
<1>1. IInv /\ TokensInv
  BY DEF Inv
<1>2. CASE _resolution_guard(t)
  BY <1>1, <1>2, guardStep, guardTokens DEF Inv
<1>3. CASE _resolve_locked(t)
  BY <1>1, <1>3, resolveLockedStep, resolveLockedTokens DEF Inv
<1>4. CASE revalidate(t)
  BY <1>1, <1>4, revalidateStep, revalidateTokens DEF Inv
<1>5. CASE _mark_valid(t)
  BY <1>1, <1>5, markValidStep, verdictTokens DEF Inv
<1>6. CASE _stale(t)
  BY <1>1, <1>6, staleStep, verdictTokens DEF Inv
<1>7. CASE _invalid(t)
  BY <1>1, <1>7, invalidStep, verdictTokens DEF Inv
<1>8. CASE concurrent_revision(t) \/ reuse(t)
  BY <1>1, <1>8, concurrentStep, verdictTokens DEF Inv
<1>9. CASE _from_probe(t)
  BY <1>1, <1>9, fromProbeStep, fromProbeTokens DEF Inv
<1> QED BY <1>2, <1>3, <1>4, <1>5, <1>6, <1>7, <1>8, <1>9 DEF Resolves

LEMMA ConfirmsKeeps ==
  ASSUME Inv, NEW t \in Threads, Registers(t) \/ Confirms(t) \/ administered(t)
  PROVE  Inv'
<1>1. IInv /\ TokensInv
  BY DEF Inv
<1>2. CASE check_existing(t)
  BY <1>1, <1>2, checkExistingStep, registersTokens DEF Inv
<1>3. CASE _register(t)
  BY <1>1, <1>3, registerStep, registersTokens DEF Inv
<1>4. CASE registered(t) \/ administered(t)
  BY <1>1, <1>4, registeredStep, registeredTokens DEF Inv
<1>5. CASE token_lock(t)
  BY <1>1, <1>5, tokenLockStep, tokenLockTokens DEF Inv
<1>6. CASE confirm_locked(t)
  <2>1. pending \in [Tokens -> Pending] /\ run[t].token \in Tokens
    BY <1>1, <1>6 DEF TokensInv, PendInv, ConfirmInv, confirm_locked, Doing
  <2>2. \A k \in Tokens : pending[k].state # "unused" => pending[k].config \in Configs
    BY <1>1 DEF TokensInv, PendInv, Given
  <2>3. IInv'
    BY <1>1, <1>6, <2>1, <2>2, confirmLockedStep
  <2> QED BY <1>1, <1>6, <2>3, confirmLockedTokens DEF Inv
<1>7. CASE confirm_overrides(t)
  BY <1>1, <1>7, confirmOverridesStep, confirmOverridesTokens DEF Inv
<1>8. CASE pop(t) \/ cancel_locked(t)
  BY <1>1, <1>8, popStep, popTokens DEF Inv
<1> QED BY <1>2, <1>3, <1>4, <1>5, <1>6, <1>7, <1>8 DEF Registers, Confirms

LEMMA BeginsKeeps ==
  ASSUME Inv, NEW t \in Threads, Begins(t)
  PROVE  Inv'
<1>1. IInv /\ TokensInv /\ pending \in [Tokens -> Pending] /\ made \subseteq Configs
  BY DEF Inv, TokensInv, PendInv
<1>2. ASSUME NEW url \in Urls, resolve(t, url) PROVE Inv'
  BY <1>1, <1>2, resolveStep, resolveTokens DEF Inv
<1>3. ASSUME NEW k \in Tokens, NEW o \in Overrides \cup {NONE}, confirm(t, k, o) \/ cancel(t, k)
      PROVE  Inv'
  BY <1>1, <1>3, confirmStep, confirmTokens DEF Inv
<1>4. ASSUME NEW op \in {"mark_revoked", "unrevoke"}, NEW c \in made, administer(t, op, c) PROVE Inv'
  <2>1. c \in Configs
    BY <1>1
  <2> QED BY <1>1, <1>4, <2>1, administerStep, administerTokens DEF Inv
<1>5. NONE \in Overrides \cup {NONE}
  OBVIOUS
<1> QED BY <1>2, <1>3, <1>4, <1>5 DEF Begins

LEMMA NextInv == Inv /\ [Next]_vars => Inv'
<1> SUFFICES ASSUME Inv, [Next]_vars PROVE Inv'
  OBVIOUS
<1>1. ASSUME NEW t \in Threads, Begins(t) PROVE Inv'
  BY <1>1, BeginsKeeps
<1>2. ASSUME NEW t \in Threads, ThreadStep(t) PROVE Inv'
  BY <1>2, ResolvesKeeps, ConfirmsKeeps, RegistryKeeps DEF ThreadStep
<1>3. ASSUME NEW t \in Threads, RegistryFault(t), UNCHANGED managerVars PROVE Inv'
  BY <1>3, RegistryKeeps
<1>4. CASE damage /\ UNCHANGED managerVars
  <2>1. IInv /\ TokensInv /\ UNCHANGED run /\ UNCHANGED calls
    BY <1>4 DEF Inv, managerVars, damage
  <2>2. \A u \in Threads : calls'[u].request \in {calls[u].request, NoRequest}
    BY <2>1
  <2> QED BY <1>4, <2>1, <2>2, damageStep, RegistryTokens DEF Inv
<1>5. CASE restart
  BY <1>5, restartStep, restartTokens DEF Inv
<1>6. CASE UNCHANGED vars
  BY <1>6 DEF vars, registryVars, managerVars, Inv, IInv, Types, CallsInv, FilesInv, Chained, OneBehind,
     Intact, Whole, Extra, Alive, High, WorksInv, WorkInv, Scanned, Recovered, Revisions, ToMove,
     TokensInv, PendInv, ConfirmInv, InHand, Given
<1> QED BY <1>1, <1>2, <1>3, <1>4, <1>5, <1>6 DEF Next

LEMMA SpecInv == Spec => []Inv
<1>1. Init => Inv
  BY InitIInv, InitTokens DEF Inv
<1> QED BY <1>1, NextInv, PTL DEF Spec

-----------------------------------------------------------------------------
(* A cancelled configuration. *)

\* Only register publishes a first revision, for the configuration its caller has in hand.
LEMMA FirstIsRegistered ==
  ASSUME Inv, Next, NEW c \in Configs, FirstPublished(c)
  PROVE  \E t \in Threads : register(t) /\ calls[t].request.config = c
<1>1. files[c][1] = "absent" /\ files'[c][1] = "active"
  BY DEF FirstPublished
<1>2. IInv /\ files \in [Configs -> [Versions -> FileState]] /\ 1 \in Versions
  BY Names DEF Inv, IInv, Types
<1>3. files' # files
  BY <1>1
<1>4. ASSUME NEW moved, durable_move(moved) PROVE FALSE
  <2>1. files'[c][1] = IF <<c, 1>> \in moved THEN "absent" ELSE files[c][1]
    BY <1>2, <1>4 DEF durable_move
  <2> QED BY <1>1, <2>1
<1>5. ASSUME NEW t \in Threads, Begins(t) PROVE FALSE
  BY <1>3, <1>5 DEF Begins, resolve, confirm, cancel, administer, Ask, registryVars
<1>6. ASSUME NEW t \in Threads, Resolves(t) PROVE FALSE
  BY <1>3, <1>6 DEF Resolves, _resolution_guard, _resolve_locked, revalidate, _mark_valid, _stale, _invalid,
     concurrent_revision, reuse, _from_probe, Ask, AskOfEntry, Reloads, Lookup, Returns, Retries, registryVars
<1>7. ASSUME NEW t \in Threads, Registers(t) \/ Confirms(t) \/ administered(t) PROVE FALSE
  BY <1>3, <1>7 DEF Registers, Confirms, administered, check_existing, _register, registered, token_lock,
     confirm_locked, confirm_overrides, pop, cancel_locked, Ask, Lookup, Returns, Retries, Conflicts, registryVars
<1>8. ASSUME NEW t \in Threads, RegistryStep(t)
      PROVE  register(t) /\ calls[t].request.config = c
  <2>1. ASSUME At(t, "op"), NEW d, NEW s, _write_revision(t, d, s), d # c \/ Len(work.history[d]) # 0
        PROVE  FALSE
    <3> DEFINE v == Len(work.history[d]) + 1
    <3>1. files' = [files EXCEPT ![d][v] = s]
      BY <2>1 DEF _write_revision, atomic_publish_noreplace
    <3>2. d = c => v # 1
      <4> SUFFICES ASSUME d = c PROVE v # 1
        OBVIOUS
      <4>1. Len(work.history[c]) \in Nat
        BY <1>2, <2>1, AtOp, HistoryFacts, Names
      <4> QED BY <2>1, <4>1
    <3> HIDE DEF v
    <3>3. files'[c][1] = files[c][1]
      BY <1>2, <3>1, <3>2
    <3> QED BY <1>1, <3>3
  <2>2. CASE register(t)
    <3>1. At(t, "op") /\ calls[t].request.op = "register" /\ (files' # files => _write_revision(t, calls[t].request.config, "active"))
      BY <2>2 DEF register, Req
    <3> QED BY <1>3, <2>1, <2>2, <3>1
  <2>3. CASE _transition(t)
    <3> DEFINE d == calls[t].request.config
    <3>1. Known(d) /\ _write_revision(t, d, Transitions[calls[t].request.op].to)
      BY <1>3, <2>3 DEF _transition, Req
    <3>2. At(t, "op") /\ calls[t].request.op # "lookup"
      BY <2>3 DEF _transition, Req, Transitions
    <3>3. d \in Configs /\ calls[t].pc \in InLock
      BY <1>2, <3>2, AtOp
    <3>4. Len(work.history[d]) # 0
      BY <1>2, <3>1, <3>3, HistoryFacts
    <3> QED BY <2>1, <3>1, <3>2, <3>4
  <2>4. CASE _global_lock(t) \/ _recover(t) \/ _write_manifest(t)
    BY <1>3, <2>4 DEF _global_lock, _recover, _write_manifest
  <2>5. CASE _quarantine_path(t) \/ lookup(t) \/ load(t) \/ load_exact(t)
    BY <1>3, <1>4, <2>5 DEF _quarantine_path, lookup, load, load_exact, Loads
  <2> QED BY <2>2, <2>3, <2>4, <2>5, <1>8 DEF RegistryStep
<1>9. ASSUME NEW t \in Threads, RegistryFault(t) PROVE FALSE
  BY <1>3, <1>9 DEF RegistryFault, lock_timeout, io_error
<1>10. CASE damage
  <2>1. files' = files \/ \E d \in Configs : \E v \in Present(d) : files' = [files EXCEPT ![d][v] = "damaged"]
    BY <1>10 DEF damage
  <2> QED BY <1>1, <1>2, <1>3, <2>1
<1>11. CASE restart
  BY <1>3, <1>11 DEF restart
<1> QED BY <1>5, <1>6, <1>7, <1>8, <1>9, <1>10, <1>11 DEF Next, ThreadStep

\* A configuration whose confirmation has been cancelled is never registered by one that
\* was under way, however the threads, the crashes and the failures interleave.
THEOREM CancelledStaysOut == Spec => CancelledNeverRegistered
<1>1. ASSUME Inv, [Next]_vars, NEW c \in Configs, FirstPublished(c), NEW k \in Tokens,
             pending[k].state = "cancelled"
      PROVE  pending[k].config # c
  <2>1. Next
    <3>1. files' # files
      BY <1>1 DEF FirstPublished
    <3> QED BY <1>1, <3>1 DEF vars, registryVars
  <2>2. PICK t \in Threads : calls[t].request.op = "register" /\ calls[t].request.config = c
    BY <1>1, <2>1, FirstIsRegistered DEF register, Req
  <2>3. ConfirmInv(t)
    BY <1>1 DEF Inv, TokensInv
  <2>4. InHand(t) /\ run[t].config = c
    BY <2>2, <2>3 DEF ConfirmInv, WithConfig
  <2> QED BY <1>1, <2>4 DEF InHand, Given
<1> DEFINE Kept == \A c \in Configs : FirstPublished(c) =>
                     \A k \in Tokens : pending[k].state = "cancelled" => pending[k].config # c
<1>2. Inv /\ [Next]_vars => [Kept]_vars
  BY <1>1
<1> QED BY <1>2, SpecInv, PTL DEF Spec, CancelledNeverRegistered

-----------------------------------------------------------------------------
(* The histories a reader sees, as the files and the manifest show them. *)

Prefix(c, n) == [v \in 1 .. n |-> files[c][v]]
AliveTo(c, n) == \A v \in 1 .. n : Alive(c, v)
EndsAt(c, n) == \A v \in Versions : IF v <= n THEN Alive(c, v) ELSE files[c][v] = "absent"

\* What is visible of a configuration is the manifest's prefix, if every file of it is
\* alive; without a manifest, an unbroken row of files is seen as far as it goes.
Shown ==
  /\ manifest.state = "ok" => \A c \in Configs :
       /\ AliveTo(c, High(c)) => Visible(c) = Prefix(c, High(c))
       /\ ~AliveTo(c, High(c)) => Visible(c) = <<>>
  /\ manifest.state # "ok" => \A c \in Configs : \A n \in 0 .. MaxFiles :
       EndsAt(c, n) => Visible(c) = Prefix(c, n)

LEMMA Shows == Types => Shown
<1> SUFFICES ASSUME Types PROVE Shown
  OBVIOUS
<1>1. ASSUME manifest.state = "ok", NEW c \in Configs
      PROVE  /\ AliveTo(c, High(c)) => Visible(c) = Prefix(c, High(c))
             /\ ~AliveTo(c, High(c)) => Visible(c) = <<>>
  <2>1. High(c) \in 0 .. MaxFiles
    BY DEF Types, High
  <2>2. Promised(c) = 1 .. High(c)
    BY <1>1 DEF Promised, High
  <2>3. Cardinality(1 .. High(c)) = High(c)
    <3>1. 1 \in Int /\ High(c) \in Int /\ High(c) >= 0
      BY <2>1, Names
    <3> QED BY <3>1, FS_Interval
  <2> QED BY <2>2, <2>3 DEF Visible, AliveTo, Alive, Prefix
<1>2. ASSUME manifest.state # "ok", NEW c \in Configs, NEW n \in 0 .. MaxFiles, EndsAt(c, n)
      PROVE  Visible(c) = Prefix(c, n)
  <2>1. \A v \in 1 .. n : v \in Versions
    BY Names DEF Versions
  <2>2. Present(c) = 1 .. n
    BY <1>2, <2>1 DEF Present, EndsAt, Alive, ConfigStatus, Versions
  <2>3. Cardinality(Present(c)) = n
    BY <2>2, Numbered
  <2>4. \A v \in 1 .. n : files[c][v] \in ConfigStatus
    BY <1>2, <2>1 DEF EndsAt, Alive
  <2>5. Promised(c) = 1 .. n
    BY <1>2, <2>2 DEF Promised
  <2> QED BY <2>2, <2>3, <2>4, <2>5 DEF Visible, Prefix
<1> QED BY <1>1, <1>2 DEF Shown

LEMMA ShowsNext == Types' => Shown'
BY Shows, PTL

\* One more revision is one more transition of the history.
OneMore == \A c \in Configs : \A n \in 0 .. MaxFiles : n + 1 \in Versions /\ AliveTo(c, n + 1) =>
  /\ n = 0 => Prefix(c, n) = <<>> /\ Prefix(c, n + 1) = <<"active">>
  /\ n # 0 => /\ Prefix(c, n) # <<>>
              /\ \E s \in ConfigStatus :
                   /\ s \in History!CanFollow(Prefix(c, n)[Len(Prefix(c, n))])
                   /\ Prefix(c, n + 1) = Append(Prefix(c, n), s)

LEMMA Follows == Types /\ Chained => OneMore
<1> SUFFICES ASSUME Types, Chained, NEW c \in Configs, NEW n \in 0 .. MaxFiles,
                    n + 1 \in Versions, AliveTo(c, n + 1)
             PROVE  /\ n = 0 => Prefix(c, n) = <<>> /\ Prefix(c, n + 1) = <<"active">>
                    /\ n # 0 => /\ Prefix(c, n) # <<>>
                                /\ \E s \in ConfigStatus :
                                     /\ s \in History!CanFollow(Prefix(c, n)[Len(Prefix(c, n))])
                                     /\ Prefix(c, n + 1) = Append(Prefix(c, n), s)
  BY DEF OneMore
<1> DEFINE g == files[c]
           s == g[n + 1]
<1>1. n \in Nat /\ \A v \in 1 .. (n + 1) : v \in Versions /\ g[v] \in ConfigStatus
  BY Names DEF AliveTo, Alive, Versions
<1>2. Prefix(c, n) = [v \in 1 .. n |-> g[v]] /\ Prefix(c, n + 1) = [v \in 1 .. (n + 1) |-> g[v]]
  BY DEF Prefix
<1>3. CASE n = 0
  <2>1. g[1] = "active"
    <3>1. 1 \in Versions /\ Alive(c, 1)
      BY <1>1, <1>3 DEF Alive
    <3> QED BY <3>1 DEF Chained
  <2> HIDE DEF g
  <2> QED BY <1>2, <1>3, <2>1
<1>4. CASE n # 0
  <2>1. s \in ConfigStatus /\ s \in History!CanFollow(g[n])
    <3>1. n + 1 \in Versions /\ Alive(c, n + 1) /\ n \in 1 .. (n + 1) /\ n + 1 \in 1 .. (n + 1)
      BY <1>1, <1>4 DEF Alive
    <3>2. n + 1 # 1 /\ (n + 1) - 1 = n /\ Alive(c, n)
      BY <1>1, <1>4, <3>1 DEF Alive
    <3> QED BY <1>1, <3>1, <3>2 DEF Chained
  <2> HIDE DEF g
  <2>2. Len(Prefix(c, n)) = n /\ Prefix(c, n) # <<>> /\ Prefix(c, n)[n] = g[n]
    BY <1>1, <1>2, <1>4
  <2>3. Prefix(c, n + 1) = Append(Prefix(c, n), s)
    BY <1>1, <1>2
  <2> QED BY <1>4, <2>1, <2>2, <2>3
<1> QED BY <1>3, <1>4

LEMMA FollowsNext == Types' /\ Chained' => OneMore'
BY Follows, PTL

-----------------------------------------------------------------------------
(* A step changes the visible history of one configuration at most. *)

Seen == [c \in Configs |-> Visible(c)]
Same(c) == Visible(c)' = Visible(c)
GivenUp(c) == Visible(c)' = <<>>
\* n revisions were visible, and now n + 1 are.
Grown(c) == \E n \in 0 .. MaxFiles :
  /\ n + 1 \in Versions /\ AliveTo(c, n + 1)'
  /\ Visible(c) = Prefix(c, n) /\ Prefix(c, n)' = Prefix(c, n) /\ Visible(c)' = Prefix(c, n + 1)'

LEMMA AbstractStep ==
  ASSUME Types', Chained', NEW c \in Configs, Same(c) \/ GivenUp(c) \/ Grown(c),
         \A d \in Configs \ {c} : Same(d)
  PROVE  [History!Next]_Seen
<1>1. CASE Same(c)
  <2>1. \A d \in Configs : Visible(d)' = Visible(d)
    BY <1>1 DEF Same
  <2>2. UNCHANGED Seen
    BY <2>1 DEF Seen
  <2> QED BY <2>2
<1>2. ASSUME NEW h, Visible(c)' = h PROVE Seen' = [Seen EXCEPT ![c] = h]
  BY <1>2 DEF Seen, Same
<1>3. Seen[c] = Visible(c)
  BY DEF Seen
<1>4. CASE GivenUp(c)
  <2>1. Seen' = [Seen EXCEPT ![c] = <<>>]
    BY <1>2, <1>4 DEF GivenUp
  <2>2. History!GiveUp(c)
    BY <2>1 DEF History!GiveUp, Seen
  <2> QED BY <2>2 DEF History!Next
<1>5. CASE Grown(c)
  <2>1. PICK n \in 0 .. MaxFiles :
          /\ n + 1 \in Versions /\ AliveTo(c, n + 1)'
          /\ Visible(c) = Prefix(c, n) /\ Prefix(c, n)' = Prefix(c, n) /\ Visible(c)' = Prefix(c, n + 1)'
    BY <1>5 DEF Grown
  <2>2. OneMore'
    BY FollowsNext
  <2>3. /\ n = 0 => Prefix(c, n)' = <<>> /\ Prefix(c, n + 1)' = <<"active">>
        /\ n # 0 => /\ Prefix(c, n)' # <<>>
                    /\ \E s \in ConfigStatus :
                         /\ s \in History!CanFollow(Prefix(c, n)'[Len(Prefix(c, n)')])
                         /\ Prefix(c, n + 1)' = Append(Prefix(c, n)', s)
    BY <2>1, <2>2 DEF OneMore
  <2>4. CASE n = 0
    <3>1. Visible(c) = <<>> /\ Visible(c)' = <<"active">>
      BY <2>1, <2>3, <2>4
    <3>2. Seen[c] = <<>> /\ Seen' = [Seen EXCEPT ![c] = <<"active">>]
      BY <1>2, <1>3, <3>1
    <3>3. History!Register(c)
      BY <3>2 DEF History!Register, Seen
    <3> QED BY <3>3 DEF History!Next
  <2>5. CASE n # 0
    <3>1. PICK s \in ConfigStatus :
            /\ s \in History!CanFollow(Visible(c)[Len(Visible(c))])
            /\ Visible(c)' = Append(Visible(c), s)
      BY <2>1, <2>3, <2>5
    <3>2. Visible(c) # <<>>
      BY <2>1, <2>3, <2>5
    <3>3. Seen' = [Seen EXCEPT ![c] = Append(Seen[c], s)]
      BY <1>2, <1>3, <3>1
    <3>4. History!Transition(c, s)
      BY <1>3, <3>1, <3>2, <3>3 DEF History!Transition, Seen
    <3>5. s \in History!ConfigStatus
      BY DEF ConfigStatus, History!ConfigStatus
    <3> QED BY <3>4, <3>5 DEF History!Next
  <2> QED BY <2>4, <2>5
<1> QED BY <1>1, <1>4, <1>5

LEMMA AllSame ==
  ASSUME \A c \in Configs : Same(c)
  PROVE  [History!Next]_Seen
<1>1. UNCHANGED Seen
  BY DEF Seen, Same
<1> QED BY <1>1

LEMMA NothingMoves ==
  ASSUME UNCHANGED <<files, manifest>>
  PROVE  [History!Next]_Seen
<1>1. \A c \in Configs : Same(c)
  BY DEF Same, Visible, Promised, Present
<1> QED BY <1>1, AllSame

-----------------------------------------------------------------------------
(* What each step of the registry shows. *)

LEMMA SamePrefix ==
  ASSUME NEW c \in Configs, NEW n \in 0 .. MaxFiles, \A v \in 1 .. n : files'[c][v] = files[c][v]
  PROVE  /\ Prefix(c, n)' = Prefix(c, n)
         /\ AliveTo(c, n)' <=> AliveTo(c, n)
BY DEF Prefix, AliveTo, Alive

\* The files the manifest names are those they were, or were and are no revisions.
LEMMA SameOk ==
  ASSUME Types, Types', manifest.state = "ok", manifest'.state = "ok",
         NEW c \in Configs, High(c)' = High(c),
         \A v \in 1 .. High(c) : files'[c][v] = files[c][v] \/ (~Alive(c, v) /\ ~Alive(c, v)')
  PROVE  Same(c)
<1>1. PICK n \in 0 .. MaxFiles : n = High(c) /\ n = High(c)'
  BY DEF Types, High
<1>2. /\ AliveTo(c, n) => Visible(c) = Prefix(c, n)
      /\ ~AliveTo(c, n) => Visible(c) = <<>>
  BY <1>1, Shows DEF Shown
<1>3. /\ AliveTo(c, n)' => Visible(c)' = Prefix(c, n)'
      /\ ~AliveTo(c, n)' => Visible(c)' = <<>>
  BY <1>1, ShowsNext DEF Shown
<1>4. AliveTo(c, n)' <=> AliveTo(c, n)
  BY <1>1 DEF AliveTo, Alive
<1>5. AliveTo(c, n) => Prefix(c, n)' = Prefix(c, n)
  BY <1>1, SamePrefix DEF AliveTo, Alive
<1> QED BY <1>2, <1>3, <1>4, <1>5 DEF Same

\* One file is a revision no more: the history it was part of is given up, if any.
LEMMA FileLost ==
  ASSUME Types, Types', Chained', UNCHANGED manifest, manifest.state = "ok",
         NEW d \in Configs, NEW v \in Versions, ~Alive(d, v)',
         \A c \in Configs, w \in Versions : c # d \/ w # v => files'[c][w] = files[c][w]
  PROVE  [History!Next]_Seen
<1>1. \A c \in Configs : High(c)' = High(c) /\ High(c) \in 0 .. MaxFiles
  BY DEF Types, High
<1>2. \A c \in Configs : \A w \in 1 .. High(c) : w \in Versions
  BY <1>1, Names DEF Versions
<1>3. \A c \in Configs \ {d} : Same(c)
  BY <1>1, <1>2, SameOk
<1>4. CASE v \in 1 .. High(d)
  <2>1. PICK n \in 0 .. MaxFiles : n = High(d)'
    BY <1>1
  <2>2. ~AliveTo(d, n)'
    BY <1>1, <1>4, <2>1 DEF AliveTo
  <2>3. GivenUp(d)
    BY <2>1, <2>2, ShowsNext DEF Shown, GivenUp
  <2> QED BY <1>3, <2>3, AbstractStep
<1>5. CASE v \notin 1 .. High(d)
  <2>1. Same(d)
    BY <1>1, <1>2, <1>5, SameOk
  <2> QED BY <1>3, <2>1, AbstractStep
<1> QED BY <1>4, <1>5

LEMMA globalLockShows ==
  ASSUME NEW t \in Threads, _global_lock(t)
  PROVE  [History!Next]_Seen
<1>1. files' = files
  BY DEF _global_lock
<1>2. CASE manifest.state = "damaged"
  <2>1. manifest'.state # "ok"
    BY <1>2 DEF _global_lock, _validate_or_quarantine_manifest, atomic_write
  <2>2. \A c \in Configs : Same(c)
    BY <1>1, <1>2, <2>1 DEF Same, Visible, Promised, Present
  <2> QED BY <2>2, AllSame
<1>3. CASE manifest.state # "damaged"
  <2>1. manifest' = manifest
    BY <1>3 DEF _global_lock, _validate_or_quarantine_manifest, atomic_write
  <2> QED BY <1>1, <2>1, NothingMoves
<1> QED BY <1>2, <1>3

LEMMA quarantineShows ==
  ASSUME MaxDamage <= 1, IInv, IInv', NEW t \in Threads, _quarantine_path(t)
  PROVE  [History!Next]_Seen
<1>1. calls[t].pc = "quarantine" /\ WorkInv(t) /\ Types /\ work \in Work /\ UNCHANGED manifest
  BY Holding DEF _quarantine_path, At, InLock
<1>2. PICK f \in ToMove : durable_move({f})
  BY DEF _quarantine_path, ToMove
<1>3. manifest.state = "ok"
  BY <1>1, <1>2 DEF WorkInv, Scanned
<1>4. f \in Configs \X Versions
  BY <1>1, <1>2 DEF Work, ToMove
<1>5. PICK d \in Configs, v \in Versions : f = <<d, v>>
  BY <1>4
<1>6. \A c \in Configs, w \in Versions :
        files'[c][w] = IF c = d /\ w = v THEN "absent" ELSE files[c][w]
  BY <1>2, <1>5 DEF durable_move
<1>7. ~Alive(d, v)'
  BY <1>6 DEF Alive, ConfigStatus
<1> QED BY <1>1, <1>3, <1>6, <1>7, FileLost DEF IInv, FilesInv

LEMMA damageFileShows ==
  ASSUME MaxDamage <= 1, IInv, IInv', damaged < MaxDamage, UNCHANGED manifest,
         NEW d \in Configs, NEW v \in Versions, files' = [files EXCEPT ![d][v] = "damaged"]
  PROVE  [History!Next]_Seen
<1>1. Types /\ Types' /\ FilesInv /\ Chained' /\ files \in [Configs -> [Versions -> FileState]]
  BY DEF IInv, FilesInv, Types
<1>2. damaged = 0
  <2>1. damaged \in 0 .. MaxDamage /\ MaxDamage \in Nat
    BY <1>1, RegistryAssumption DEF Types
  <2> QED BY <2>1
<1>3. manifest.state = "ok"
  BY <1>1, <1>2 DEF FilesInv
<1>4. \A c \in Configs, w \in Versions :
        files'[c][w] = IF c = d /\ w = v THEN "damaged" ELSE files[c][w]
  BY <1>1
<1>5. ~Alive(d, v)'
  BY <1>4 DEF Alive, ConfigStatus
<1> QED BY <1>1, <1>3, <1>4, <1>5, FileLost

\* The manifest comes to name the files that are there: where one more revision is seen
\* than before, it is of one configuration.
LEMMA ManifestShows ==
  ASSUME Types, Types', Chained', UNCHANGED files, NEW d \in Configs, NEW n \in 0 .. MaxFiles,
         \A c \in Configs \ {d} : Same(c), Visible(d) = Prefix(d, n),
         n + 1 \in Versions, AliveTo(d, n + 1), Visible(d)' = Prefix(d, n + 1)'
  PROVE  [History!Next]_Seen
<1>1. n + 1 \in 0 .. MaxFiles
  BY Names
<1>2. AliveTo(d, n + 1)' /\ Prefix(d, n)' = Prefix(d, n)
  BY <1>1, SamePrefix
<1>3. Grown(d)
  BY <1>2 DEF Grown
<1> QED BY <1>3, AbstractStep

\* Where every file of a configuration is what its reader has read, the files end there.
LEMMA ReadToTheEnd ==
  ASSUME IInv, NEW t \in Threads, calls[t].pc \in InLock, NEW c \in Configs,
         \A v \in Versions : IF v <= Revisions(c) THEN files[c][v] = work.history[c][v]
                             ELSE files[c][v] = "absent"
  PROVE  EndsAt(c, Revisions(c)) /\ AliveTo(c, Revisions(c))
<1>1. Revisions(c) \in 0 .. MaxFiles /\ \A v \in 1 .. Revisions(c) : v \in Versions /\ work.history[c][v] \in ConfigStatus
  BY HistoryFacts
<1>2. \A v \in Versions : v <= Revisions(c) => v \in 1 .. Revisions(c)
  BY <1>1, Names DEF Versions
<1> QED BY <1>1, <1>2 DEF EndsAt, AliveTo, Alive

\* Without a readable manifest, and no more than one file ever damaged, nothing is missing.
LEMMA IntactRead ==
  ASSUME MaxDamage <= 1, IInv, NEW t \in Threads, calls[t].pc \in InLock, Recovered,
         manifest.state # "ok", NEW c \in Configs
  PROVE  EndsAt(c, Revisions(c)) /\ AliveTo(c, Revisions(c))
<1>1. Intact
  BY DEF IInv, FilesInv
<1>2. \A v \in Versions : files[c][v] # "damaged"
  BY <1>1 DEF Intact, Alive, ConfigStatus
<1>3. \A v \in Versions : IF v <= Revisions(c) THEN files[c][v] = work.history[c][v]
                          ELSE files[c][v] = "absent"
  BY <1>2 DEF Recovered
<1> QED BY <1>3, ReadToTheEnd

LEMMA recoverShows ==
  ASSUME IInv, IInv', NEW t \in Threads, _recover(t)
  PROVE  [History!Next]_Seen
<1>1. /\ calls[t].pc = "quarantine" /\ calls[t].pc \in InLock /\ WorkInv(t) /\ Types /\ FilesInv
      /\ Types' /\ Chained' /\ UNCHANGED files
  BY Holding DEF _recover, At, InLock, IInv, FilesInv
<1>2. CASE UNCHANGED manifest
  BY <1>1, <1>2, NothingMoves
<1>3. CASE manifest' = Manifest(work.history)
  <2>1. Scanned /\ ToMove = {}
    BY <1>1 DEF WorkInv, _recover, ToMove
  <2>2. manifest'.state = "ok" /\ \A c \in Configs : High(c)' = Revisions(c)
    BY <1>3 DEF Manifest, High, Revisions
  <2>3. \A c \in Configs : \A v \in Versions :
          IF v <= Revisions(c) THEN files[c][v] = work.history[c][v] ELSE files[c][v] = "absent"
    BY <2>1 DEF Scanned
  <2>4. ASSUME NEW c \in Configs
        PROVE  /\ Revisions(c) \in 0 .. MaxFiles /\ EndsAt(c, Revisions(c)) /\ AliveTo(c, Revisions(c))
               /\ Visible(c)' = Prefix(c, Revisions(c))
    <3>1. Revisions(c) \in 0 .. MaxFiles /\ EndsAt(c, Revisions(c)) /\ AliveTo(c, Revisions(c))
      BY <1>1, <2>3, ReadToTheEnd, HistoryFacts
    <3>2. PICK n \in 0 .. MaxFiles : n = Revisions(c) /\ n = High(c)'
      BY <2>2, <3>1
    <3>3. AliveTo(c, n)' /\ Prefix(c, n)' = Prefix(c, n)
      BY <1>1, <3>1, <3>2, SamePrefix
    <3>4. Visible(c)' = Prefix(c, n)'
      BY <1>1, <2>2, <3>2, <3>3, ShowsNext DEF Shown
    <3> QED BY <3>1, <3>2, <3>3, <3>4
  <2>5. CASE manifest.state # "ok"
    <3>1. \A c \in Configs : Visible(c) = Prefix(c, Revisions(c))
      BY <1>1, <2>4, <2>5, Shows DEF Shown
    <3> QED BY <2>4, <3>1, AllSame DEF Same
  <2>6. CASE manifest.state = "ok"
    <3>1. OneBehind
      BY <1>1, <2>6 DEF FilesInv
    <3>2. \A c \in Configs : High(c) \in 0 .. MaxFiles
      BY <1>1 DEF Types, High
    <3>3. ASSUME NEW c \in Configs, Revisions(c) <= High(c) PROVE Same(c)
      <4>1. CASE Revisions(c) # 0
        <5>1. Revisions(c) = High(c)
          BY <2>1, <2>4, <2>6, <3>2, <3>3, <4>1, Names DEF Scanned
        <5> QED BY <1>1, <2>4, <2>6, <5>1, Shows DEF Same, Shown
      <4>2. CASE Revisions(c) = 0
        <5>1. Visible(c)' = <<>>
          BY <2>4, <4>2 DEF Prefix
        <5>2. CASE High(c) = 0
          BY <1>1, <2>4, <2>6, <4>2, <5>2, Shows DEF Same, Shown
        <5>3. CASE High(c) # 0
          <6>1. 1 \in 1 .. High(c) /\ files[c][1] = "absent"
            BY <2>3, <3>2, <4>2, <5>3, Names
          <6>2. ~AliveTo(c, High(c))
            BY <6>1 DEF AliveTo, Alive, ConfigStatus
          <6>3. Visible(c) = <<>>
            BY <1>1, <2>6, <6>2, Shows DEF Shown
          <6> QED BY <5>1, <6>3 DEF Same
        <5> QED BY <5>2, <5>3
      <4> QED BY <4>1, <4>2
    <3>4. ASSUME NEW c \in Configs, Revisions(c) > High(c)
          PROVE  Revisions(c) = High(c) + 1 /\ Extra(c, High(c) + 1) /\ Revisions(c) \in Versions
      <4>1. Revisions(c) \in Versions /\ High(c) + 1 \in Versions
        BY <2>4, <3>2, <3>4, Names DEF Versions
      <4>2. \A v \in Versions : v <= Revisions(c) => Alive(c, v)
        BY <2>4 DEF EndsAt
      <4>3. Extra(c, Revisions(c)) /\ Extra(c, High(c) + 1)
        BY <2>4, <3>2, <3>4, <4>1, <4>2, Names DEF Extra, Alive, ConfigStatus
      <4> QED BY <3>1, <4>1, <4>3 DEF OneBehind
    <3>5. CASE \A c \in Configs : Revisions(c) <= High(c)
      BY <3>3, <3>5, AllSame
    <3>6. ASSUME NEW d \in Configs, Revisions(d) > High(d) PROVE [History!Next]_Seen
      <4>1. \A c \in Configs \ {d} : Same(c)
        <5> SUFFICES ASSUME NEW c \in Configs, c # d PROVE Same(c)
          OBVIOUS
        <5>1. CASE Revisions(c) <= High(c)
          BY <3>3, <5>1
        <5>2. CASE Revisions(c) > High(c)
          <6>1. /\ Extra(c, High(c) + 1) /\ High(c) + 1 \in Versions
                /\ Extra(d, High(d) + 1) /\ High(d) + 1 \in Versions
            BY <3>4, <3>6, <5>2
          <6> QED BY <3>1, <6>1 DEF OneBehind
        <5> QED BY <2>4, <3>2, <5>1, <5>2, Names
      <4>2. PICK n \in 0 .. MaxFiles : n = High(d)
        BY <3>2
      <4>3. n + 1 = Revisions(d) /\ n + 1 \in Versions /\ AliveTo(d, n + 1)
        BY <2>4, <3>4, <3>6, <4>2
      <4>4. AliveTo(d, n)
        BY <4>2, <4>3, Names DEF AliveTo
      <4>5. Visible(d) = Prefix(d, n)
        BY <1>1, <2>6, <4>2, <4>4, Shows DEF Shown
      <4>6. Prefix(d, n + 1)' = Prefix(d, n + 1)
        BY <1>1 DEF Prefix
      <4>7. Visible(d)' = Prefix(d, n + 1)'
        BY <2>4, <4>3, <4>6
      <4> QED BY <1>1, <4>1, <4>3, <4>5, <4>7, ManifestShows
    <3> QED BY <2>4, <3>2, <3>5, <3>6, Names
  <2> QED BY <2>5, <2>6
<1> QED BY <1>2, <1>3 DEF _recover, atomic_write

LEMMA writeManifestShows ==
  ASSUME MaxDamage <= 1, IInv, IInv', NEW t \in Threads, _write_manifest(t)
  PROVE  [History!Next]_Seen
<1>1. /\ calls[t].pc = "record" /\ calls[t].pc \in InLock /\ WorkInv(t) /\ Types /\ FilesInv
      /\ Types' /\ Chained' /\ UNCHANGED files
  BY Holding DEF _write_manifest, At, InLock, IInv, FilesInv
<1>2. manifest'.state = "ok" /\ \A c \in Configs : High(c)' = Revisions(c)
  BY DEF _write_manifest, atomic_write, Manifest, High, Revisions
<1>3. Recovered /\ \A c \in Configs : Revisions(c) \in 0 .. MaxFiles
  BY <1>1, HistoryFacts DEF WorkInv
<1>4. CASE manifest.state # "ok"
  <2>1. ASSUME NEW c \in Configs PROVE Same(c)
    <3>1. EndsAt(c, Revisions(c)) /\ AliveTo(c, Revisions(c))
      BY <1>1, <1>3, <1>4, IntactRead
    <3>2. PICK n \in 0 .. MaxFiles : n = Revisions(c) /\ n = High(c)'
      BY <1>2, <1>3
    <3>3. AliveTo(c, n)' /\ Prefix(c, n)' = Prefix(c, n)
      BY <1>1, <3>1, <3>2, SamePrefix
    <3>4. Visible(c)' = Prefix(c, n)'
      BY <1>1, <1>2, <3>2, <3>3, ShowsNext DEF Shown
    <3>5. Visible(c) = Prefix(c, n)
      BY <1>1, <1>4, <3>1, <3>2, Shows DEF Shown
    <3> QED BY <3>3, <3>4, <3>5 DEF Same
  <2> QED BY <2>1, AllSame
<1>5. CASE manifest.state = "ok"
  <2>1. PICK d \in Configs :
          \A c \in Configs : Revisions(c) = IF c = d THEN High(c) + 1 ELSE High(c)
    BY <1>1, <1>5 DEF WorkInv
  <2>2. \A c \in Configs \ {d} : Same(c)
    BY <1>1, <1>2, <1>5, <2>1, SameOk
  <2>3. PICK n \in 0 .. MaxFiles : n = High(d)
    BY <1>1 DEF Types, High
  <2>4. n + 1 = High(d)' /\ n + 1 \in 0 .. MaxFiles /\ n + 1 \in Versions
    BY <1>2, <1>3, <2>1, <2>3, Names DEF Versions
  <2>5. CASE AliveTo(d, n + 1)
    <3>1. AliveTo(d, n)
      BY <2>5, Names DEF AliveTo
    <3>2. Visible(d) = Prefix(d, n)
      BY <1>1, <1>5, <2>3, <3>1, Shows DEF Shown
    <3>3. AliveTo(d, n + 1)'
      BY <1>1, <2>4, <2>5, SamePrefix
    <3>4. Visible(d)' = Prefix(d, n + 1)'
      BY <1>1, <1>2, <2>4, <3>3, ShowsNext DEF Shown
    <3> QED BY <1>1, <2>2, <2>4, <2>5, <3>2, <3>4, ManifestShows
  <2>6. CASE ~AliveTo(d, n + 1)
    <3>1. ~AliveTo(d, n + 1)'
      BY <1>1, <2>4, <2>6, SamePrefix
    <3>2. GivenUp(d)
      BY <1>1, <1>2, <2>4, <3>1, ShowsNext DEF Shown, GivenUp
    <3> QED BY <1>1, <2>2, <3>2, AbstractStep
  <2> QED BY <2>5, <2>6
<1> QED BY <1>4, <1>5

\* The manifest is lost: the files speak for themselves, and say what it said or know of
\* one revision more.
LEMMA damageManifestShows ==
  ASSUME MaxDamage <= 1, IInv, IInv', damaged < MaxDamage, UNCHANGED files,
         manifest.state = "ok", manifest'.state # "ok"
  PROVE  [History!Next]_Seen
<1>1. Types /\ Types' /\ FilesInv /\ Chained'
  BY DEF IInv, FilesInv
<1>2. Whole /\ OneBehind
  <2>1. damaged \in 0 .. MaxDamage /\ MaxDamage \in Nat
    BY <1>1, RegistryAssumption DEF Types
  <2>2. damaged = 0
    BY <2>1
  <2> QED BY <1>1, <2>2 DEF FilesInv
<1>3. \A c \in Configs : High(c) \in 0 .. MaxFiles
  BY <1>1 DEF Types, High
<1>4. ASSUME NEW c \in Configs, NEW v \in Versions, files[c][v] # "absent" PROVE Alive(c, v)
  BY <1>1, <1>2, <1>4 DEF Whole, Types, FileState, Alive
<1>5. ASSUME NEW c \in Configs
      PROVE  AliveTo(c, High(c)) /\ Visible(c) = Prefix(c, High(c))
  <2>1. \A v \in 1 .. High(c) : v \in Versions /\ v <= High(c)
    BY <1>3, Names DEF Versions
  <2>2. AliveTo(c, High(c))
    BY <1>2, <1>4, <2>1 DEF AliveTo, Whole
  <2> QED BY <1>1, <2>2, Shows DEF Shown
<1>6. ASSUME NEW c \in Configs, NEW n \in 0 .. MaxFiles, EndsAt(c, n)
      PROVE  Visible(c)' = Prefix(c, n)' /\ Prefix(c, n)' = Prefix(c, n)
  <2>1. EndsAt(c, n)'
    BY <1>6 DEF EndsAt, Alive
  <2> QED BY <1>1, <2>1, ShowsNext DEF Shown, Prefix
<1>7. ASSUME NEW c \in Configs, \A v \in Versions : ~Extra(c, v)
      PROVE  Same(c)
  <2>1. PICK n \in 0 .. MaxFiles : n = High(c)
    BY <1>3
  <2>2. EndsAt(c, n)
    <3> SUFFICES ASSUME NEW v \in Versions
                 PROVE  IF v <= n THEN Alive(c, v) ELSE files[c][v] = "absent"
      BY DEF EndsAt
    <3>1. v <= High(c) => files[c][v] # "absent"
      BY <1>2 DEF Whole
    <3>2. v > High(c) => files[c][v] = "absent"
      BY <1>7 DEF Extra
    <3>3. v \in Nat /\ n \in Nat
      BY Names
    <3> QED BY <1>4, <2>1, <3>1, <3>2, <3>3
  <2> QED BY <1>5, <1>6, <2>1, <2>2 DEF Same
<1>8. ASSUME NEW d \in Configs, NEW v \in Versions, Extra(d, v) PROVE [History!Next]_Seen
  <2>1. \A c \in Configs \ {d} : Same(c)
    BY <1>2, <1>7, <1>8 DEF OneBehind
  <2>2. PICK n \in 0 .. MaxFiles : n = High(d)
    BY <1>3
  <2>3. n + 1 = v /\ n + 1 \in 0 .. MaxFiles
    BY <1>2, <1>8, <2>2, Names DEF OneBehind
  <2>4. EndsAt(d, n + 1)
    <3> SUFFICES ASSUME NEW w \in Versions
                 PROVE  IF w <= n + 1 THEN Alive(d, w) ELSE files[d][w] = "absent"
      BY DEF EndsAt
    <3>1. w <= High(d) => files[d][w] # "absent"
      BY <1>2 DEF Whole
    <3>2. w > High(d) /\ w # High(d) + 1 => files[d][w] = "absent"
      BY <1>2 DEF OneBehind, Extra
    <3>3. w = v => files[d][w] # "absent"
      BY <1>8 DEF Extra
    <3>4. w \in Nat /\ n \in Nat
      BY Names
    <3> QED BY <1>4, <2>2, <2>3, <3>1, <3>2, <3>3, <3>4
  <2>5. AliveTo(d, n + 1)
    <3>1. \A w \in 1 .. (n + 1) : w \in Versions /\ w <= n + 1
      BY <2>3, Names DEF Versions
    <3> QED BY <2>4, <3>1 DEF AliveTo, EndsAt
  <2>6. Visible(d)' = Prefix(d, n + 1)' /\ Visible(d) = Prefix(d, n)
    BY <1>5, <1>6, <2>2, <2>3, <2>4
  <2> QED BY <1>1, <2>1, <2>3, <2>5, <2>6, ManifestShows
<1>9. CASE \A c \in Configs : Same(c)
  BY <1>9, AllSame
<1> QED BY <1>7, <1>8, <1>9

\* Files that are damaged are moved away, by an operation that could not read them.
LEMMA MovesShow ==
  ASSUME MaxDamage <= 1, IInv, IInv', NEW moved, durable_move(moved), UNCHANGED manifest,
         \A c \in Configs, v \in Versions : <<c, v>> \in moved => files[c][v] = "damaged"
  PROVE  [History!Next]_Seen
<1>1. Types /\ Types' /\ FilesInv /\ files \in [Configs -> [Versions -> FileState]]
  BY DEF IInv, Types
<1>2. \A c \in Configs : \A v \in Versions :
        files'[c][v] = files[c][v] \/ (~Alive(c, v) /\ ~Alive(c, v)')
  BY DEF durable_move, Alive, ConfigStatus
<1>3. CASE manifest.state = "ok"
  <2>1. ASSUME NEW c \in Configs PROVE High(c)' = High(c) /\ \A v \in 1 .. High(c) : v \in Versions
    BY <1>1, Names DEF Types, High, Versions
  <2>2. \A c \in Configs : Same(c)
    BY <1>1, <1>2, <1>3, <2>1, SameOk
  <2> QED BY <2>2, AllSame
<1>4. CASE manifest.state # "ok"
  <2>1. \A c \in Configs, v \in Versions : files[c][v] # "damaged"
    BY <1>1, <1>4 DEF FilesInv, Intact, Alive, ConfigStatus
  <2>2. \A c \in Configs, v \in Versions : <<c, v>> \notin moved
    BY <2>1
  <2>3. /\ files' = [c \in Configs |-> files'[c]]
        /\ \A c \in Configs : files'[c] = [v \in Versions |-> files[c][v]]
    BY <2>2 DEF durable_move
  <2>4. files' = files
    BY <1>1, <2>3
  <2> QED BY <2>4, NothingMoves
<1> QED BY <1>3, <1>4

LEMMA WriteShows ==
  ASSUME MaxDamage <= 1, IInv, IInv', NEW t \in Threads, At(t, "op"), NEW c \in Configs,
         NEW s \in ConfigStatus, FileCount < MaxFiles, _write_revision(t, c, s), UNCHANGED manifest
  PROVE  [History!Next]_Seen
<1>1. /\ calls[t].pc \in InLock /\ Types /\ Types' /\ Chained' /\ Recovered
      /\ manifest.state = "ok" => \A d \in Configs : High(d) = Revisions(d)
      /\ files \in [Configs -> [Versions -> FileState]]
  BY AtOp DEF IInv, FilesInv
<1>2. PICK n \in 0 .. MaxFiles : n = Revisions(c)
  BY <1>1, HistoryFacts
<1>3. n + 1 \in Versions /\ n + 1 \in 0 .. MaxFiles
  <2>1. n <= FileCount /\ FileCount \in Nat
    BY <1>1, <1>2, Counts, CountIsNat
  <2> QED BY <2>1, Names DEF Versions
<1>4. files' = [files EXCEPT ![c][n + 1] = s]
  BY <1>2 DEF _write_revision, atomic_publish_noreplace, Revisions
<1>5. /\ files'[c][n + 1] = s
      /\ \A d \in Configs, w \in Versions : d # c \/ w # n + 1 => files'[d][w] = files[d][w]
  BY <1>1, <1>3, <1>4
<1>6. n \in Nat /\ \A w \in Versions : w \in Nat
  BY Names
<1>7. \A d \in Configs \ {c} : files'[d] = files[d]
  BY <1>1, <1>4
<1>8. CASE manifest.state = "ok"
  <2>1. \A d \in Configs : High(d) \in 0 .. MaxFiles /\ High(d)' = High(d)
    BY <1>1 DEF Types, High
  <2>2. \A d \in Configs : \A w \in 1 .. High(d) : w \in Versions /\ (d = c => w # n + 1)
    BY <1>1, <1>2, <1>8, <2>1, <1>6, Names DEF Versions
  <2>3. \A d \in Configs : \A w \in 1 .. High(d) : files'[d][w] = files[d][w]
    BY <1>5, <2>2
  <2>4. \A d \in Configs : Same(d)
    BY <1>1, <1>8, <2>1, <2>3, SameOk
  <2> QED BY <2>4, AllSame
<1>9. CASE manifest.state # "ok"
  <2>1. \A d \in Configs \ {c} : Same(d)
    BY <1>7, <1>9 DEF Same, Visible, Promised, Present
  <2>2. EndsAt(c, n) /\ AliveTo(c, n)
    BY <1>1, <1>2, <1>9, IntactRead
  <2>3. Visible(c) = Prefix(c, n)
    BY <1>1, <1>9, <2>2, Shows DEF Shown
  <2>4. EndsAt(c, n + 1)' /\ AliveTo(c, n + 1)'
    <3>1. \A w \in Versions : IF w <= n + 1 THEN Alive(c, w)' ELSE files'[c][w] = "absent"
      <4> TAKE w \in Versions
      <4>1. IF w <= n THEN Alive(c, w) ELSE files[c][w] = "absent"
        BY <2>2 DEF EndsAt
      <4>2. CASE w = n + 1
        BY <1>5, <4>2 DEF Alive
      <4>3. CASE w # n + 1
        BY <1>5, <1>6, <4>1, <4>3 DEF Alive
      <4> QED BY <4>2, <4>3
    <3>2. \A w \in 1 .. (n + 1) : w \in Versions /\ w <= n + 1
      BY <1>3, Names DEF Versions
    <3> QED BY <3>1, <3>2 DEF EndsAt, AliveTo
  <2>5. Visible(c)' = Prefix(c, n + 1)'
    BY <1>1, <1>3, <1>9, <2>4, ShowsNext DEF Shown
  <2>6. Prefix(c, n)' = Prefix(c, n)
    <3>1. \A w \in 1 .. n : w \in Versions /\ w # n + 1
      BY <1>6, Names DEF Versions
    <3>2. \A w \in 1 .. n : files'[c][w] = files[c][w]
      BY <1>5, <3>1
    <3> QED BY <3>2, SamePrefix
  <2>7. Grown(c)
    BY <1>3, <2>3, <2>4, <2>5, <2>6 DEF Grown
  <2> QED BY <1>1, <2>1, <2>7, AbstractStep
<1> QED BY <1>8, <1>9

\* The operations: they move damaged files, publish one revision, or leave the files alone.
LEMMA operationShows ==
  ASSUME MaxDamage <= 1, IInv, IInv', NEW t \in Threads,
         lookup(t) \/ load(t) \/ load_exact(t) \/ register(t) \/ _transition(t)
  PROVE  [History!Next]_Seen
<1>1. At(t, "op") /\ manifest' = manifest
  BY DEF lookup, load, load_exact, register, _transition
<1>2. CASE files' = files
  BY <1>1, <1>2, NothingMoves
<1>3. CASE lookup(t)
  <2> DEFINE unread == {c \in Actives : ~Readable(c, Len(work.history[c]))}
             moved == {<<c, Len(work.history[c])>> : c \in unread}
  <2>1. Actives \ {c \in Actives : Readable(c, Len(work.history[c]))} = unread
    OBVIOUS
  <2>2. durable_move(moved)
    BY <1>3, <2>1 DEF lookup
  <2>3. \A c \in Configs, v \in Versions : <<c, v>> \in moved => files[c][v] = "damaged"
    BY DEF Readable
  <2> HIDE DEF moved
  <2> QED BY <1>1, <2>2, <2>3, MovesShow
<1>4. ASSUME NEW c, NEW v, Loads(t, c, v) PROVE [History!Next]_Seen
  <2>1. CASE Readable(c, v)
    BY <1>2, <1>4, <2>1 DEF Loads
  <2>2. CASE ~Readable(c, v)
    <3> DEFINE moved == {<<c, v>>}
    <3>1. durable_move(moved) /\ files[c][v] = "damaged"
      BY <1>4, <2>2 DEF Loads, Readable
    <3>2. \A d \in Configs, w \in Versions : <<d, w>> \in moved => files[d][w] = "damaged"
      BY <3>1
    <3> HIDE DEF moved
    <3> QED BY <1>1, <3>1, <3>2, MovesShow
  <2> QED BY <2>1, <2>2
<1>5. CASE load(t) \/ load_exact(t)
  <2>1. files' = files \/ \E c, v : Loads(t, c, v)
    BY <1>5 DEF load, load_exact
  <2> QED BY <1>2, <1>4, <2>1
<1>6. CASE register(t)
  <2> DEFINE c == calls[t].request.config
  <2>1. c \in Configs
    BY <1>1, <1>6, AtOp DEF register, Req
  <2>2. files' = files \/ (FileCount < MaxFiles /\ _write_revision(t, c, "active"))
    BY <1>6 DEF register, Req
  <2>3. "active" \in ConfigStatus
    BY DEF ConfigStatus
  <2> HIDE DEF c
  <2> QED BY <1>1, <1>2, <2>1, <2>2, <2>3, WriteShows
<1>7. CASE _transition(t)
  <2> DEFINE c == calls[t].request.config
             s == Transitions[calls[t].request.op].to
  <2>1. c \in Configs /\ s \in ConfigStatus
    BY <1>1, <1>7, AtOp DEF _transition, Req, Transitions, ConfigStatus
  <2>2. files' = files \/ (~(FileCount >= MaxFiles) /\ _write_revision(t, c, s))
    BY <1>7 DEF _transition, Req
  <2>3. ~(FileCount >= MaxFiles) => FileCount < MaxFiles
    BY CountIsNat, Names
  <2> HIDE DEF c, s
  <2> QED BY <1>1, <1>2, <2>1, <2>2, <2>3, WriteShows
<1> QED BY <1>3, <1>5, <1>6, <1>7

LEMMA StepShows ==
  ASSUME MaxDamage <= 1, Inv, Inv', [Next]_vars
  PROVE  [History!Next]_Seen
<1>1. IInv /\ IInv'
  BY DEF Inv
<1>2. CASE UNCHANGED <<files, manifest>>
  BY <1>2, NothingMoves
<1>3. ASSUME NEW t \in Threads, Begins(t) PROVE [History!Next]_Seen
  <2>1. UNCHANGED <<files, manifest>>
    BY <1>3 DEF Begins, resolve, confirm, cancel, administer, Ask, registryVars
  <2> QED BY <1>2, <2>1
<1>4. ASSUME NEW t \in Threads, Resolves(t) PROVE [History!Next]_Seen
  <2>1. UNCHANGED <<files, manifest>>
    BY <1>4 DEF Resolves, _resolution_guard, _resolve_locked, revalidate, _mark_valid, _stale, _invalid,
       concurrent_revision, reuse, _from_probe, Ask, AskOfEntry, Reloads, Lookup, Returns, Retries, registryVars
  <2> QED BY <1>2, <2>1
<1>5. ASSUME NEW t \in Threads, Registers(t) \/ Confirms(t) \/ administered(t)
      PROVE  [History!Next]_Seen
  <2>1. UNCHANGED <<files, manifest>>
    BY <1>5 DEF Registers, Confirms, administered, check_existing, _register, registered, token_lock,
       confirm_locked, confirm_overrides, pop, cancel_locked, Ask, Lookup, Returns, Retries, Conflicts, registryVars
  <2> QED BY <1>2, <2>1
<1>6. ASSUME NEW t \in Threads, RegistryStep(t) PROVE [History!Next]_Seen
  <2>1. CASE _global_lock(t)
    BY <2>1, globalLockShows
  <2>2. CASE _quarantine_path(t)
    BY <1>1, <2>2, quarantineShows
  <2>3. CASE _recover(t)
    BY <1>1, <2>3, recoverShows
  <2>4. CASE _write_manifest(t)
    BY <1>1, <2>4, writeManifestShows
  <2>5. CASE lookup(t) \/ load(t) \/ load_exact(t) \/ register(t) \/ _transition(t)
    BY <1>1, <2>5, operationShows
  <2> QED BY <1>6, <2>1, <2>2, <2>3, <2>4, <2>5 DEF RegistryStep
<1>7. ASSUME NEW t \in Threads, RegistryFault(t) PROVE [History!Next]_Seen
  BY <1>2, <1>7 DEF RegistryFault, lock_timeout, io_error
<1>8. CASE damage
  <2>1. damaged < MaxDamage
    BY <1>8 DEF damage
  <2>2. ASSUME NEW c \in Configs, NEW v \in Present(c), files' = [files EXCEPT ![c][v] = "damaged"],
               UNCHANGED manifest
        PROVE  [History!Next]_Seen
    BY <1>1, <2>1, <2>2, damageFileShows DEF Present
  <2>3. CASE /\ manifest.state = "ok" /\ UNCHANGED files
             /\ manifest' = [state |-> "damaged", high |-> NoVersions]
    <3>1. manifest'.state # "ok"
      BY <2>3
    <3> QED BY <1>1, <2>1, <2>3, <3>1, damageManifestShows
  <2> QED BY <1>8, <2>2, <2>3 DEF damage
<1>9. CASE restart
  BY <1>2, <1>9 DEF restart
<1>10. CASE UNCHANGED vars
  BY <1>2, <1>10 DEF vars, registryVars
<1> QED BY <1>3, <1>4, <1>5, <1>6, <1>7, <1>8, <1>9, <1>10 DEF Next, ThreadStep

\* The registry implements the histories it promises, whatever crashes, fails or waits, as
\* long as no more than one of its files is ever damaged: a reader sees a history grow
\* along the transitions or be given up whole, never change and never come back in part.
THEOREM HistoriesAreImplemented ==
  ASSUME MaxDamage <= 1
  PROVE  Spec => HistoriesOnlyGrow
<1>1. Init => History!Init
  <2> SUFFICES ASSUME Init PROVE \A c \in Configs : Visible(c) = <<>>
    BY DEF History!Init
  <2> TAKE c \in Configs
  <2>1. Inv /\ manifest.state = "ok" /\ High(c) = 0
    BY InitIInv, InitTokens DEF Init, RegistryInit, Inv, NoVersions, High
  <2>2. AliveTo(c, High(c)) /\ Prefix(c, High(c)) = <<>>
    BY <2>1 DEF AliveTo, Prefix
  <2> QED BY <2>1, <2>2, Shows DEF Shown, Inv, IInv
<1>2. Inv /\ Inv' /\ [Next]_vars => [History!Next]_Seen
  BY StepShows
<1> QED BY <1>1, <1>2, SpecInv, PTL DEF Spec, HistoriesOnlyGrow, History!Spec, Seen

-----------------------------------------------------------------------------
(* At most one configuration is active.  What a reader will take for active   *)
(* is said of the files, so that it holds between any two of their steps.     *)

\* The next to read the files may find c active: with a manifest that knows every file,
\* or all but the last; without one, as far as the files go.
MayBeActive(c) == \E n \in Versions :
  /\ files[c][n] = "active" /\ AliveTo(c, n)
  /\ IF manifest.state = "ok" THEN n = High(c) \/ n = High(c) + 1
     ELSE \A v \in Versions : v > n => files[c][v] = "absent"

OneActive == \A c, d \in Configs : MayBeActive(c) /\ MayBeActive(d) => c = d

\* A step makes no configuration active that was not.
Quenches(c) == MayBeActive(c)' => MayBeActive(c)

LEMMA SameQuenches ==
  ASSUME UNCHANGED files, NEW c \in Configs,
         manifest' = manifest \/ (manifest.state # "ok" /\ manifest'.state # "ok")
  PROVE  Quenches(c)
BY DEF Quenches, MayBeActive, AliveTo, Alive, High

\* Files are lost under a manifest that stays.
LEMMA LossQuenches ==
  ASSUME UNCHANGED manifest, manifest.state = "ok", Types, NEW c \in Configs,
         \A v \in Versions : files'[c][v] = files[c][v] \/ ~Alive(c, v)'
  PROVE  Quenches(c)
<1> SUFFICES ASSUME MayBeActive(c)' PROVE MayBeActive(c)
  BY DEF Quenches
<1>1. PICK n \in Versions : /\ files'[c][n] = "active" /\ AliveTo(c, n)'
                            /\ n = High(c) \/ n = High(c) + 1
  BY DEF MayBeActive, High
<1>2. \A v \in 1 .. n : v \in Versions /\ n \in 1 .. n
  BY <1>1, Names DEF Versions
<1>3. \A v \in 1 .. n : files'[c][v] = files[c][v]
  BY <1>1, <1>2 DEF AliveTo, Alive
<1>4. AliveTo(c, n)
  BY <1>1, <1>3 DEF AliveTo, Alive
<1>5. files[c][n] = "active"
  <2>1. n \in 1 .. n
    BY Names DEF Versions
  <2> QED BY <1>1, <1>3, <2>1
<1> QED BY <1>1, <1>4, <1>5 DEF MayBeActive

\* Damaged files are moved away.
LEMMA MovesQuench ==
  ASSUME MaxDamage <= 1, IInv, NEW moved, durable_move(moved), UNCHANGED manifest,
         \A c \in Configs, v \in Versions : <<c, v>> \in moved => files[c][v] = "damaged",
         NEW d \in Configs
  PROVE  Quenches(d)
<1>1. Types /\ FilesInv /\ files \in [Configs -> [Versions -> FileState]]
  BY DEF IInv, Types
<1>2. CASE manifest.state = "ok"
  <2>1. \A v \in Versions : files'[d][v] = files[d][v] \/ ~Alive(d, v)'
    BY DEF durable_move, Alive, ConfigStatus
  <2> QED BY <1>1, <1>2, <2>1, LossQuenches
<1>3. CASE manifest.state # "ok"
  <2>1. \A c \in Configs, v \in Versions : files[c][v] # "damaged"
    BY <1>1, <1>3 DEF FilesInv, Intact, Alive, ConfigStatus
  <2>2. \A c \in Configs, v \in Versions : <<c, v>> \notin moved
    BY <2>1
  <2>3. /\ files' = [c \in Configs |-> files'[c]]
        /\ \A c \in Configs : files'[c] = [v \in Versions |-> files[c][v]]
    BY <2>2 DEF durable_move
  <2>4. files' = files
    BY <1>1, <2>3
  <2> QED BY <2>4, SameQuenches
<1> QED BY <1>2, <1>3

LEMMA quarantineQuenches ==
  ASSUME MaxDamage <= 1, IInv, NEW t \in Threads, _quarantine_path(t), NEW c \in Configs
  PROVE  Quenches(c)
<1>1. calls[t].pc = "quarantine" /\ WorkInv(t) /\ Types /\ UNCHANGED manifest
  BY Holding DEF _quarantine_path, At, InLock
<1>2. PICK f \in ToMove : durable_move({f})
  BY DEF _quarantine_path, ToMove
<1>3. manifest.state = "ok"
  BY <1>1, <1>2 DEF WorkInv, Scanned
<1>4. \A v \in Versions : files'[c][v] = files[c][v] \/ ~Alive(c, v)'
  BY <1>2 DEF durable_move, Alive, ConfigStatus
<1> QED BY <1>1, <1>3, <1>4, LossQuenches

\* The manifest comes to name what its writer has read.
LEMMA ManifestQuenches ==
  ASSUME IInv, NEW t \in Threads, calls[t].pc \in InLock, Recovered, UNCHANGED files,
         manifest' = Manifest(work.history), NEW c \in Configs,
         manifest.state = "ok" => Revisions(c) = High(c) \/ Revisions(c) = High(c) + 1
                                  \/ Revisions(c) = 0
  PROVE  Quenches(c)
<1> SUFFICES ASSUME MayBeActive(c)' PROVE MayBeActive(c)
  BY DEF Quenches
<1>1. manifest'.state = "ok" /\ High(c)' = Revisions(c)
  BY DEF Manifest, High, Revisions
<1>2. PICK n \in Versions : /\ files[c][n] = "active" /\ AliveTo(c, n)
                            /\ n = Revisions(c) \/ n = Revisions(c) + 1
  BY <1>1 DEF MayBeActive, AliveTo, Alive
<1>3. Revisions(c) \in Nat /\ n \in Nat /\ n # 0
  BY HistoryFacts, Names DEF Versions
<1>4. n <= Revisions(c)
  BY <1>2 DEF Recovered
<1>5. n = Revisions(c) /\ Revisions(c) # 0
  BY <1>2, <1>3, <1>4
<1>6. \A v \in Versions : v > n => files[c][v] = "absent"
  <2>1. \A v \in Versions : v \in Nat
    BY Names
  <2> QED BY <1>3, <1>5, <2>1 DEF Recovered
<1> QED BY <1>2, <1>5, <1>6 DEF MayBeActive

LEMMA recoverQuenches ==
  ASSUME IInv, NEW t \in Threads, _recover(t), NEW c \in Configs
  PROVE  Quenches(c)
<1>1. calls[t].pc = "quarantine" /\ calls[t].pc \in InLock /\ WorkInv(t) /\ FilesInv /\ UNCHANGED files
  BY Holding DEF _recover, At, InLock
<1>2. CASE UNCHANGED manifest
  BY <1>1, <1>2, SameQuenches
<1>3. CASE manifest' = Manifest(work.history)
  <2>1. Scanned /\ ToMove = {}
    BY <1>1 DEF WorkInv, _recover, ToMove
  <2>2. Recovered
    BY <2>1 DEF Scanned, Recovered
  <2>3. manifest.state = "ok" => Revisions(c) = High(c) \/ Revisions(c) = High(c) + 1
                                 \/ Revisions(c) = 0
    <3> SUFFICES ASSUME manifest.state = "ok", Revisions(c) # 0
                 PROVE  Revisions(c) = High(c) \/ Revisions(c) = High(c) + 1
      OBVIOUS
    <3>1. High(c) <= Revisions(c) /\ High(c) \in 0 .. MaxFiles /\ Revisions(c) \in 0 .. MaxFiles
      BY <1>1, <2>1, HistoryFacts DEF Scanned, IInv, Types, High
    <3>2. CASE High(c) < Revisions(c)
      <4>1. Revisions(c) \in 1 .. Revisions(c)
        BY <3>1, Names
      <4>2. Revisions(c) \in Versions /\ work.history[c][Revisions(c)] \in ConfigStatus
        BY <1>1, <4>1, HistoryFacts
      <4>3. files[c][Revisions(c)] = work.history[c][Revisions(c)]
        BY <2>1, <3>1, <4>2, Names DEF Scanned
      <4>4. Extra(c, Revisions(c))
        BY <3>1, <3>2, <4>2, <4>3, Names DEF Extra, ConfigStatus
      <4> QED BY <1>1, <4>2, <4>4 DEF FilesInv, OneBehind
    <3> QED BY <3>1, <3>2, Names
  <2> QED BY <1>1, <1>3, <2>2, <2>3, ManifestQuenches
<1> QED BY <1>2, <1>3 DEF _recover, atomic_write

LEMMA writeManifestQuenches ==
  ASSUME IInv, NEW t \in Threads, _write_manifest(t), NEW c \in Configs
  PROVE  Quenches(c)
<1>1. /\ calls[t].pc = "record" /\ calls[t].pc \in InLock /\ WorkInv(t)
      /\ manifest' = Manifest(work.history) /\ UNCHANGED files
  BY Holding DEF _write_manifest, At, InLock, atomic_write
<1>2. Recovered
  BY <1>1 DEF WorkInv
<1>3. manifest.state = "ok" => Revisions(c) = High(c) \/ Revisions(c) = High(c) + 1
  BY <1>1 DEF WorkInv
<1> QED BY <1>1, <1>2, <1>3, ManifestQuenches

LEMMA damageQuenches ==
  ASSUME MaxDamage <= 1, IInv, damage, NEW c \in Configs
  PROVE  Quenches(c)
<1>1. Types /\ FilesInv /\ files \in [Configs -> [Versions -> FileState]] /\ damaged < MaxDamage
  BY DEF IInv, Types, damage
<1>2. damaged = 0
  <2>1. damaged \in 0 .. MaxDamage /\ MaxDamage \in Nat
    BY <1>1, RegistryAssumption DEF Types
  <2> QED BY <1>1, <2>1
<1>3. manifest.state = "ok" /\ Whole /\ OneBehind
  BY <1>1, <1>2 DEF FilesInv
<1>4. ASSUME NEW d \in Configs, NEW w \in Present(d), files' = [files EXCEPT ![d][w] = "damaged"],
             UNCHANGED manifest
      PROVE  Quenches(c)
  <2>1. \A v \in Versions : files'[c][v] = files[c][v] \/ files'[c][v] = "damaged"
    BY <1>1, <1>4
  <2>2. \A v \in Versions : files'[c][v] = files[c][v] \/ ~Alive(c, v)'
    BY <2>1 DEF Alive, ConfigStatus
  <2> QED BY <1>1, <1>3, <1>4, <2>2, LossQuenches
<1>5. CASE manifest' = [state |-> "damaged", high |-> NoVersions] /\ UNCHANGED files
  <2> SUFFICES ASSUME MayBeActive(c)' PROVE MayBeActive(c)
    BY DEF Quenches
  <2>1. manifest'.state # "ok"
    BY <1>5
  <2>2. PICK n \in Versions : /\ files[c][n] = "active" /\ AliveTo(c, n)
                              /\ \A v \in Versions : v > n => files[c][v] = "absent"
    BY <1>5, <2>1 DEF MayBeActive, AliveTo, Alive
  <2>3. High(c) \in 0 .. MaxFiles /\ n \in Nat
    BY <1>1, Names DEF Types, High
  <2>4. ~(n < High(c))
    <3> SUFFICES ASSUME n < High(c) PROVE FALSE
      OBVIOUS
    <3>1. High(c) \in Versions /\ High(c) > n
      BY <2>3, Names DEF Versions
    <3>2. files[c][High(c)] # "absent"
      BY <1>3, <2>3, <3>1, Names DEF Whole
    <3> QED BY <2>2, <3>1, <3>2
  <2>5. n > High(c) => n = High(c) + 1
    BY <1>3, <2>2 DEF OneBehind, Extra
  <2>6. n = High(c) \/ n = High(c) + 1
    BY <2>3, <2>4, <2>5, Names
  <2> QED BY <1>3, <2>2, <2>6 DEF MayBeActive
<1> QED BY <1>4, <1>5 DEF damage

\* The next revision of c: no other configuration changes, and c becomes active only where
\* it was.
LEMMA WriteQuenches ==
  ASSUME IInv, NEW t \in Threads, At(t, "op"), NEW c \in Configs, NEW s \in ConfigStatus,
         FileCount < MaxFiles, _write_revision(t, c, s), UNCHANGED manifest
  PROVE  /\ \A d \in Configs \ {c} : Quenches(d)
         /\ (s = "active" => Revisions(c) # 0 /\ work.history[c][Revisions(c)] = "active") => Quenches(c)
<1>1. /\ calls[t].pc \in InLock /\ Types /\ Recovered
      /\ manifest.state = "ok" => \A d \in Configs : High(d) = Revisions(d)
      /\ files \in [Configs -> [Versions -> FileState]]
  BY AtOp
<1>2. PICK n \in 0 .. MaxFiles : n = Revisions(c)
  BY <1>1, HistoryFacts
<1>3. n + 1 \in Versions /\ n \in Nat /\ \A w \in Versions : w \in Nat /\ w # 0
  <2>1. n <= FileCount /\ FileCount \in Nat
    BY <1>1, <1>2, Counts, CountIsNat
  <2> QED BY <2>1, Names DEF Versions
<1>4. files' = [files EXCEPT ![c][n + 1] = s]
  BY <1>2 DEF _write_revision, atomic_publish_noreplace, Revisions
<1>5. /\ files'[c][n + 1] = s
      /\ \A d \in Configs, w \in Versions : d # c \/ w # n + 1 => files'[d][w] = files[d][w]
  BY <1>1, <1>3, <1>4
<1>6. \A d \in Configs \ {c} : Quenches(d)
  <2> TAKE d \in Configs \ {c}
  <2>1. files'[d] = files[d]
    BY <1>1, <1>4
  <2> QED BY <2>1 DEF Quenches, MayBeActive, AliveTo, Alive, High
<1>7. ASSUME s = "active" => n # 0 /\ work.history[c][n] = "active", MayBeActive(c)'
      PROVE  MayBeActive(c)
  <2>1. PICK m \in Versions : /\ files'[c][m] = "active" /\ AliveTo(c, m)'
                              /\ IF manifest.state = "ok" THEN m = High(c) \/ m = High(c) + 1
                                 ELSE \A v \in Versions : v > m => files'[c][v] = "absent"
    BY <1>7 DEF MayBeActive, High
  <2>2. \A v \in 1 .. m : v \in Versions
    BY <1>3, Names DEF Versions
  <2>3. CASE m = n + 1
    <3>1. s = "active" /\ n \in Versions /\ n <= Revisions(c)
      BY <1>2, <1>3, <1>5, <1>7, <2>1, <2>3, Names DEF Versions
    <3>2. \A v \in 1 .. n : v \in Versions /\ v \in 1 .. m /\ v # n + 1
      BY <1>3, <2>2, <2>3
    <3>3. \A v \in 1 .. n : files'[c][v] = files[c][v] /\ files'[c][v] \in ConfigStatus
      BY <1>5, <2>1, <3>2 DEF AliveTo, Alive
    <3>4. AliveTo(c, n) /\ files[c][n] \in ConfigStatus
      <4>1. n \in 1 .. n
        BY <1>3, <3>1
      <4> QED BY <3>3, <4>1 DEF AliveTo, Alive
    <3>5. files[c][n] = "active"
      BY <1>1, <1>2, <1>7, <3>1, <3>4 DEF Recovered, ConfigStatus
    <3>6. \A v \in Versions : v > n => files[c][v] = "absent"
      BY <1>1, <1>2, <1>3 DEF Recovered
    <3> QED BY <1>1, <1>2, <3>1, <3>4, <3>5, <3>6 DEF MayBeActive
  <2>4. CASE m # n + 1 /\ manifest.state = "ok"
    <3>1. m = n /\ High(c) = n
      BY <1>1, <1>2, <2>1, <2>4
    <3>2. \A v \in 1 .. m : files'[c][v] = files[c][v] /\ m \in 1 .. m
      <4>1. \A v \in 1 .. m : v # n + 1 /\ v \in Versions /\ m \in 1 .. m
        BY <1>3, <2>2, <3>1
      <4> QED BY <1>5, <4>1
    <3>3. AliveTo(c, m) /\ files[c][m] = "active"
      <4>1. m \in 1 .. m
        BY <1>3, <3>1
      <4> QED BY <2>1, <3>2, <4>1 DEF AliveTo, Alive
    <3> QED BY <2>4, <3>1, <3>3 DEF MayBeActive
  <2>5. CASE m # n + 1 /\ manifest.state # "ok"
    <3>1. files'[c][n + 1] # "absent"
      BY <1>5 DEF ConfigStatus
    <3>2. ~(n + 1 > m)
      BY <1>3, <2>1, <2>5, <3>1
    <3>3. m > n /\ files'[c][m] = files[c][m]
      BY <1>3, <1>5, <2>5, <3>2
    <3>4. files[c][m] = "absent"
      BY <1>1, <1>2, <1>3, <3>3 DEF Recovered
    <3> QED BY <2>1, <3>3, <3>4
  <2> QED BY <2>3, <2>4, <2>5
<1> QED BY <1>2, <1>6, <1>7 DEF Quenches

\* What the holder of the lock that has recovered knows of the active ones.
LEMMA ActiveKnown ==
  ASSUME IInv, NEW t \in Threads, At(t, "op"), NEW c \in Configs, MayBeActive(c)
  PROVE  c \in Actives /\ Readable(c, Len(work.history[c])) /\ Last(work.history[c]) = "active"
<1>1. /\ calls[t].pc \in InLock /\ Recovered
      /\ manifest.state = "ok" => \A d \in Configs : High(d) = Revisions(d)
  BY AtOp
<1>2. PICK n \in Versions : /\ files[c][n] = "active"
                            /\ IF manifest.state = "ok" THEN n = High(c) \/ n = High(c) + 1
                               ELSE \A v \in Versions : v > n => files[c][v] = "absent"
  BY DEF MayBeActive
<1>3. n \in Nat /\ n # 0 /\ Revisions(c) \in Nat /\ Len(work.history[c]) = Revisions(c)
  BY <1>1, HistoryFacts, Names DEF Versions
<1>4. n <= Revisions(c)
  BY <1>1, <1>2 DEF Recovered
<1>5. n = Revisions(c)
  <2>1. CASE manifest.state = "ok"
    BY <1>1, <1>2, <1>3, <1>4, <2>1
  <2>2. CASE manifest.state # "ok" /\ n < Revisions(c)
    <3>1. Revisions(c) \in 1 .. Revisions(c)
      BY <1>3, <1>4
    <3>2. Revisions(c) \in Versions /\ work.history[c][Revisions(c)] \in ConfigStatus
      BY <1>1, <3>1, HistoryFacts
    <3>3. files[c][Revisions(c)] # "absent"
      BY <1>1, <1>3, <3>2 DEF Recovered, ConfigStatus
    <3> QED BY <1>2, <2>2, <3>2, <3>3
  <2> QED BY <1>3, <1>4, <2>1, <2>2
<1>6. work.history[c][n] = "active"
  BY <1>1, <1>2, <1>4 DEF Recovered
<1>7. Known(c) /\ Last(work.history[c]) = "active" /\ Readable(c, n)
  BY <1>1, <1>2, <1>3, <1>5, <1>6, HistoryFacts DEF Last, Readable
<1> QED BY <1>3, <1>5, <1>7 DEF Actives

\* A reader that sees c active is right.
LEMMA VisibleActive ==
  ASSUME MaxDamage <= 1, IInv, NEW c \in Configs, Visible(c) # <<>>, Last(Visible(c)) = "active"
  PROVE  MayBeActive(c)
<1>1. Types /\ FilesInv /\ Shown
  BY Shows DEF IInv
<1>2. ASSUME NEW n \in 0 .. MaxFiles, Visible(c) = Prefix(c, n), AliveTo(c, n)
      PROVE  n \in Versions /\ files[c][n] = "active"
  <2>1. n \in Nat /\ Prefix(c, n) = [v \in 1 .. n |-> files[c][v]]
    BY <1>2, Names DEF Prefix
  <2>2. n # 0
    BY <1>2, <2>1
  <2>3. Len(Visible(c)) = n /\ n \in 1 .. n
    BY <1>2, <2>1, <2>2
  <2>4. Visible(c)[n] = files[c][n]
    BY <1>2, <2>1, <2>3
  <2> QED BY <2>1, <2>2, <2>3, <2>4, Names DEF Last, Versions
<1>3. CASE manifest.state = "ok"
  <2>1. PICK n \in 0 .. MaxFiles : n = High(c)
    BY <1>1 DEF Types, High
  <2>2. AliveTo(c, n) /\ Visible(c) = Prefix(c, n)
    BY <1>1, <1>3, <2>1 DEF Shown
  <2> QED BY <1>2, <1>3, <2>1, <2>2 DEF MayBeActive
<1>4. CASE manifest.state # "ok"
  <2>1. PICK n \in 0 .. MaxFiles : EndsAt(c, n)
    BY <1>1, <1>4 DEF FilesInv, Intact, EndsAt
  <2>2. Visible(c) = Prefix(c, n)
    BY <1>1, <1>4, <2>1 DEF Shown
  <2>3. AliveTo(c, n)
    <3>1. \A v \in 1 .. n : v \in Versions /\ v <= n
      BY Names DEF Versions
    <3> QED BY <2>1, <3>1 DEF EndsAt, AliveTo
  <2>4. \A v \in Versions : v > n => files[c][v] = "absent"
    <3>1. n \in Nat /\ \A v \in Versions : v \in Nat
      BY Names
    <3> QED BY <2>1, <3>1 DEF EndsAt
  <2> QED BY <1>2, <1>4, <2>2, <2>3, <2>4 DEF MayBeActive
<1> QED BY <1>3, <1>4

-----------------------------------------------------------------------------
(* What the threads know: who is inside the lock of the domain, what was      *)
(* active when it was read, and that what is registered matches the URL.      *)

Outside == {"idle", "token", "guard", "cancel", "administered", "pop"}

\* Only what was active when it was looked up is validated, and a look-up that has not been
\* answered is one for the thread's URL.
PlaceOK(r, call) ==
  /\ r.pc \in WithEntry => r.entry.status = "active"
  /\ r.pc = "looked_up" /\ call.result.kind = "entry" => call.result.status = "active"
  /\ call.request.op = "mark_validated" => call.request.status = "active"
  /\ r.pc \in {"looked_up", "checked"} /\ call.pc # "done" => call.request.op = "lookup"
  /\ r.pc = "checked" /\ call.pc # "done" => call.request.url = r.url
  /\ call.pc = "record" => call.request.op # "lookup"
  /\ r.pc \in WithConfig => r.url \in Covers[r.config]

Confirming(r) == r.task = "confirm" => Given(r.token) /\ pending[r.token].url = r.url

\* What Confirming says of a run that a thread goes on with.
ConfirmingNext(r) ==
  r.task = "confirm" => pending'[r.token].state # "unused" /\ pending'[r.token].url = r.url

PendingFit == \A k \in Tokens : Given(k) => pending[k].url \in Covers[pending[k].config]

PlacesInv ==
  /\ PendingFit
  /\ \A t \in Threads : /\ run[t].pc \notin Outside => resolving = t
                        /\ PlaceOK(run[t], calls[t]) /\ Confirming(run[t])

\* A thread that has found nothing but its own configuration is free to register it.
Cleared(r, call) ==
  \/ /\ r.pc = "checked" /\ call.pc = "done"
     /\ \/ call.result.kind = "missing"
        \/ call.result.kind = "entry" /\ call.result.config = r.config
  \/ call.request.op = "register"

\* On a disk that spoils no file, what has been registered stays.
Taken(c) == MaxDamage = 0 /\ files[c][1] # "absent"

Alone(c, url) == Taken(c) \/ \A d \in Configs \ {c} : url \in Covers[d] => ~MayBeActive(d)

SameCovers == \A c, d \in Configs : Covers[c] = Covers[d]

\* The holder of the registry's lock has read no more than one active configuration.
OneKnown == \A c, d \in Actives : c = d

ActiveInv ==
  /\ SameCovers => OneActive
  /\ \A t \in Threads : /\ calls[t].pc = "op" /\ SameCovers => OneKnown
                        /\ Cleared(run[t], calls[t]) => Alone(run[t].config, run[t].url)

AllInv == IInv /\ TokensInv /\ PlacesInv /\ ActiveInv

KeepsUrls == \A k \in Tokens :
  /\ Given(k) => Given(k)' /\ pending'[k].url = pending[k].url
  /\ Given(k)' => pending'[k].url \in Covers[pending'[k].config]

\* A step of the manager: t's run and call change, and no file does.
Manages(t, r, call) ==
  /\ Goes(t, r, call) /\ KeepsUrls /\ UNCHANGED <<files, manifest, work>>
  /\ resolving' = resolving \/ resolving \in {t, NONE}
  /\ r.pc \notin Outside => resolving' = t
  /\ call.pc # "op"

LEMMA ManagesStep ==
  ASSUME AllInv, NEW t \in Threads, NEW r, NEW call, Manages(t, r, call), PlaceOK(r, call),
         ConfirmingNext(r),
         Cleared(r, call) =>
           Cleared(run[t], calls[t]) /\ r.config = run[t].config /\ r.url = run[t].url
  PROVE  PlacesInv' /\ ActiveInv'
<1>1. /\ run'[t] = r /\ calls'[t] = call
      /\ \A u \in Threads \ {t} : run'[u] = run[u] /\ calls'[u] = calls[u]
  BY DEF AllInv, IInv, Types, Manages, Goes
<1>2. PendingFit'
  BY DEF Manages, KeepsUrls, PendingFit, Given
<1>3. ASSUME NEW u \in Threads \ {t}
      PROVE  /\ run[u].pc \notin Outside => resolving' = u
             /\ PlaceOK(run[u], calls[u]) /\ ConfirmingNext(run[u])
  <2>1. run[u].pc \notin Outside => resolving = u /\ u # NONE /\ u # t
    BY Names DEF AllInv, PlacesInv
  <2>2. run[u].pc \notin Outside => resolving' = u
    BY <2>1 DEF Manages
  <2>3. PlaceOK(run[u], calls[u]) /\ Confirming(run[u])
    BY DEF AllInv, PlacesInv
  <2>4. run[u].task = "confirm" => run[u].token \in Tokens
    BY DEF AllInv, TokensInv, ConfirmInv
  <2>5. ConfirmingNext(run[u])
    BY <1>1, <2>3, <2>4 DEF Confirming, ConfirmingNext, Manages, KeepsUrls, Given
  <2> QED BY <2>2, <2>3, <2>5
<1>4. PlacesInv'
  <2> SUFFICES ASSUME NEW u \in Threads
               PROVE  /\ run'[u].pc \notin Outside => resolving' = u
                      /\ PlaceOK(run'[u], calls'[u]) /\ ConfirmingNext(run'[u])
    BY <1>2 DEF PlacesInv, PlaceOK, Confirming, ConfirmingNext, Given
  <2>1. CASE u = t
    BY <1>1, <2>1 DEF Manages
  <2>2. CASE u # t
    BY <1>1, <1>3, <2>2
  <2> QED BY <2>1, <2>2
<1>5. \A c \in Configs : MayBeActive(c)' <=> MayBeActive(c)
  BY DEF Manages, MayBeActive, AliveTo, Alive, High
<1>6. Actives' = Actives
  BY DEF Manages, Actives, Known
<1>7. (SameCovers => OneActive') /\ (OneKnown' <=> OneKnown)
  BY <1>5, <1>6 DEF AllInv, ActiveInv, OneActive, OneKnown
<1>8. \A c, url : Alone(c, url)' <=> Alone(c, url)
  BY <1>5 DEF Alone, Taken, Manages
<1>9. ASSUME NEW u \in Threads
      PROVE  /\ calls'[u].pc = "op" /\ SameCovers => OneKnown
             /\ Cleared(run'[u], calls'[u]) => Alone(run'[u].config, run'[u].url)
  <2>1. /\ calls[u].pc = "op" /\ SameCovers => OneKnown
        /\ Cleared(run[u], calls[u]) => Alone(run[u].config, run[u].url)
    BY DEF AllInv, ActiveInv
  <2>2. CASE u = t
    BY <1>1, <2>1, <2>2 DEF Manages
  <2>3. CASE u # t
    BY <1>1, <2>1, <2>3
  <2> QED BY <2>2, <2>3
<1>10. ActiveInv'
  BY <1>7, <1>8, <1>9 DEF ActiveInv, Cleared, Alone, Taken, SameCovers
<1> QED BY <1>4, <1>10

LEMMA SameUrls ==
  ASSUME AllInv, UNCHANGED pending
  PROVE  KeepsUrls
BY DEF KeepsUrls, Given, AllInv, PlacesInv, PendingFit

LEMMA ForgetUrls ==
  ASSUME AllInv, NEW ks, pending' = Forget(ks)
  PROVE  KeepsUrls
<1>1. pending \in [Tokens -> Pending] /\ PendingFit
  BY DEF AllInv, TokensInv, PendInv, PlacesInv
<1>2. \A k \in Tokens : pending'[k] = IF k \in ks /\ pending[k].state = "live"
                                      THEN [pending[k] EXCEPT !.state = "gone"] ELSE pending[k]
  BY DEF Forget
<1>3. \A k \in Tokens : /\ [pending[k] EXCEPT !.state = "gone"].config = pending[k].config
                        /\ [pending[k] EXCEPT !.state = "gone"].url = pending[k].url
                        /\ [pending[k] EXCEPT !.state = "gone"].state = "gone"
  BY <1>1 DEF Pending
<1>4. \A k \in Tokens : /\ pending'[k].config = pending[k].config
                        /\ pending'[k].url = pending[k].url
                        /\ pending'[k].state = "unused" <=> pending[k].state = "unused"
  BY <1>2, <1>3
<1> QED BY <1>1, <1>4 DEF KeepsUrls, Given, PendingFit

LEMMA OneUrl ==
  ASSUME AllInv, NEW k \in Tokens, NEW s \in {"gone", "cancelled"},
         pending' = [pending EXCEPT ![k].state = IF @ = "live" THEN s ELSE @]
  PROVE  KeepsUrls
<1> DEFINE s2 == IF pending[k].state = "live" THEN s ELSE pending[k].state
           q == [pending[k] EXCEPT !.state = s2]
<1>1. pending \in [Tokens -> Pending] /\ PendingFit
  BY DEF AllInv, TokensInv, PendInv, PlacesInv
<1>2. pending' = [pending EXCEPT ![k] = q]
  BY <1>1
<1>3. s2 = "unused" <=> pending[k].state = "unused"
  OBVIOUS
<1> HIDE DEF s2
<1>4. q.config = pending[k].config /\ q.url = pending[k].url /\ q.state = s2
  BY <1>1 DEF Pending
<1> HIDE DEF q
<1>5. pending'[k] = q /\ \A l \in Tokens \ {k} : pending'[l] = pending[l]
  BY <1>1, <1>2
<1> QED BY <1>1, <1>3, <1>4, <1>5 DEF KeepsUrls, Given, PendingFit

LEMMA ReturnsActive ==
  ASSUME AllInv, NEW t \in Threads, Returns(t), KeepsUrls
  PROVE  PlacesInv' /\ ActiveInv'
<1> DEFINE token == run[t].token
           pops == [NoRun EXCEPT !.pc = "pop", !.token = token]
           r == IF run[t].task = "fallback" THEN pops ELSE NoRun
<1>1. /\ calls' = [calls EXCEPT ![t] = NoCall] /\ run' = [run EXCEPT ![t] = r]
      /\ resolving' = IF resolving = t THEN NONE ELSE resolving
      /\ UNCHANGED <<files, manifest, work>>
  BY DEF Returns
<1> HIDE DEF token
<1>2. pops.pc = "pop" /\ pops.task = NONE /\ NoRun.pc = "idle" /\ NoRun.task = NONE
  BY DEF NoRun
<1> HIDE DEF pops
<1>3. r.pc \in {"idle", "pop"} /\ r.task = NONE
  BY <1>2
<1> HIDE DEF r
<1>4. Manages(t, r, NoCall)
  BY <1>1, <1>3, Plain DEF Manages, Goes, Outside
<1>5. PlaceOK(r, NoCall) /\ ~Cleared(r, NoCall)
  BY <1>3, Plain DEF PlaceOK, Cleared, WithEntry, WithConfig
<1>6. ConfirmingNext(r)
  BY <1>3 DEF ConfirmingNext, NONE
<1> QED BY <1>4, <1>5, <1>6, ManagesStep

\* A thread asks the registry something about what it has in hand.
LEMMA AskActive ==
  ASSUME AllInv, NEW t \in Threads, NEW request, NEW pc \in Waiting \ {"looked_up", "checked"},
         Ask(t, request, pc), UNCHANGED <<resolving, pending>>,
         pc # "administered" => run[t].pc \notin Outside,
         pc \in WithEntry => run[t].pc \in WithEntry,
         pc \in WithConfig => run[t].pc \in WithConfig,
         request.op = "mark_validated" => request.status = "active",
         request.op = "register" => Cleared(run[t], calls[t])
  PROVE  PlacesInv' /\ ActiveInv'
<1> DEFINE r == [run[t] EXCEPT !.pc = pc]
           call == Asked(request)
<1>1. /\ run[t] \in Run /\ run \in [Threads -> Run] /\ PlaceOK(run[t], calls[t])
      /\ Confirming(run[t]) /\ (run[t].pc \notin Outside => resolving = t)
  BY Mine DEF AllInv, IInv, Types, PlacesInv
<1>2. /\ calls' = [calls EXCEPT ![t] = call] /\ run' = [run EXCEPT ![t].pc = pc]
      /\ UNCHANGED <<files, manifest, work>>
  BY DEF Ask
<1>3. run' = [run EXCEPT ![t] = r]
  BY <1>1, <1>2
<1>4. /\ r.task = run[t].task /\ r.token = run[t].token /\ r.config = run[t].config
      /\ r.url = run[t].url /\ r.entry = run[t].entry /\ r.pc = pc
  BY <1>1 DEF Run
<1> HIDE DEF r
<1>5. call.pc = "lock" /\ call.request = request /\ call.result = NoResult
  BY DEF Asked
<1> HIDE DEF call
<1>6. KeepsUrls
  BY SameUrls
<1>7. pc \notin Outside => pc # "administered"
  BY DEF Outside
<1>8. Manages(t, r, call)
  BY <1>1, <1>2, <1>3, <1>4, <1>5, <1>6, <1>7 DEF Manages, Goes
<1>9. PlaceOK(r, call)
  BY <1>1, <1>4, <1>5, Plain DEF PlaceOK
<1>10. ConfirmingNext(r)
  BY <1>1, <1>4 DEF Confirming, ConfirmingNext, Given
<1>11. Cleared(r, call) =>
         Cleared(run[t], calls[t]) /\ r.config = run[t].config /\ r.url = run[t].url
  BY <1>4, <1>5 DEF Cleared
<1> QED BY <1>8, <1>9, <1>10, <1>11, ManagesStep

LEMMA AskOfEntryActive ==
  ASSUME AllInv, NEW t \in Threads, run[t].pc \in WithEntry,
         NEW op \in {"mark_stale", "mark_invalid", "mark_validated"},
         NEW pc \in {"validated", "staled", "invalidated"}, AskOfEntry(t, op, pc), Inside
  PROVE  PlacesInv' /\ ActiveInv'
<1> DEFINE e == run[t].entry
           request == Query(op, e.config, e.version, e.status)
<1>1. Ask(t, request, pc) /\ UNCHANGED <<resolving, pending>>
  BY DEF AskOfEntry, Inside, Stays
<1>2. request.op = op /\ request.status = e.status
  BY DEF Query
<1>3. e.status = "active"
  BY DEF AllInv, PlacesInv, PlaceOK
<1> HIDE DEF request
<1>4. /\ pc \in Waiting \ {"looked_up", "checked"} /\ run[t].pc \notin Outside
      /\ pc \in WithEntry /\ pc \notin WithConfig
  BY DEF Waiting, WithEntry, WithConfig, Outside
<1> QED BY <1>1, <1>2, <1>3, <1>4, AskActive

LEMMA QueryActive ==
  ASSUME AllInv, NEW t \in Threads, NEW c, NEW v, NEW s,
         NEW op \in {"load", "load_exact", "mark_revoked", "unrevoke"},
         NEW pc \in {"reloaded", "reloaded_any", "exact", "final", "administered"},
         Ask(t, Query(op, c, v, s), pc), UNCHANGED <<resolving, pending>>,
         pc # "administered" => run[t].pc \notin Outside,
         pc \in {"reloaded", "reloaded_any"} => run[t].pc \in WithEntry,
         pc = "final" => run[t].pc \in WithConfig
  PROVE  PlacesInv' /\ ActiveInv'
<1> DEFINE request == Query(op, c, v, s)
<1>1. request.op = op /\ Ask(t, request, pc)
  BY DEF Query
<1> HIDE DEF request
<1>2. /\ pc \in Waiting \ {"looked_up", "checked"}
      /\ pc \in WithEntry => pc \in {"reloaded", "reloaded_any"}
      /\ pc \in WithConfig => pc = "final"
  BY DEF Waiting, WithEntry, WithConfig
<1> QED BY <1>1, <1>2, AskActive

\* A thread looks its URL up, from the start or once more.
LEMMA LookupActive ==
  ASSUME AllInv, NEW t \in Threads, Lookup(t), UNCHANGED pending, NEW r, r.pc = "looked_up",
         run' = [run EXCEPT ![t] = r], r.task = run[t].task, r.token = run[t].token,
         r.url = run[t].url, resolving' = t, resolving \in {t, NONE}
  PROVE  PlacesInv' /\ ActiveInv'
<1> DEFINE url == run[t].url
           request == [NoRequest EXCEPT !.op = "lookup", !.url = url]
           call == Asked(request)
<1>1. calls' = [calls EXCEPT ![t] = call] /\ UNCHANGED <<files, manifest, work>>
  BY DEF Lookup
<1> HIDE DEF url
<1>2. request.op = "lookup" /\ request.url = url
  BY DEF NoRequest
<1> HIDE DEF request
<1>3. call.pc = "lock" /\ call.request = request /\ call.result = NoResult
  BY DEF Asked
<1> HIDE DEF call
<1>4. Manages(t, r, call)
  BY <1>1, <1>3, SameUrls DEF Manages, Goes
<1>5. PlaceOK(r, call) /\ ~Cleared(r, call)
  BY <1>2, <1>3, Plain DEF PlaceOK, Cleared, WithEntry, WithConfig
<1>6. Confirming(run[t])
  BY DEF AllInv, PlacesInv
<1>7. ConfirmingNext(r)
  BY <1>6 DEF Confirming, ConfirmingNext, Given
<1> QED BY <1>4, <1>5, <1>7, ManagesStep

\* A thread comes by a configuration that matches its URL, and looks for another one.
LEMMA ChecksActive ==
  ASSUME AllInv, NEW t \in Threads, NEW c, Lookup(t), resolving' = resolving, KeepsUrls,
         run' = [run EXCEPT ![t].pc = "checked", ![t].config = c],
         run[t].url \in Covers[c], run[t].pc \notin Outside
  PROVE  PlacesInv' /\ ActiveInv'
<1> DEFINE url == run[t].url
           request == [NoRequest EXCEPT !.op = "lookup", !.url = url]
           call == Asked(request)
           r == [run[t] EXCEPT !.pc = "checked", !.config = c]
<1>1. /\ calls' = [calls EXCEPT ![t] = call] /\ UNCHANGED <<files, manifest, work>>
      /\ run[t] \in Run /\ run \in [Threads -> Run] /\ Confirming(run[t]) /\ resolving = t
      /\ run[t].task = "confirm" => run[t].token \in Tokens
  BY Mine DEF Lookup, AllInv, IInv, Types, PlacesInv, TokensInv, ConfirmInv
<1>2. run' = [run EXCEPT ![t] = r]
  BY <1>1
<1>3. /\ r.pc = "checked" /\ r.url = url /\ r.config = c /\ r.task = run[t].task
      /\ r.token = run[t].token
  BY <1>1 DEF Run
<1> HIDE DEF r
<1>4. url \in Covers[c] /\ url = run[t].url
  OBVIOUS
<1> HIDE DEF url
<1>5. request.op = "lookup" /\ request.url = url
  BY DEF NoRequest
<1> HIDE DEF request
<1>6. call.pc = "lock" /\ call.request = request /\ call.result = NoResult
  BY DEF Asked
<1> HIDE DEF call
<1>7. Manages(t, r, call)
  BY <1>1, <1>2, <1>3, <1>6 DEF Manages, Goes
<1>8. PlaceOK(r, call) /\ ~Cleared(r, call)
  BY <1>3, <1>4, <1>5, <1>6, Plain DEF PlaceOK, Cleared, WithEntry, WithConfig
<1>9. ConfirmingNext(r)
  BY <1>1, <1>3, <1>4 DEF Confirming, ConfirmingNext, Given, KeepsUrls
<1> QED BY <1>7, <1>8, <1>9, ManagesStep

\* A thread goes on, or begins, without a question to the registry.
LEMMA QuietActive ==
  ASSUME AllInv, NEW t \in Threads, calls[t].pc = "done" \/ run[t].pc \in Quiet,
         UNCHANGED <<calls, files, manifest, work>>, NEW r, r.pc \in Quiet,
         run' = [run EXCEPT ![t] = r], KeepsUrls,
         resolving' = resolving \/ resolving \in {t, NONE},
         r.pc \notin Outside => resolving' = t, ConfirmingNext(r)
  PROVE  PlacesInv' /\ ActiveInv'
<1>1. calls[t].request = NoRequest /\ calls[t].pc \in {"idle", "done"} /\ calls \in [Threads -> Call]
  <2>1. IInv
    BY DEF AllInv
  <2>2. calls[t].request = NoRequest /\ Away(t) /\ calls[t] \in Call /\ CallOK(calls[t], run[t])
    BY <2>1, IsAway, Mine
  <2> QED BY <2>1, <2>2 DEF CallOK, IInv, Types
<1>2. calls' = [calls EXCEPT ![t] = calls[t]]
  BY <1>1
<1>3. Manages(t, r, calls[t])
  BY <1>1, <1>2 DEF Manages, Goes
<1>4. PlaceOK(r, calls[t]) /\ ~Cleared(r, calls[t])
  BY <1>1, Plain DEF PlaceOK, Cleared, WithEntry, WithConfig, Quiet
<1> QED BY <1>3, <1>4, ManagesStep

LEMMA ProbesActive ==
  ASSUME AllInv, NEW t \in Threads, run[t].pc \notin Outside, calls[t].pc = "done",
         run' = [run EXCEPT ![t].pc = "probe"], UNCHANGED registryVars, UNCHANGED <<resolving, pending>>
  PROVE  PlacesInv' /\ ActiveInv'
<1> DEFINE r == [run[t] EXCEPT !.pc = "probe"]
<1>1. run[t] \in Run /\ run \in [Threads -> Run] /\ Confirming(run[t]) /\ resolving = t
  BY Mine DEF AllInv, IInv, Types, PlacesInv
<1>2. run' = [run EXCEPT ![t] = r]
  BY <1>1
<1>3. r.pc = "probe" /\ r.task = run[t].task /\ r.token = run[t].token /\ r.url = run[t].url
  BY <1>1 DEF Run
<1> HIDE DEF r
<1>4. ConfirmingNext(r)
  BY <1>1, <1>3 DEF Confirming, ConfirmingNext, Given
<1>5. "probe" \in Quiet /\ KeepsUrls /\ UNCHANGED <<calls, files, manifest, work>>
  BY SameUrls DEF Quiet, registryVars
<1> QED BY <1>1, <1>2, <1>3, <1>4, <1>5, QuietActive

LEMMA RetriesActive ==
  ASSUME AllInv, NEW t \in Threads, Retries(t), UNCHANGED pending, run[t].pc \notin Outside
  PROVE  PlacesInv' /\ ActiveInv'
<1>1. CASE run[t].attempt < MAX_ATTEMPTS
  <2> DEFINE attempt == run[t].attempt + 1
             r == [run[t] EXCEPT !.pc = "looked_up", !.attempt = attempt, !.entry = NoResult]
  <2>1. run[t] \in Run /\ run \in [Threads -> Run] /\ resolving = t
    BY Mine DEF AllInv, IInv, Types, PlacesInv
  <2>2. /\ Lookup(t) /\ resolving' = resolving
        /\ run' = [run EXCEPT ![t].pc = "looked_up", ![t].attempt = attempt, ![t].entry = NoResult]
    BY <1>1 DEF Retries
  <2> HIDE DEF attempt
  <2>3. run' = [run EXCEPT ![t] = r]
    BY <2>1, <2>2
  <2>4. r.pc = "looked_up" /\ r.task = run[t].task /\ r.token = run[t].token /\ r.url = run[t].url
    BY <2>1 DEF Run
  <2> HIDE DEF r
  <2> QED BY <2>1, <2>2, <2>3, <2>4, LookupActive
<1>2. CASE ~(run[t].attempt < MAX_ATTEMPTS)
  BY <1>2, SameUrls, ReturnsActive DEF Retries
<1> QED BY <1>1, <1>2

LEMMA ConflictsActive ==
  ASSUME AllInv, NEW t \in Threads, Conflicts(t), UNCHANGED pending, run[t].pc \notin Outside
  PROVE  PlacesInv' /\ ActiveInv'
<1>1. CASE run[t].task = "confirm"
  <2> DEFINE url == run[t].url
             token == run[t].token
             r == [NoRun EXCEPT !.pc = "guard", !.task = "fallback", !.url = url, !.token = token]
  <2>1. /\ run' = [run EXCEPT ![t] = r] /\ calls' = [calls EXCEPT ![t] = NoCall]
        /\ resolving' = NONE /\ UNCHANGED <<files, manifest, work>> /\ resolving = t
    BY <1>1 DEF Conflicts, AllInv, PlacesInv
  <2> HIDE DEF url, token
  <2>2. r.pc = "guard" /\ r.task = "fallback"
    BY DEF NoRun
  <2> HIDE DEF r
  <2>3. Manages(t, r, NoCall)
    BY <2>1, <2>2, Plain, SameUrls DEF Manages, Goes, Outside
  <2>4. PlaceOK(r, NoCall) /\ ~Cleared(r, NoCall)
    BY <2>2, Plain DEF PlaceOK, Cleared, WithEntry, WithConfig
  <2>5. ConfirmingNext(r)
    BY <2>2 DEF ConfirmingNext
  <2> QED BY <2>3, <2>4, <2>5, ManagesStep
<1>2. CASE run[t].task # "confirm"
  BY <1>2, RetriesActive DEF Conflicts
<1> QED BY <1>1, <1>2

-----------------------------------------------------------------------------
(* The manager's actions a third time. *)

Fine == PlacesInv' /\ ActiveInv'

\* A thread that stays where it is.
LEMMA StillConfirming ==
  ASSUME AllInv, NEW t \in Threads, KeepsUrls
  PROVE  ConfirmingNext(run[t])
<1>1. Confirming(run[t]) /\ (run[t].task = "confirm" => run[t].token \in Tokens)
  BY DEF AllInv, PlacesInv, TokensInv, ConfirmInv
<1> QED BY <1>1 DEF Confirming, ConfirmingNext, KeepsUrls, Given

LEMMA resolveActive ==
  ASSUME AllInv, NEW t \in Threads, NEW url \in Urls, resolve(t, url)
  PROVE  Fine
<1> DEFINE r == [NoRun EXCEPT !.pc = "guard", !.task = "resolve", !.url = url]
<1>1. /\ run' = [run EXCEPT ![t] = r] /\ UNCHANGED <<calls, files, manifest, work, resolving, pending>>
      /\ run[t].pc \in Quiet
  BY DEF resolve, Doing, Quiet, registryVars
<1>2. r.pc = "guard" /\ r.task = "resolve"
  BY DEF NoRun
<1> HIDE DEF r
<1>3. ConfirmingNext(r) /\ r.pc \in Quiet /\ r.pc \in Outside
  BY <1>2 DEF ConfirmingNext, Quiet, Outside
<1> QED BY <1>1, <1>3, SameUrls, QuietActive DEF Fine

LEMMA confirmActive ==
  ASSUME AllInv, NEW t \in Threads, NEW k \in Tokens, NEW o \in Overrides \cup {NONE},
         confirm(t, k, o) \/ cancel(t, k)
  PROVE  Fine
<1> DEFINE url == pending[k].url
           asks == [NoRun EXCEPT !.pc = "token", !.task = "confirm", !.token = k,
                                 !.url = url, !.overrides = o]
           gives == [NoRun EXCEPT !.pc = "cancel", !.task = "cancel", !.token = k]
<1>1. /\ run[t].pc = "idle" /\ run[t].pc \in Quiet /\ UNCHANGED <<calls, files, manifest, work, resolving>>
      /\ pending[k].state = "live" /\ run \in [Threads -> Run]
  BY DEF confirm, cancel, Doing, Quiet, registryVars, AllInv, IInv, Types
<1>2. \/ run' = [run EXCEPT ![t] = asks] /\ UNCHANGED pending
      \/ run' = [run EXCEPT ![t] = gives] /\ UNCHANGED pending
      \/ run' = [run EXCEPT ![t] = run[t]] /\ pending' = Forget({k})
  BY <1>1 DEF confirm, cancel
<1>3. /\ asks.pc = "token" /\ asks.task = "confirm" /\ asks.token = k /\ asks.url = url
      /\ gives.pc = "cancel" /\ gives.task = "cancel"
  BY DEF NoRun
<1> HIDE DEF asks, gives
<1>4. KeepsUrls
  BY <1>2, SameUrls, ForgetUrls
<1>5. CASE run' = [run EXCEPT ![t] = asks] /\ UNCHANGED pending
  <2>1. ConfirmingNext(asks) /\ asks.pc \in Quiet /\ asks.pc \in Outside
    BY <1>1, <1>3, <1>5 DEF ConfirmingNext, Quiet, Outside
  <2> QED BY <1>1, <1>4, <1>5, <2>1, QuietActive DEF Fine
<1>6. CASE run' = [run EXCEPT ![t] = gives]
  <2>1. ConfirmingNext(gives) /\ gives.pc \in Quiet /\ gives.pc \in Outside
    BY <1>3 DEF ConfirmingNext, Quiet, Outside
  <2> QED BY <1>1, <1>4, <1>6, <2>1, QuietActive DEF Fine
<1>7. CASE run' = [run EXCEPT ![t] = run[t]]
  <2>1. ConfirmingNext(run[t]) /\ run[t].pc \in Outside
    BY <1>1, <1>4, StillConfirming DEF Outside
  <2> QED BY <1>1, <1>4, <1>7, <2>1, QuietActive DEF Fine
<1> QED BY <1>2, <1>5, <1>6, <1>7

LEMMA guardActive ==
  ASSUME AllInv, NEW t \in Threads, _resolution_guard(t)
  PROVE  Fine
<1>1. /\ run[t].pc = "guard" /\ run[t].pc \in Quiet /\ resolving = NONE /\ resolving' = t
      /\ UNCHANGED pending /\ run[t] \in Run /\ run \in [Threads -> Run]
  BY Mine DEF _resolution_guard, Doing, Quiet, Stays, AllInv, IInv, Types
<1>2. CASE run[t].task = "confirm"
  <2> DEFINE r == [run[t] EXCEPT !.pc = "confirm"]
  <2>1. run' = [run EXCEPT ![t].pc = "confirm"] /\ UNCHANGED <<calls, files, manifest, work>>
    BY <1>2 DEF _resolution_guard, registryVars
  <2>2. run' = [run EXCEPT ![t] = r]
    BY <1>1, <2>1
  <2>3. r.pc = "confirm" /\ r.task = run[t].task /\ r.token = run[t].token /\ r.url = run[t].url
    BY <1>1 DEF Run
  <2> HIDE DEF r
  <2>4. KeepsUrls /\ ConfirmingNext(run[t])
    BY <1>1, SameUrls, StillConfirming
  <2>5. ConfirmingNext(r) /\ r.pc \in Quiet
    BY <2>3, <2>4 DEF ConfirmingNext, Quiet
  <2> QED BY <1>1, <2>1, <2>2, <2>4, <2>5, QuietActive DEF Fine
<1>3. CASE run[t].task # "confirm"
  <2> DEFINE r == [run[t] EXCEPT !.pc = "looked_up", !.attempt = 1]
  <2>1. Lookup(t) /\ run' = [run EXCEPT ![t].pc = "looked_up", ![t].attempt = 1]
    BY <1>3 DEF _resolution_guard
  <2>2. run' = [run EXCEPT ![t] = r]
    BY <1>1, <2>1
  <2>3. r.pc = "looked_up" /\ r.task = run[t].task /\ r.token = run[t].token /\ r.url = run[t].url
    BY <1>1 DEF Run
  <2> HIDE DEF r
  <2> QED BY <1>1, <2>1, <2>2, <2>3, LookupActive DEF Fine
<1> QED BY <1>2, <1>3

LEMMA resolveLockedActive ==
  ASSUME AllInv, NEW t \in Threads, _resolve_locked(t)
  PROVE  Fine
<1>1. /\ calls[t].pc = "done" /\ run[t].pc = "looked_up" /\ run[t].pc \notin Outside /\ UNCHANGED pending
      /\ KeepsUrls
  BY SameUrls DEF _resolve_locked, Answered, At, Doing, Stays, Outside
<1>2. CASE Answer(t).kind = "missing"
  BY <1>1, <1>2, ProbesActive DEF _resolve_locked, Fine
<1>3. CASE Answer(t).kind = "entry"
  <2> DEFINE a == Answer(t)
             request == Query("load", a.config, a.version, NONE)
             r == [run[t] EXCEPT !.pc = "loaded", !.entry = a]
             call == Asked(request)
  <2>1. run[t] \in Run /\ run \in [Threads -> Run] /\ resolving = t /\ a.status = "active"
    BY <1>1, <1>3, Mine DEF AllInv, IInv, Types, PlacesInv, PlaceOK, Answer
  <2>2. /\ calls' = [calls EXCEPT ![t] = call] /\ UNCHANGED <<resolving, files, manifest, work>>
        /\ run' = [run EXCEPT ![t].pc = "loaded", ![t].entry = a]
    BY <1>3 DEF _resolve_locked
  <2> HIDE DEF a
  <2>3. run' = [run EXCEPT ![t] = r]
    BY <2>1, <2>2
  <2>4. /\ r.pc = "loaded" /\ r.entry = a /\ r.task = run[t].task /\ r.token = run[t].token
        /\ r.url = run[t].url
    BY <2>1 DEF Run
  <2> HIDE DEF r
  <2>5. call.request.op = "load" /\ call.pc = "lock" /\ call.result = NoResult
    BY DEF Asked, Query
  <2> HIDE DEF call
  <2>6. Manages(t, r, call)
    BY <1>1, <2>1, <2>2, <2>3, <2>5 DEF Manages, Goes
  <2>7. PlaceOK(r, call) /\ ~Cleared(r, call)
    BY <2>1, <2>4, <2>5, Plain DEF PlaceOK, Cleared, WithConfig
  <2>8. ConfirmingNext(r)
    BY <1>1, <2>4, StillConfirming DEF ConfirmingNext
  <2> QED BY <2>6, <2>7, <2>8, ManagesStep DEF Fine
<1>4. CASE Answer(t).kind \notin {"missing", "entry"}
  BY <1>1, <1>4, ReturnsActive DEF _resolve_locked, Fine
<1> QED BY <1>2, <1>3, <1>4

LEMMA revalidateActive ==
  ASSUME AllInv, NEW t \in Threads, revalidate(t)
  PROVE  Fine
<1>1. run[t].pc \in WithEntry
  BY DEF revalidate, Answered, Doing, WithEntry
<1>2. CASE AskOfEntry(t, "mark_invalid", "invalidated") /\ Inside
  BY <1>1, <1>2, AskOfEntryActive DEF Fine
<1>3. CASE Returns(t) /\ Stays
  BY <1>3, SameUrls, ReturnsActive DEF Stays, Fine
<1>4. CASE \E verdict \in Verdicts :
             verdict # "none" /\ AskOfEntry(t, verdict, AfterVerdict[verdict]) /\ Inside
  <2>1. PICK verdict \in Verdicts :
          verdict # "none" /\ AskOfEntry(t, verdict, AfterVerdict[verdict]) /\ Inside
    BY <1>4
  <2>2. /\ verdict \in {"mark_stale", "mark_invalid", "mark_validated"}
        /\ AfterVerdict[verdict] \in {"validated", "staled", "invalidated"}
    BY <2>1 DEF Verdicts, AfterVerdict
  <2> QED BY <1>1, <2>1, <2>2, AskOfEntryActive DEF Fine
<1> QED BY <1>2, <1>3, <1>4 DEF revalidate

LEMMA verdictActive ==
  ASSUME AllInv, NEW t \in Threads,
         _mark_valid(t) \/ _stale(t) \/ _invalid(t) \/ concurrent_revision(t) \/ reuse(t)
  PROVE  Fine
<1>1. /\ run[t].pc \in WithEntry \cup {"exact"} /\ calls[t].pc = "done" /\ run[t].pc \notin Outside
      /\ _mark_valid(t) \/ _stale(t) \/ _invalid(t) => run[t].pc \in WithEntry
  BY DEF _mark_valid, _stale, _invalid, concurrent_revision, reuse, Answered, Doing, At, WithEntry, Outside
<1>2. CASE /\ Answer(t).kind = "entry" /\ Inside
           /\ Ask(t, Query("load_exact", Answer(t).config, Answer(t).version, "active"), "exact")
  BY <1>1, <1>2, QueryActive DEF Inside, Stays, Fine
<1>3. ASSUME NEW pc \in {"reloaded", "reloaded_any"}, Reloads(t, pc), Inside, run[t].pc \in WithEntry
      PROVE  Fine
  BY <1>1, <1>3, QueryActive DEF Reloads, Inside, Stays, Fine
<1>4. CASE AskOfEntry(t, "mark_invalid", "invalidated") /\ Inside /\ run[t].pc \in WithEntry
  BY <1>4, AskOfEntryActive DEF Fine
<1>5. CASE Returns(t) /\ Stays
  BY <1>5, SameUrls, ReturnsActive DEF Stays, Fine
<1>6. CASE run' = [run EXCEPT ![t].pc = "probe"] /\ UNCHANGED registryVars /\ Inside
  BY <1>1, <1>6, ProbesActive DEF Inside, Stays, Fine
<1>7. CASE Retries(t) /\ Stays
  BY <1>1, <1>7, RetriesActive DEF Stays, Fine
<1>8. CASE _mark_valid(t)
  BY <1>1, <1>2, <1>3, <1>4, <1>5, <1>8 DEF _mark_valid
<1>9. CASE _stale(t)
  BY <1>1, <1>3, <1>4, <1>5, <1>6, <1>9 DEF _stale
<1>10. CASE _invalid(t)
  BY <1>1, <1>3, <1>5, <1>6, <1>10 DEF _invalid
<1>11. CASE concurrent_revision(t) \/ reuse(t)
  BY <1>5, <1>7, <1>11 DEF concurrent_revision, reuse
<1> QED BY <1>8, <1>9, <1>10, <1>11

\* A configuration is made for the URL of the thread that probes.
LEMMA fromProbeActive ==
  ASSUME AllInv, NEW t \in Threads, _from_probe(t)
  PROVE  Fine
<1>1. run[t].pc = "probe" /\ run[t].pc \notin Outside
  BY DEF _from_probe, Doing, Outside
<1>2. CASE Returns(t) /\ Stays
  BY <1>2, SameUrls, ReturnsActive DEF Stays, Fine
<1>3. ASSUME NEW c \in _materialize(run[t].url), NEW k \in Tokens, NEW purged \in SUBSET Tokens,
             pending[k].state = "unused", Returns(t),
             pending' = [Forget(purged) EXCEPT ![k] =
                    [state |-> "live", url |-> run[t].url, config |-> c, overrides |-> NONE]]
      PROVE  Fine
  <2> DEFINE url == run[t].url
             p == [state |-> "live", url |-> url, config |-> c, overrides |-> NONE]
             before == Forget(purged)
  <2>1. url \in Covers[c]
    BY DEF _materialize
  <2>2. pending' = [before EXCEPT ![k] = p] /\ p.url = url /\ p.config = c
    BY <1>3
  <2>3. before \in [Tokens -> Pending] /\ pending \in [Tokens -> Pending]
    BY ForgetFacts DEF AllInv, TokensInv, PendInv
  <2>4. \A l \in Tokens : /\ before[l].config = pending[l].config /\ before[l].url = pending[l].url
                          /\ before[l].state = "unused" <=> pending[l].state = "unused"
    <3>1. \A l \in Tokens : before[l] = IF l \in purged /\ pending[l].state = "live"
                                         THEN [pending[l] EXCEPT !.state = "gone"] ELSE pending[l]
      BY DEF Forget
    <3>2. \A l \in Tokens : /\ [pending[l] EXCEPT !.state = "gone"].config = pending[l].config
                            /\ [pending[l] EXCEPT !.state = "gone"].url = pending[l].url
                            /\ [pending[l] EXCEPT !.state = "gone"].state = "gone"
      BY <2>3 DEF Pending
    <3> HIDE DEF before
    <3> QED BY <3>1, <3>2
  <2> HIDE DEF before, p, url
  <2>5. pending'[k] = p /\ \A l \in Tokens \ {k} : pending'[l] = before[l]
    BY <2>2, <2>3
  <2>6. PendingFit
    BY DEF AllInv, PlacesInv
  <2>7. KeepsUrls
    BY <1>3, <2>1, <2>2, <2>4, <2>5, <2>6 DEF KeepsUrls, Given, PendingFit
  <2> QED BY <1>3, <2>7, ReturnsActive DEF Fine
<1>4. ASSUME NEW c \in _materialize(run[t].url), Lookup(t),
             run' = [run EXCEPT ![t].pc = "checked", ![t].config = c],
             UNCHANGED <<pending, resolving>>
      PROVE  Fine
  <2>1. run[t].url \in Covers[c]
    BY DEF _materialize
  <2> QED BY <1>1, <1>4, <2>1, SameUrls, ChecksActive DEF Fine
<1> QED BY <1>2, <1>3, <1>4 DEF _from_probe

LEMMA registersActive ==
  ASSUME AllInv, NEW t \in Threads, check_existing(t) \/ _register(t)
  PROVE  Fine
<1>1. run[t].pc \in WithConfig /\ run[t].pc \notin Outside
  BY DEF check_existing, _register, Answered, Doing, WithConfig, Outside
<1>2. CASE /\ Answered(t, "checked")
           /\ \/ Answer(t).kind = "missing"
              \/ Answer(t).kind = "entry" /\ Answer(t).config = run[t].config
           /\ Ask(t, Query("register", run[t].config, 0, NONE), "registered") /\ Inside
  <2> DEFINE request == Query("register", run[t].config, 0, NONE)
  <2>1. Cleared(run[t], calls[t])
    BY <1>2 DEF Cleared, Answered, Doing, At, Answer
  <2>2. Ask(t, request, "registered") /\ request.op = "register"
    BY <1>2 DEF Query
  <2> HIDE DEF request
  <2>3. "registered" \in Waiting /\ "registered" \notin WithEntry
    BY DEF Waiting, WithEntry, WithConfig
  <2> QED BY <1>1, <1>2, <2>1, <2>2, <2>3, AskActive DEF Inside, Stays, Fine
<1>3. CASE Conflicts(t) /\ Stays
  BY <1>1, <1>3, ConflictsActive DEF Stays, Fine
<1>4. CASE Returns(t) /\ Stays
  BY <1>4, SameUrls, ReturnsActive DEF Stays, Fine
<1>5. CASE /\ Answer(t).kind = "entry" /\ Inside
           /\ Ask(t, Query("load_exact", Answer(t).config, Answer(t).version, "active"), "final")
  BY <1>1, <1>5, QueryActive DEF Inside, Stays, Fine
<1> QED BY <1>2, <1>3, <1>4, <1>5 DEF check_existing, _register

LEMMA registeredActive ==
  ASSUME AllInv, NEW t \in Threads, registered(t) \/ administered(t)
  PROVE  Fine
<1>1. CASE administered(t)
  BY <1>1, SameUrls, ReturnsActive DEF administered, Stays, Fine
<1>2. CASE registered(t)
  <2> DEFINE k == run[t].token
  <2>1. run[t].pc = "final" /\ run[t].pc \notin Outside /\ ConfirmInv(t)
    BY <1>2 DEF registered, Answered, Doing, AllInv, TokensInv, Outside
  <2>2. CASE Conflicts(t) /\ UNCHANGED pending
    BY <2>1, <2>2, ConflictsActive DEF Fine
  <2>3. CASE Returns(t) /\ UNCHANGED pending
    BY <2>3, SameUrls, ReturnsActive DEF Fine
  <2>4. CASE /\ Returns(t) /\ run[t].task = "confirm" /\ pending[k].state = "live"
             /\ pending' = [pending EXCEPT ![k].state = "gone"]
    <3>1. k \in Tokens
      BY <2>1, <2>4 DEF ConfirmInv
    <3>2. pending' = [pending EXCEPT ![k].state = IF @ = "live" THEN "gone" ELSE @]
      BY <2>4, <3>1 DEF AllInv, TokensInv, PendInv
    <3>3. KeepsUrls
      BY <3>1, <3>2, OneUrl
    <3> QED BY <2>4, <3>3, ReturnsActive DEF Fine
  <2> QED BY <1>2, <2>2, <2>3, <2>4 DEF registered
<1> QED BY <1>1, <1>2

LEMMA tokenLockActive ==
  ASSUME AllInv, NEW t \in Threads, token_lock(t)
  PROVE  Fine
<1> DEFINE r == [run[t] EXCEPT !.pc = "guard"]
<1>1. /\ run[t].pc = "token" /\ run[t].pc \in Quiet
      /\ UNCHANGED <<calls, files, manifest, work, resolving, pending>>
      /\ run' = [run EXCEPT ![t].pc = "guard"]
  BY DEF token_lock, Doing, Quiet, registryVars, Stays
<1>2. run[t] \in Run /\ run \in [Threads -> Run]
  BY Mine DEF AllInv, IInv, Types
<1>3. run' = [run EXCEPT ![t] = r]
  BY <1>1, <1>2
<1>4. r.pc = "guard" /\ r.task = run[t].task /\ r.token = run[t].token /\ r.url = run[t].url
  BY <1>2 DEF Run
<1> HIDE DEF r
<1>5. KeepsUrls /\ ConfirmingNext(run[t])
  BY <1>1, SameUrls, StillConfirming
<1>6. ConfirmingNext(r) /\ r.pc \in Quiet /\ r.pc \in Outside
  BY <1>4, <1>5 DEF ConfirmingNext, Quiet, Outside
<1> QED BY <1>1, <1>3, <1>5, <1>6, QuietActive DEF Fine

LEMMA confirmLockedActive ==
  ASSUME AllInv, NEW t \in Threads, confirm_locked(t)
  PROVE  Fine
<1> DEFINE token == run[t].token
           waits == pending[token].config
<1>1. run[t].pc = "confirm" /\ run[t].pc \in Quiet /\ run[t].pc \notin Outside
  BY DEF confirm_locked, Doing, Quiet, Outside
<1>2. /\ run[t] \in Run /\ run \in [Threads -> Run] /\ ConfirmInv(t) /\ Confirming(run[t]) /\ PendingFit
      /\ resolving = t
  BY <1>1, Mine DEF AllInv, IInv, Types, TokensInv, PlacesInv
<1>3. token \in Tokens /\ run[t].task = "confirm" /\ Given(token) /\ run[t].url \in Covers[waits]
  BY <1>1, <1>2 DEF ConfirmInv, Confirming, PendingFit
<1>4. CASE Returns(t) /\ pending' = Forget({token})
  BY <1>4, ForgetUrls, ReturnsActive DEF Fine
<1>5. CASE Returns(t) /\ UNCHANGED pending
  BY <1>5, SameUrls, ReturnsActive DEF Fine
<1>6. CASE /\ run' = [run EXCEPT ![t].pc = "reprobe", ![t].config = waits]
           /\ UNCHANGED <<registryVars, resolving, pending>>
  <2> DEFINE r == [run[t] EXCEPT !.pc = "reprobe", !.config = waits]
  <2>1. run' = [run EXCEPT ![t] = r] /\ UNCHANGED <<calls, files, manifest, work>>
    BY <1>2, <1>6 DEF registryVars
  <2>2. r.pc = "reprobe" /\ r.task = run[t].task /\ r.token = token /\ r.url = run[t].url
    BY <1>2 DEF Run
  <2> HIDE DEF r
  <2>3. KeepsUrls /\ ConfirmingNext(run[t])
    BY <1>6, SameUrls, StillConfirming
  <2>4. ConfirmingNext(r) /\ r.pc \in Quiet
    BY <2>2, <2>3 DEF ConfirmingNext, Quiet
  <2> QED BY <1>1, <1>2, <1>6, <2>1, <2>3, <2>4, QuietActive DEF Fine
<1>7. ASSUME NEW d, d = waits, Lookup(t), run' = [run EXCEPT ![t].pc = "checked", ![t].config = d],
             UNCHANGED <<resolving, pending>>
      PROVE  Fine
  <2>1. run[t].url \in Covers[d]
    BY <1>3, <1>7
  <2> QED BY <1>1, <1>7, <2>1, SameUrls, ChecksActive DEF Fine
<1> QED BY <1>4, <1>5, <1>6, <1>7 DEF confirm_locked

LEMMA confirmOverridesActive ==
  ASSUME AllInv, NEW t \in Threads, confirm_overrides(t)
  PROVE  Fine
<1> DEFINE k == run[t].token
<1>1. run[t].pc = "reprobe" /\ run[t].pc \notin Outside
  BY DEF confirm_overrides, Doing, Outside
<1>2. /\ run[t] \in Run /\ ConfirmInv(t) /\ Confirming(run[t]) /\ PendingFit
      /\ pending \in [Tokens -> Pending]
  BY Mine DEF AllInv, TokensInv, PendInv, PlacesInv
<1>3. k \in Tokens /\ Given(k) /\ pending[k].url = run[t].url
  BY <1>1, <1>2 DEF ConfirmInv, Confirming
<1>4. CASE Returns(t) /\ UNCHANGED pending
  BY <1>4, SameUrls, ReturnsActive DEF Fine
<1>5. ASSUME NEW c \in _materialize(run[t].url),
             pending' = [pending EXCEPT ![k].config = c, ![k].overrides = run[t].overrides],
             Lookup(t), run' = [run EXCEPT ![t].pc = "checked", ![t].config = c],
             UNCHANGED resolving
      PROVE  Fine
  <2> DEFINE o == run[t].overrides
             p == [pending[k] EXCEPT !.config = c, !.overrides = o]
  <2>1. run[t].url \in Covers[c]
    BY DEF _materialize
  <2>2. pending' = [pending EXCEPT ![k] = p]
    <3>1. pending[k] \in Pending
      BY <1>2, <1>3
    <3>2. pending' = [pending EXCEPT ![k].config = c, ![k].overrides = o]
      BY <1>5
    <3> HIDE DEF o
    <3> QED BY <1>2, <1>3, <3>1, <3>2
  <2> HIDE DEF o
  <2>3. p.config = c /\ p.url = pending[k].url /\ p.state = pending[k].state
    <3>1. pending[k] \in Pending
      BY <1>2, <1>3
    <3> QED BY <3>1 DEF Pending
  <2> HIDE DEF p
  <2>4. pending'[k] = p /\ \A l \in Tokens \ {k} : pending'[l] = pending[l]
    BY <1>2, <1>3, <2>2
  <2>5. KeepsUrls
    BY <1>2, <1>3, <2>1, <2>3, <2>4 DEF KeepsUrls, Given, PendingFit
  <2> QED BY <1>1, <1>5, <2>1, <2>5, ChecksActive DEF Fine
<1> QED BY <1>4, <1>5 DEF confirm_overrides

LEMMA popActive ==
  ASSUME AllInv, NEW t \in Threads, pop(t) \/ cancel_locked(t)
  PROVE  Fine
<1> DEFINE k == run[t].token
<1>1. /\ run[t].pc \in {"pop", "cancel"} /\ run[t].pc \in Quiet /\ run' = [run EXCEPT ![t] = NoRun]
      /\ UNCHANGED <<calls, files, manifest, work, resolving>> /\ ConfirmInv(t)
  BY DEF pop, cancel_locked, Doing, Quiet, registryVars, AllInv, TokensInv
<1>2. k \in Tokens
  BY <1>1 DEF ConfirmInv
<1>3. \/ UNCHANGED pending
      \/ pending' = [pending EXCEPT ![k].state = IF @ = "live" THEN "gone" ELSE @]
      \/ pending' = [pending EXCEPT ![k].state = IF @ = "live" THEN "cancelled" ELSE @]
  BY DEF pop, cancel_locked
<1>4. KeepsUrls
  BY <1>2, <1>3, SameUrls, OneUrl
<1>5. NoRun.pc = "idle" /\ NoRun.task = NONE
  BY DEF NoRun
<1>6. ConfirmingNext(NoRun) /\ NoRun.pc \in Quiet /\ NoRun.pc \in Outside
  BY <1>5 DEF ConfirmingNext, Quiet, Outside, NONE
<1> QED BY <1>1, <1>4, <1>6, QuietActive DEF Fine

LEMMA administerActive ==
  ASSUME AllInv, NEW t \in Threads, NEW op \in {"mark_revoked", "unrevoke"}, NEW c, administer(t, op, c)
  PROVE  Fine
<1>1. Ask(t, Query(op, c, 0, NONE), "administered") /\ UNCHANGED <<resolving, pending>>
  BY DEF administer
<1> QED BY <1>1, QueryActive DEF Fine

LEMMA restartActive ==
  ASSUME AllInv, restart
  PROVE  Fine
<1>1. /\ calls' = [u \in Threads |-> NoCall] /\ run' = [u \in Threads |-> NoRun]
      /\ pending' = Forget(Tokens) /\ UNCHANGED <<files, manifest>>
  BY DEF restart
<1>2. PendingFit'
  BY <1>1, ForgetUrls DEF KeepsUrls, PendingFit, Given
<1>3. NoRun.task = NONE
  BY DEF NoRun
<1>4. PlaceOK(NoRun, NoCall) /\ ~Cleared(NoRun, NoCall)
  BY Plain DEF PlaceOK, Cleared, WithEntry, WithConfig
<1>5. \A u \in Threads : run'[u] = NoRun /\ calls'[u] = NoCall
  BY <1>1
<1>6. PlacesInv'
  <2> SUFFICES ASSUME NEW u \in Threads
               PROVE  /\ run'[u].pc \notin Outside => resolving' = u
                      /\ PlaceOK(run'[u], calls'[u]) /\ ConfirmingNext(run'[u])
    BY <1>2 DEF PlacesInv, PlaceOK, Confirming, ConfirmingNext, Given
  <2> QED BY <1>3, <1>4, <1>5, Plain DEF Outside, ConfirmingNext, NONE
<1>7. \A c \in Configs : Quenches(c)
  BY <1>1, SameQuenches
<1>8. SameCovers => OneActive'
  BY <1>7 DEF Quenches, AllInv, ActiveInv, OneActive
<1>9. \A u \in Threads : calls'[u].pc # "op" /\ ~Cleared(run'[u], calls'[u])
  BY <1>4, <1>5, Plain
<1>10. ActiveInv'
  BY <1>8, <1>9 DEF ActiveInv, Cleared, SameCovers
<1> QED BY <1>6, <1>10 DEF Fine

-----------------------------------------------------------------------------
(* The registry's steps: what becomes of the caller. *)

\* The operation ends; a look-up is told of an active configuration, of none, or of a failure.
Told(t) ==
  /\ calls'[t].pc = "done" /\ calls'[t].request = NoRequest
  /\ calls[t].request.op = "lookup" =>
       \/ calls'[t].result.kind \in {"error", "io"}
       \/ lookup(t) /\ (calls'[t].result.kind = "entry" => calls'[t].result.status = "active")

\* The operation goes on.
GoesOn(t) ==
  /\ calls'[t].request = calls[t].request /\ calls'[t].result = calls[t].result
  /\ calls'[t].pc \in InLock
  /\ calls'[t].pc = "op" => _recover(t)
  /\ calls'[t].pc = "record" => calls[t].request.op # "lookup"

LEMMA Ending ==
  ASSUME AllInv, NEW t \in Threads, NEW result, Ends(t, result)
  PROVE  /\ \A u \in Threads \ {t} : calls'[u] = calls[u]
         /\ calls'[t].pc = "done" /\ calls'[t].request = NoRequest /\ calls'[t].result = result
<1>1. calls \in [Threads -> Call]
  BY DEF AllInv, IInv, Types
<1> QED BY <1>1 DEF Ends

LEMMA GoingTo ==
  ASSUME AllInv, NEW t \in Threads, NEW pc, Goto(t, pc)
  PROVE  /\ \A u \in Threads \ {t} : calls'[u] = calls[u]
         /\ calls'[t].pc = pc /\ calls'[t].request = calls[t].request /\ calls'[t].result = calls[t].result
<1>1. calls \in [Threads -> Call]
  BY DEF AllInv, IInv, Types
<1> QED BY <1>1 DEF Goto, Call

LEMMA Raising ==
  ASSUME AllInv, NEW t \in Threads, NEW kind, Raises(t, kind)
  PROVE  /\ \A u \in Threads \ {t} : calls'[u] = calls[u]
         /\ calls'[t].pc = "done" /\ calls'[t].request = NoRequest /\ calls'[t].result.kind = kind
<1> DEFINE result == [NoResult EXCEPT !.kind = kind]
<1>1. result.kind = kind /\ Ends(t, result)
  BY DEF NoResult, Raises
<1> HIDE DEF result
<1> QED BY <1>1, Ending

LEMMA MyCall ==
  ASSUME AllInv, NEW t \in Threads, RegistryStep(t) \/ RegistryFault(t)
  PROVE  /\ calls[t].pc # "done" /\ \A u \in Threads \ {t} : calls'[u] = calls[u]
         /\ Told(t) \/ GoesOn(t) \/ (calls'[t] = calls[t] /\ calls[t].pc = "quarantine")
<1>1. calls \in [Threads -> Call] /\ (lock = t => calls[t].pc \in InLock)
  BY Mine DEF AllInv, IInv, Types
<1>2. CASE _global_lock(t)
  <2>1. Goto(t, "quarantine") /\ calls[t].pc # "done"
    BY <1>2 DEF _global_lock, At
  <2> QED BY <2>1, GoingTo DEF GoesOn, InLock
<1>3. CASE _quarantine_path(t)
  BY <1>3 DEF _quarantine_path, At
<1>4. CASE _recover(t)
  <2>1. calls[t].pc # "done" /\ (Raises(t, "error") \/ Goto(t, "op"))
    BY <1>4 DEF _recover, At
  <2> QED BY <1>4, <2>1, GoingTo, Raising DEF GoesOn, Told, InLock
<1>5. CASE _write_manifest(t)
  <2>1. calls[t].pc = "record" /\ Ends(t, EntryOf(Req(t).config)) /\ calls[t].request.op # "lookup"
    BY <1>5 DEF _write_manifest, At, AllInv, PlacesInv, PlaceOK
  <2> QED BY <2>1, Ending DEF Told
<1>6. CASE lookup(t)
  <2>1. calls[t].pc # "done" /\ calls[t].pc \in InLock
    BY <1>6 DEF lookup, At, InLock
  <2>2. CASE Raises(t, "missing")
    BY <1>6, <2>1, <2>2, Raising DEF Told
  <2>3. ASSUME NEW c \in Actives, Ends(t, EntryOf(c))
        PROVE  Told(t) /\ \A u \in Threads \ {t} : calls'[u] = calls[u]
    <3>1. EntryOf(c).status = "active"
      BY <2>3 DEF EntryOf, Entry, Actives
    <3> QED BY <1>6, <2>3, <3>1, Ending DEF Told
  <2> QED BY <1>6, <2>1, <2>2, <2>3 DEF lookup
<1>7. CASE load(t) \/ load_exact(t)
  <2>1. calls[t].pc # "done" /\ calls[t].request.op # "lookup"
    BY <1>7 DEF load, load_exact, At, Req
  <2>2. \E result : Ends(t, result)
    BY <1>7 DEF load, load_exact, Loads, Raises
  <2> QED BY <2>1, <2>2, Ending DEF Told
<1>8. CASE register(t) \/ _transition(t)
  <2>1. calls[t].pc # "done" /\ calls[t].request.op # "lookup"
    BY <1>8 DEF register, _transition, Transitions, At, Req
  <2>2. Goto(t, "record") \/ \E result : Ends(t, result)
    BY <1>8 DEF register, _transition, _write_revision, Raises
  <2> QED BY <2>1, <2>2, Ending, GoingTo DEF Told, GoesOn, InLock
<1>9. CASE lock_timeout(t)
  <2> DEFINE result == [NoResult EXCEPT !.kind = "error"]
             call == [pc |-> "done", request |-> NoRequest, result |-> result]
  <2>1. calls[t].pc # "done" /\ calls' = [calls EXCEPT ![t] = call]
    BY <1>9 DEF lock_timeout, At
  <2>2. call.pc = "done" /\ call.request = NoRequest /\ call.result.kind = "error"
    BY DEF NoResult
  <2> HIDE DEF call
  <2> QED BY <1>1, <2>1, <2>2 DEF Told
<1>10. CASE io_error(t)
  <2>1. Raises(t, "io") /\ calls[t].pc # "done"
    BY <1>1, <1>10 DEF io_error, InLock
  <2> QED BY <2>1, Raising DEF Told
<1> QED BY <1>2, <1>3, <1>4, <1>5, <1>6, <1>7, <1>8, <1>9, <1>10 DEF RegistryStep, RegistryFault

LEMMA RegistryPlaces ==
  ASSUME AllInv, NEW t \in Threads, RegistryStep(t) \/ RegistryFault(t), UNCHANGED managerVars
  PROVE  PlacesInv'
<1>1. UNCHANGED <<run, resolving, pending>> /\ PlacesInv
  BY DEF managerVars, AllInv
<1>2. PendingFit'
  BY <1>1 DEF PlacesInv, PendingFit, Given
<1>3. PlaceOK(run[t], calls'[t])
  <2>1. PlaceOK(run[t], calls[t]) /\ calls[t].pc # "done"
    BY <1>1, MyCall DEF PlacesInv
  <2>2. CASE Told(t)
    <3>1. calls'[t].request.op = "lookup"
      BY <2>2, Plain DEF Told
    <3> QED BY <2>1, <2>2, <3>1 DEF Told, PlaceOK
  <2>3. CASE GoesOn(t)
    <3>1. calls'[t].pc # "done"
      BY <2>3 DEF GoesOn, InLock
    <3> QED BY <2>1, <2>3, <3>1 DEF GoesOn, PlaceOK
  <2>4. CASE calls'[t] = calls[t]
    BY <2>1, <2>4
  <2> QED BY <2>2, <2>3, <2>4, MyCall
<1>4. \A u \in Threads : PlaceOK(run[u], calls'[u])
  BY <1>1, <1>3, MyCall DEF PlacesInv
<1> QED BY <1>1, <1>2, <1>4 DEF PlacesInv, PlaceOK, Confirming, Given

\* Nothing but a look-up clears a thread.
LEMMA ClearedBefore ==
  ASSUME AllInv, NEW t \in Threads, RegistryStep(t) \/ RegistryFault(t), ~lookup(t),
         Cleared(run[t], calls'[t])
  PROVE  Cleared(run[t], calls[t])
<1>1. PlaceOK(run[t], calls[t]) /\ calls[t].pc # "done"
  BY MyCall DEF AllInv, PlacesInv
<1>2. CASE Told(t)
  <2>1. calls'[t].request.op = "lookup"
    BY <1>2, Plain DEF Told
  <2> QED BY <1>1, <1>2, <2>1 DEF Told, PlaceOK, Cleared
<1>3. CASE GoesOn(t)
  BY <1>3 DEF GoesOn, Cleared, InLock
<1>4. CASE calls'[t] = calls[t]
  BY <1>4
<1> QED BY <1>2, <1>3, <1>4, MyCall

-----------------------------------------------------------------------------
(* The registry's steps: what becomes active. *)

LEMMA TakenStays ==
  ASSUME AllInv, MaxDamage = 0, NEW t \in Threads, RegistryStep(t) \/ RegistryFault(t),
         NEW c \in Configs, NEW v \in Versions, files[c][v] # "absent"
  PROVE  files'[c][v] # "absent"
<1>1. files \in [Configs -> [Versions -> FileState]] /\ damaged = 0 /\ Whole /\ IInv
  BY DEF AllInv, IInv, Types, FilesInv
<1>2. ASSUME NEW moved, durable_move(moved), <<c, v>> \notin moved PROVE files'[c][v] # "absent"
  BY <1>2 DEF durable_move
<1>3. ASSUME NEW d, NEW s, _write_revision(t, d, s) PROVE files'[c][v] # "absent"
  <2> DEFINE n == Len(work.history[d]) + 1
  <2>1. files[d][n] = "absent" /\ files' = [files EXCEPT ![d][n] = s]
    BY <1>3 DEF _write_revision, atomic_publish_noreplace
  <2> HIDE DEF n
  <2> QED BY <1>1, <2>1
<1>4. CASE _quarantine_path(t)
  <2>1. calls[t].pc = "quarantine" /\ calls[t].pc \in InLock
    BY <1>4 DEF _quarantine_path, At, InLock
  <2>2. ToMove = {}
    BY <1>1, <2>1, Holding DEF WorkInv, Scanned
  <2> QED BY <1>4, <2>2 DEF _quarantine_path, ToMove
<1>5. CASE lookup(t)
  <2> DEFINE read == {d \in Actives : Readable(d, Len(work.history[d]))}
             moved == {<<d, Len(work.history[d])>> : d \in Actives \ read}
  <2>1. durable_move(moved)
    BY <1>5 DEF lookup
  <2>2. <<c, v>> \notin moved
    BY <1>1 DEF Whole, Readable
  <2> HIDE DEF moved
  <2> QED BY <1>2, <2>1, <2>2
<1>6. CASE load(t) \/ load_exact(t)
  <2>1. UNCHANGED files \/ \E d, w : ~Readable(d, w) /\ durable_move({<<d, w>>})
    BY <1>6 DEF load, load_exact, Loads
  <2>2. ASSUME NEW d, NEW w, ~Readable(d, w) PROVE <<c, v>> \notin {<<d, w>>}
    BY <1>1, <2>2 DEF Whole, Readable
  <2> QED BY <1>2, <2>1, <2>2
<1>7. CASE register(t) \/ _transition(t)
  BY <1>3, <1>7 DEF register, _transition
<1>8. CASE UNCHANGED files
  BY <1>8
<1> QED BY <1>4, <1>5, <1>6, <1>7, <1>8 DEF RegistryStep, RegistryFault, _global_lock, _recover,
        _write_manifest, lock_timeout, io_error

\* The holder goes on, and nothing that was not active becomes so.
LEMMA QuietStep ==
  ASSUME AllInv, NEW t \in Threads, RegistryStep(t) \/ RegistryFault(t), UNCHANGED managerVars,
         \A c \in Configs : Quenches(c),
         lookup(t) /\ Cleared(run[t], calls'[t]) => Alone(run[t].config, run[t].url)',
         _recover(t) /\ calls'[t].pc = "op" /\ SameCovers => OneKnown'
  PROVE  ActiveInv'
<1>1. UNCHANGED run /\ \A u \in Threads \ {t} : calls'[u] = calls[u]
  BY MyCall DEF managerVars
<1>2. /\ SameCovers => OneActive'
      /\ \A c \in Configs : \A url : Alone(c, url) => Alone(c, url)'
  <2>1. \A c \in Configs : Taken(c) => Taken(c)'
    BY TakenStays, Names DEF Taken
  <2> QED BY <2>1 DEF Quenches, AllInv, ActiveInv, OneActive, Alone
<1>3. ASSUME NEW u \in Threads, calls'[u].pc = "op", SameCovers PROVE OneKnown'
  <2>1. CASE u = t
    <3>1. ~Told(t) /\ (calls[t].pc # "quarantine" \/ calls'[t] # calls[t])
      BY <1>3, <2>1 DEF Told
    <3> QED BY <1>3, <2>1, <3>1, MyCall DEF Told, GoesOn
  <2>2. CASE u # t
    <3>1. calls[u].pc = "op" /\ lock = u /\ OneKnown
      BY <1>1, <1>3, <2>2, Mine DEF AllInv, ActiveInv, InLock
    <3>2. calls[t].pc \notin InLock /\ lock # NONE /\ lock # t
      BY <2>2, <3>1, Mine, Names DEF AllInv
    <3>3. lock_timeout(t)
      BY <3>2 DEF RegistryStep, RegistryFault, _global_lock, _quarantine_path, _recover, _write_manifest,
         lookup, load, load_exact, register, _transition, io_error, At, InLock
    <3>4. work' = work
      BY <3>3 DEF lock_timeout
    <3> QED BY <3>1, <3>4 DEF OneKnown, Actives, Known
  <2> QED BY <2>1, <2>2
<1>4. ASSUME NEW u \in Threads, Cleared(run[u], calls'[u]) PROVE Alone(run[u].config, run[u].url)'
  <2>0. Cleared(run[u], calls[u]) => run[u].config \in Configs
    BY Mine DEF AllInv, TokensInv, ConfirmInv, Cleared, CallOK, WithConfig
  <2>1. CASE u # t
    <3>1. Cleared(run[u], calls[u])
      BY <1>1, <1>4, <2>1
    <3>2. Alone(run[u].config, run[u].url)
      BY <3>1 DEF AllInv, ActiveInv
    <3> QED BY <1>1, <1>2, <2>0, <3>1, <3>2 DEF Alone, Taken
  <2>2. CASE u = t /\ ~lookup(t)
    <3>1. Cleared(run[t], calls[t])
      BY <1>4, <2>2, ClearedBefore
    <3>2. Alone(run[t].config, run[t].url)
      BY <3>1 DEF AllInv, ActiveInv
    <3> QED BY <1>1, <1>2, <2>0, <2>2, <3>1, <3>2 DEF Alone, Taken
  <2>3. CASE u = t /\ lookup(t)
    BY <1>4, <2>3
  <2> QED BY <2>1, <2>2, <2>3
<1> QED BY <1>1, <1>2, <1>3, <1>4 DEF ActiveInv, Cleared, Alone, Taken, SameCovers

\* Steps that leave the files and what is readable of the manifest.
LEMMA UnseenActive ==
  ASSUME AllInv, NEW t \in Threads, RegistryStep(t) \/ RegistryFault(t), UNCHANGED managerVars,
         UNCHANGED files, ~_recover(t), ~lookup(t),
         manifest' = manifest \/ (manifest.state # "ok" /\ manifest'.state # "ok")
  PROVE  ActiveInv'
<1>1. \A c \in Configs : Quenches(c)
  BY SameQuenches
<1> QED BY <1>1, QuietStep

LEMMA recoverActive ==
  ASSUME AllInv, NEW t \in Threads, _recover(t), UNCHANGED managerVars
  PROVE  ActiveInv'
<1>1. IInv /\ RegistryStep(t)
  BY DEF AllInv, RegistryStep
<1>2. \A c \in Configs : Quenches(c)
  BY <1>1, recoverQuenches
<1>3. SameCovers => OneActive'
  BY <1>2 DEF Quenches, AllInv, ActiveInv, OneActive
<1>4. ASSUME calls'[t].pc = "op", SameCovers PROVE OneKnown'
  <2>1. manifest' = Manifest(work.history) /\ UNCHANGED <<files, work>>
    <3>1. ~Raises(t, "error")
      BY <1>4, Raising
    <3> QED BY <3>1 DEF _recover, atomic_write
  <2>2. calls[t].pc = "quarantine" /\ calls[t].pc \in InLock /\ WorkInv(t)
    BY <1>1, Holding DEF _recover, At, InLock
  <2>3. Scanned
    BY <2>2 DEF WorkInv
  <2>4. ASSUME NEW c \in Actives PROVE MayBeActive(c)'
    <3>1. c \in Configs /\ Known(c) /\ Last(work.history[c]) = "active"
      BY <2>4 DEF Actives
    <3>2. Revisions(c) \in 0 .. MaxFiles /\ Revisions(c) # 0 /\ Len(work.history[c]) = Revisions(c)
      BY <1>1, <2>2, <3>1, HistoryFacts
    <3>3. PICK n \in Versions : n = Revisions(c)
      BY <3>2, Names DEF Versions
    <3>4. \A v \in 1 .. n : v \in Versions /\ v <= n /\ work.history[c][v] \in ConfigStatus
      BY <1>1, <2>2, <3>1, <3>3, HistoryFacts
    <3>5. \A v \in 1 .. n : files[c][v] = work.history[c][v]
      BY <2>3, <3>1, <3>3, <3>4 DEF Scanned
    <3>6. AliveTo(c, n)'
      BY <2>1, <3>4, <3>5 DEF AliveTo, Alive
    <3>7. files'[c][n] = "active"
      <4>1. n \in 1 .. n
        BY <3>3, Names DEF Versions
      <4> QED BY <2>1, <3>1, <3>2, <3>3, <3>5, <4>1 DEF Last
    <3>8. manifest'.state = "ok" /\ High(c)' = n
      BY <2>1, <3>1, <3>3 DEF Manifest, High, Revisions
    <3> QED BY <3>6, <3>7, <3>8 DEF MayBeActive
  <2>5. Actives' = Actives /\ Actives \subseteq Configs
    BY <2>1 DEF Actives, Known
  <2> QED BY <1>3, <1>4, <2>4, <2>5 DEF OneActive, OneKnown
<1>5. ~lookup(t)
  BY DEF _recover, lookup, At
<1> QED BY <1>1, <1>2, <1>4, <1>5, QuietStep

\* Whoever looks up and finds nothing, or its own, knows that nothing else is active for its
\* URL, or that its own has been registered and stays.
LEMMA lookupActive ==
  ASSUME MaxDamage = 0 \/ (MaxDamage <= 1 /\ SameCovers), AllInv,
         NEW t \in Threads, lookup(t), UNCHANGED managerVars
  PROVE  ActiveInv'
<1> DEFINE unread == {c \in Actives : ~Readable(c, Len(work.history[c]))}
           moved == {<<c, Len(work.history[c])>> : c \in unread}
           read == {c \in Actives : Readable(c, Len(work.history[c]))}
<1>1. IInv /\ RegistryStep(t) /\ At(t, "op") /\ UNCHANGED <<manifest, run>>
  BY DEF AllInv, RegistryStep, lookup, managerVars
<1>2. durable_move(moved)
  <2>1. Actives \ {c \in Actives : Readable(c, Len(work.history[c]))} = unread
    OBVIOUS
  <2> QED BY <2>1 DEF lookup
<1>3. \A c \in Configs, v \in Versions : <<c, v>> \in moved => files[c][v] = "damaged"
  BY DEF Readable
<1> HIDE DEF moved
<1>4. \A c \in Configs : Quenches(c)
  BY <1>1, <1>2, <1>3, MovesQuench
<1>5. ASSUME Cleared(run[t], calls'[t]) PROVE Alone(run[t].config, run[t].url)'
  <2> DEFINE c == run[t].config
  <2>1. /\ calls[t].pc = "op" /\ calls[t].request.op = "lookup" /\ Told(t)
        /\ PlaceOK(run[t], calls[t]) /\ (SameCovers => OneKnown)
    <3>1. calls[t].pc = "op" /\ calls[t].request.op = "lookup"
      BY DEF lookup, At, Req
    <3>2. calls'[t] # calls[t] \/ calls[t].pc # "quarantine"
      BY <3>1
    <3>3. ~GoesOn(t)
      <4>1. (\E kind : Raises(t, kind)) \/ \E result : Ends(t, result)
        BY DEF lookup
      <4> QED BY <4>1, Ending, Raising DEF GoesOn, InLock
    <3> QED BY <1>1, <3>1, <3>2, <3>3, MyCall DEF AllInv, PlacesInv, ActiveInv
  <2>2. /\ run[t].pc = "checked" /\ c \in Configs
        /\ calls[t].request.url = run[t].url /\ run[t].url \in Covers[c]
        /\ calls'[t].result.kind = "missing" \/ calls'[t].result.config = c
    <3>1. calls'[t].request.op = "lookup"
      BY <2>1, Plain DEF Told
    <3>2. /\ run[t].pc = "checked"
          /\ calls'[t].result.kind = "missing" \/ calls'[t].result.config = c
      BY <1>5, <3>1 DEF Cleared
    <3>3. calls[t].request.url = run[t].url /\ run[t].url \in Covers[c] /\ c \in Configs
      BY <1>1, <2>1, <3>2, Mine DEF PlaceOK, WithConfig, CallOK
    <3> QED BY <3>2, <3>3
  <2> HIDE DEF c
  <2>3. ASSUME NEW d \in Configs, d # c, run[t].url \in Covers[d], MayBeActive(d)' PROVE Taken(c)'
    <3>1. MayBeActive(d)
      BY <1>4, <2>3 DEF Quenches
    <3>2. d \in Actives /\ d \in read
      BY <1>1, <3>1, ActiveKnown
    <3>3. calls[t].request.url \in Covers[d]
      BY <2>2, <2>3
    <3>4. CASE Raises(t, "missing") /\ {e \in read : Req(t).url \in Covers[e]} = {}
      BY <3>2, <3>3, <3>4 DEF Req
    <3>5. ASSUME NEW e \in Actives, Ends(t, EntryOf(e)) PROVE Taken(c)'
      <4>1. calls'[t].result = EntryOf(e)
        BY <3>5, Ending
      <4>2. calls'[t].result.kind = "entry" /\ calls'[t].result.config = e
        BY <4>1 DEF EntryOf, Entry
      <4>3. e = c
        BY <2>2, <4>2
      <4>4. CASE SameCovers
        BY <2>1, <2>3, <3>2, <3>5, <4>3, <4>4 DEF OneKnown
      <4>5. CASE MaxDamage = 0
        <5>1. calls[t].pc \in InLock /\ Recovered /\ Known(c)
          BY <1>1, <3>5, <4>3, AtOp DEF Actives
        <5>2. 1 \in 1 .. Revisions(c) /\ 1 \in Versions
          BY <1>1, <2>2, <5>1, HistoryFacts, Names
        <5>3. files[c][1] # "absent"
          BY <1>1, <2>2, <5>1, <5>2, HistoryFacts DEF Recovered, ConfigStatus
        <5>4. files'[c][1] # "absent"
          BY <1>1, <2>2, <4>5, <5>2, <5>3, TakenStays
        <5>5. c' = c
          BY <1>1 DEF c
        <5> QED BY <4>5, <5>4, <5>5 DEF Taken
      <4> QED BY <4>4, <4>5
    <3> QED BY <3>4, <3>5 DEF lookup
  <2> QED BY <1>1, <2>3 DEF Alone, Taken, c
<1>6. ~_recover(t)
  BY DEF _recover, lookup, At
<1> QED BY <1>1, <1>4, <1>5, <1>6, QuietStep

LEMMA loadActive ==
  ASSUME MaxDamage <= 1, AllInv, NEW t \in Threads, load(t) \/ load_exact(t), UNCHANGED managerVars
  PROVE  ActiveInv'
<1>1. /\ IInv /\ RegistryStep(t) /\ UNCHANGED manifest /\ ~_recover(t) /\ ~lookup(t)
  BY DEF AllInv, RegistryStep, load, load_exact, _recover, lookup, At
<1>2. CASE UNCHANGED files
  BY <1>1, <1>2, UnseenActive
<1>3. ASSUME NEW c, NEW v, ~Readable(c, v), durable_move({<<c, v>>}) PROVE ActiveInv'
  <2>1. \A d \in Configs, w \in Versions : <<d, w>> \in {<<c, v>>} => files[d][w] = "damaged"
    BY <1>3 DEF Readable
  <2>2. \A d \in Configs : Quenches(d)
    BY <1>1, <1>3, <2>1, MovesQuench
  <2> QED BY <1>1, <2>2, QuietStep
<1> QED BY <1>2, <1>3 DEF load, load_exact, Loads

\* The one that registers is alone, and no other thread is at it.
LEMMA registerActive ==
  ASSUME AllInv, NEW t \in Threads, register(t), UNCHANGED managerVars
  PROVE  ActiveInv'
<1>1. /\ IInv /\ RegistryStep(t) /\ UNCHANGED <<manifest, run>> /\ ~_recover(t) /\ ~lookup(t)
      /\ At(t, "op") /\ calls[t].request.op = "register"
  BY DEF AllInv, RegistryStep, register, _recover, lookup, At, Req, managerVars
<1>2. CASE UNCHANGED files
  BY <1>1, <1>2, UnseenActive
<1>3. ASSUME NEW c \in Configs, c = calls[t].request.config, ~Known(c), FileCount < MaxFiles,
             _write_revision(t, c, "active")
      PROVE  ActiveInv'
  <2>1. /\ run[t].pc = "registered" /\ c = run[t].config
        /\ Cleared(run[t], calls[t])
    <3>1. ConfirmInv(t)
      BY DEF AllInv, TokensInv
    <3> QED BY <1>1, <1>3, <3>1 DEF ConfirmInv, Cleared
  <2>2. Alone(c, run[t].url) /\ run[t].url \in Covers[c] /\ ~Taken(c)
    <3>1. Alone(c, run[t].url) /\ run[t].url \in Covers[c]
      BY <2>1 DEF AllInv, ActiveInv, PlacesInv, PlaceOK, WithConfig
    <3>2. Len(work.history[c]) = 0 /\ Revisions(c) = 0 /\ Recovered
      <4>1. calls[t].pc \in InLock /\ Recovered /\ Len(work.history[c]) = Revisions(c)
            /\ (Known(c) <=> Revisions(c) # 0)
        BY <1>1, AtOp, HistoryFacts
      <4> QED BY <1>3, <4>1
    <3>3. files[c][1] = "absent"
      BY <3>2, Names DEF Recovered
    <3> QED BY <3>1, <3>3 DEF Taken
  <2>3. \A d \in Configs \ {c} : Quenches(d)
    <3>1. "active" \in ConfigStatus
      BY DEF ConfigStatus
    <3> QED BY <1>1, <1>3, <2>1, <3>1, WriteQuenches
  <2>4. \A d \in Configs \ {c} : run[t].url \in Covers[d] => ~MayBeActive(d)'
    BY <2>2, <2>3 DEF Alone, Quenches
  <2>5. (SameCovers => OneActive') /\ \A url : url = run[t].url => Alone(c, url)'
    BY <2>2, <2>4 DEF OneActive, Alone, SameCovers
  <2>6. \A u \in Threads \ {t} : ~Cleared(run[u], calls[u])
    <3> SUFFICES ASSUME NEW u \in Threads \ {t}, Cleared(run[u], calls[u]) PROVE FALSE
      OBVIOUS
    <3>1. run[u].pc \in {"checked", "registered"}
      BY DEF Cleared, AllInv, TokensInv, ConfirmInv
    <3>2. resolving = u /\ resolving = t
      BY <2>1, <3>1 DEF AllInv, PlacesInv, Outside
    <3> QED BY <3>2
  <2>7. /\ \A u \in Threads \ {t} : calls'[u] = calls[u] /\ calls[u].pc # "op"
        /\ calls'[t].pc = "record"
    <3>1. Goto(t, "record")
      BY <1>3 DEF _write_revision
    <3>2. \A u \in Threads \ {t} : calls[u].pc # "op"
      BY <1>1, Mine, AtOp DEF InLock
    <3> QED BY <3>1, <3>2, GoingTo
  <2> QED BY <1>1, <2>1, <2>5, <2>6, <2>7 DEF ActiveInv, Cleared, Alone, Taken, SameCovers
<1>4. calls[t].request.config \in Configs
  BY <1>1, AtOp
<1> QED BY <1>2, <1>3, <1>4 DEF register, Req, Raises

\* A transition that ends active began active.
LEMMA transitionActive ==
  ASSUME AllInv, NEW t \in Threads, _transition(t), UNCHANGED managerVars
  PROVE  ActiveInv'
<1> DEFINE c == calls[t].request.config
           op == calls[t].request.op
           to == Transitions[op].to
<1>1. /\ IInv /\ RegistryStep(t) /\ UNCHANGED <<manifest, run>> /\ ~_recover(t) /\ ~lookup(t)
      /\ At(t, "op") /\ op \in DOMAIN Transitions
  <2>1. At(t, "op") /\ op \in DOMAIN Transitions /\ UNCHANGED <<manifest, run>>
    BY DEF _transition, Req, managerVars
  <2>2. ~_recover(t)
    BY <2>1 DEF _recover, At
  <2>3. ~lookup(t)
    BY <2>1 DEF lookup, Req, Transitions
  <2> QED BY <2>1, <2>2, <2>3 DEF AllInv, RegistryStep
<1>2. CASE UNCHANGED files
  BY <1>1, <1>2, UnseenActive
<1>3. CASE Known(c) /\ Allowed(calls[t].request, EntryOf(c)) /\ FileCount < MaxFiles /\ _write_revision(t, c, to)
  <2>1. c \in Configs /\ calls[t].pc \in InLock /\ op # "lookup"
    BY <1>1, AtOp DEF Transitions
  <2>2. to \in ConfigStatus
    BY <1>1 DEF Transitions, ConfigStatus
  <2>3. to = "active" => Revisions(c) # 0 /\ work.history[c][Revisions(c)] = "active"
    <3> SUFFICES ASSUME to = "active" PROVE Revisions(c) # 0 /\ work.history[c][Revisions(c)] = "active"
      OBVIOUS
    <3>1. op = "mark_validated"
      BY <1>1 DEF Transitions
    <3>2. calls[t].request.status = "active"
      BY <3>1 DEF AllInv, PlacesInv, PlaceOK
    <3>3. EntryOf(c).status = "active"
      BY <1>3, <3>2 DEF Allowed, NONE
    <3>4. work.history[c][Len(work.history[c])] = "active"
      BY <3>3 DEF EntryOf, Entry, Last
    <3> QED BY <1>1, <1>3, <2>1, <3>4, HistoryFacts DEF Revisions
  <2> HIDE DEF c, to, op
  <2>4. \A d \in Configs : Quenches(d)
    BY <1>1, <1>3, <2>1, <2>2, <2>3, WriteQuenches
  <2> QED BY <1>1, <2>4, QuietStep
<1>4. FileCount \in Nat /\ MaxFiles \in Nat
  BY CountIsNat, Names
<1> QED BY <1>2, <1>3, <1>4 DEF _transition, Req, Raises

LEMMA RegistryActive ==
  ASSUME MaxDamage = 0 \/ (MaxDamage <= 1 /\ SameCovers), AllInv, NEW t \in Threads,
         RegistryStep(t) \/ RegistryFault(t), UNCHANGED managerVars
  PROVE  ActiveInv'
<1>1. IInv /\ MaxDamage <= 1
  BY DEF AllInv
<1>2. CASE _global_lock(t)
  <2>1. UNCHANGED files /\ ~_recover(t) /\ ~lookup(t)
    BY <1>2 DEF _global_lock, _recover, lookup, At
  <2>2. manifest' = manifest \/ (manifest.state # "ok" /\ manifest'.state # "ok")
    BY <1>2 DEF _global_lock, _validate_or_quarantine_manifest, atomic_write
  <2> QED BY <2>1, <2>2, UnseenActive
<1>3. CASE _quarantine_path(t)
  <2>1. \A c \in Configs : Quenches(c)
    BY <1>1, <1>3, quarantineQuenches
  <2>2. ~lookup(t) /\ calls'[t].pc # "op"
    BY <1>3 DEF _quarantine_path, lookup, At
  <2> QED BY <2>1, <2>2, QuietStep
<1>4. CASE _recover(t)
  BY <1>4, recoverActive
<1>5. CASE _write_manifest(t)
  <2>1. \A c \in Configs : Quenches(c)
    BY <1>1, <1>5, writeManifestQuenches
  <2>2. ~lookup(t) /\ ~_recover(t)
    BY <1>5 DEF _write_manifest, _recover, lookup, At
  <2> QED BY <2>1, <2>2, QuietStep
<1>6. CASE lookup(t)
  BY <1>6, lookupActive
<1>7. CASE load(t) \/ load_exact(t)
  BY <1>7, loadActive
<1>8. CASE register(t)
  BY <1>8, registerActive
<1>9. CASE _transition(t)
  BY <1>9, transitionActive
<1>10. CASE lock_timeout(t) \/ io_error(t)
  <2>1. UNCHANGED <<files, manifest>> /\ (Raises(t, "io") \/ calls[t].pc = "lock")
    BY <1>10 DEF lock_timeout, io_error, At
  <2>2. CASE ~lookup(t) /\ ~_recover(t)
    BY <2>1, <2>2, UnseenActive
  <2>3. CASE lookup(t) \/ _recover(t)
    <3>1. Raises(t, "io") /\ \A c \in Configs : Quenches(c)
      BY <2>1, <2>3, SameQuenches DEF lookup, _recover, At
    <3>2. /\ calls'[t].pc = "done" /\ calls'[t].request = NoRequest /\ calls'[t].result.kind = "io"
      BY <3>1, Raising
    <3>3. ~Cleared(run[t], calls'[t])
      BY <3>2, Plain DEF Cleared
    <3> QED BY <3>1, <3>2, <3>3, QuietStep
  <2> QED BY <2>2, <2>3
<1> QED BY <1>2, <1>3, <1>4, <1>5, <1>6, <1>7, <1>8, <1>9, <1>10 DEF RegistryStep, RegistryFault

\* The disk spoils a file.
LEMMA damageActive ==
  ASSUME MaxDamage <= 1, AllInv, damage, UNCHANGED managerVars
  PROVE  Fine
<1>1. UNCHANGED <<run, resolving, pending, calls, work>> /\ IInv
  BY DEF damage, managerVars, AllInv
<1>2. PlacesInv'
  BY <1>1 DEF AllInv, PlacesInv, PendingFit, PlaceOK, Confirming, Given
<1>3. /\ SameCovers => OneActive'
      /\ \A c, url : Alone(c, url) => Alone(c, url)'
  <2>1. MaxDamage # 0
    BY <1>1 DEF damage, IInv, Types
  <2> QED BY <1>1, <2>1, damageQuenches DEF Quenches, AllInv, ActiveInv, OneActive, Alone, Taken
<1>4. OneKnown' <=> OneKnown
  BY <1>1 DEF OneKnown, Actives, Known
<1>5. ActiveInv'
  BY <1>1, <1>3, <1>4 DEF AllInv, ActiveInv, Cleared, Alone, Taken, SameCovers
<1> QED BY <1>2, <1>5 DEF Fine

LEMMA InitActive == Init => PlacesInv /\ ActiveInv
<1> SUFFICES ASSUME Init PROVE PlacesInv /\ ActiveInv
  OBVIOUS
<1>1. /\ calls = [u \in Threads |-> NoCall] /\ run = [u \in Threads |-> NoRun]
      /\ pending = [k \in Tokens |-> Unused]
      /\ files = [c \in Configs |-> [v \in Versions |-> "absent"]]
  BY DEF Init, RegistryInit
<1>2. PendingFit
  BY <1>1 DEF PendingFit, Given, Unused
<1>3. NoRun.task = NONE
  BY DEF NoRun
<1>4. PlaceOK(NoRun, NoCall) /\ ~Cleared(NoRun, NoCall)
  BY Plain DEF PlaceOK, Cleared, WithEntry, WithConfig
<1>5. \A u \in Threads : run[u] = NoRun /\ calls[u] = NoCall
  BY <1>1
<1>6. PlacesInv
  <2> SUFFICES ASSUME NEW u \in Threads
               PROVE  /\ run[u].pc \notin Outside => resolving = u
                      /\ PlaceOK(run[u], calls[u]) /\ Confirming(run[u])
    BY <1>2 DEF PlacesInv
  <2> QED BY <1>3, <1>4, <1>5, Plain DEF Outside, Confirming, NONE
<1>7. \A c \in Configs : ~MayBeActive(c)
  BY <1>1 DEF MayBeActive
<1>8. ActiveInv
  BY <1>4, <1>5, <1>7, Plain DEF ActiveInv, OneActive
<1> QED BY <1>6, <1>8

-----------------------------------------------------------------------------
(* Every step keeps them. *)

LEMMA ThreadActive ==
  ASSUME AllInv, NEW t \in Threads, Resolves(t) \/ Registers(t) \/ Confirms(t) \/ administered(t)
  PROVE  Fine
<1>1. CASE Resolves(t)
  BY <1>1, guardActive, resolveLockedActive, revalidateActive, verdictActive, fromProbeActive DEF Resolves
<1>2. CASE Registers(t) \/ administered(t)
  BY <1>2, registersActive, registeredActive DEF Registers
<1>3. CASE Confirms(t)
  BY <1>3, tokenLockActive, confirmLockedActive, confirmOverridesActive, popActive DEF Confirms
<1> QED BY <1>1, <1>2, <1>3

LEMMA BeginsActive ==
  ASSUME AllInv, NEW t \in Threads, Begins(t)
  PROVE  Fine
<1>1. ASSUME NEW url \in Urls, resolve(t, url) PROVE Fine
  BY <1>1, resolveActive
<1>2. ASSUME NEW k \in Tokens, NEW o \in Overrides \cup {NONE}, confirm(t, k, o) \/ cancel(t, k) PROVE Fine
  BY <1>2, confirmActive
<1>3. ASSUME NEW op \in {"mark_revoked", "unrevoke"}, NEW c \in made, administer(t, op, c) PROVE Fine
  BY <1>3, administerActive
<1>4. NONE \in Overrides \cup {NONE}
  OBVIOUS
<1> QED BY <1>1, <1>2, <1>3, <1>4 DEF Begins

LEMMA NextActive ==
  ASSUME MaxDamage = 0 \/ (MaxDamage <= 1 /\ SameCovers), AllInv, [Next]_vars
  PROVE  AllInv'
<1>1. Inv'
  BY NextInv DEF AllInv, Inv
<1>2. ASSUME NEW t \in Threads, Begins(t) PROVE Fine
  BY <1>2, BeginsActive
<1>3. ASSUME NEW t \in Threads, RegistryStep(t) \/ RegistryFault(t), UNCHANGED managerVars PROVE Fine
  BY <1>3, RegistryPlaces, RegistryActive DEF Fine
<1>4. ASSUME NEW t \in Threads, ThreadStep(t) PROVE Fine
  BY <1>3, <1>4, ThreadActive DEF ThreadStep
<1>5. ASSUME damage, UNCHANGED managerVars PROVE Fine
  <2>1. MaxDamage <= 1
    OBVIOUS
  <2> QED BY <1>5, <2>1, damageActive
<1>6. ASSUME restart PROVE Fine
  BY <1>6, restartActive
<1>7. ASSUME UNCHANGED vars PROVE Fine
  <2>1. UNCHANGED <<files, manifest, work, calls, run, pending, resolving>>
    BY <1>7 DEF vars, registryVars, managerVars
  <2>2. PlacesInv'
    BY <2>1 DEF AllInv, PlacesInv, PendingFit, PlaceOK, Confirming, Given
  <2>3. ActiveInv'
    BY <2>1 DEF AllInv, ActiveInv, OneActive, MayBeActive, AliveTo, Alive, High, OneKnown, Actives, Known,
       Cleared, Alone, Taken, SameCovers
  <2> QED BY <2>2, <2>3 DEF Fine
<1>8. Fine
  BY <1>2, <1>3, <1>4, <1>5, <1>6, <1>7 DEF Next
<1> QED BY <1>1, <1>8 DEF AllInv, Inv, Fine

\* No configuration is published for a URL while a reader sees another one active for it,
\* whatever threads, crashes and failures come between the look-up and the registration: on
\* a disk that spoils no file; and where one file may be spoilt, if all match the same URLs.
THEOREM OneIsActive ==
  ASSUME MaxDamage = 0 \/ (MaxDamage <= 1 /\ SameCovers)
  PROVE  Spec => NoSecondActive
<1>0. MaxDamage <= 1
  OBVIOUS
<1>1. Init => AllInv
  BY InitIInv, InitTokens, InitActive DEF AllInv
<1>2. AllInv /\ [Next]_vars => AllInv'
  BY NextActive
<1>3. ASSUME AllInv, [Next]_vars, NEW t \in Threads, NEW c \in Configs, FirstPublished(c), lock = t,
             NEW d \in Configs \ {c}
      PROVE  ~(Visible(d) # <<>> /\ Last(Visible(d)) = "active" /\ run[t].url \in Covers[d])
  <2>1. Next /\ Inv /\ IInv
    <3>1. files' # files
      BY <1>3 DEF FirstPublished
    <3> QED BY <1>3, <3>1 DEF vars, registryVars, AllInv, Inv
  <2>2. PICK u \in Threads : register(u) /\ calls[u].request.config = c
    BY <1>3, <2>1, FirstIsRegistered
  <2>3. At(u, "op") /\ calls[u].request.op = "register"
    BY <2>2 DEF register, Req
  <2>4. run[u].config = c
    BY <1>3, <2>2, <2>3 DEF AllInv, TokensInv, ConfirmInv
  <2>5. u = t
    BY <1>3, <2>1, <2>3, AtOp
  <2>6. Alone(c, run[t].url) /\ ~Taken(c)
    BY <1>3, <2>3, <2>4, <2>5 DEF AllInv, ActiveInv, Cleared, Taken, FirstPublished
  <2> SUFFICES ASSUME Visible(d) # <<>>, Last(Visible(d)) = "active", run[t].url \in Covers[d]
               PROVE  FALSE
    OBVIOUS
  <2>7. MayBeActive(d)
    BY <1>0, <2>1, VisibleActive
  <2> QED BY <2>6, <2>7 DEF Alone
<1> DEFINE Kept == \A t \in Threads, c \in Configs : FirstPublished(c) /\ lock = t =>
                     \A d \in Configs \ {c} :
                       ~(Visible(d) # <<>> /\ Last(Visible(d)) = "active" /\ run[t].url \in Covers[d])
<1>4. AllInv /\ [Next]_vars => [Kept]_vars
  BY <1>3
<1> QED BY <1>1, <1>2, <1>4, PTL DEF Spec, NoSecondActive
=============================================================================
