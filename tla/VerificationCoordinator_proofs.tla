-------------------- MODULE VerificationCoordinator_proofs --------------------
(***************************************************************************)
(* Proofs about VerificationCoordinator, for any number of verifications,  *)
(* headless reads, clients, faults and operations, and any limits.         *)
(*                                                                         *)
(* The invariant reads a verification's lifecycle as the one clock all its *)
(* users agree on.  Fits says which lifecycles a thread may meet at its pc; *)
(* for most they are closed under what others may do meanwhile.  The steps *)
(* that must not be done twice, from the reservation to the registration   *)
(* and from the decision to end until the release, belong to one thread:   *)
(* the lifecycle is "starting" or "terminating" only while it is at work   *)
(* (OneOwner), and that thread is what a token that is not idle waits for.  *)
(*                                                                         *)
(* Nothing here depends on what is on the disk: the recovery of the store  *)
(* is a fold over all domains, and keeps the holders of the locks.         *)
(***************************************************************************)
EXTENDS VerificationCoordinator, FiniteSetTheorems, TLAPS

Live == {"pending", "active", "terminating", "quarantined"}
Over == {"quarantined", "released"}
Lifecycles == Live \cup {"unused", "starting", "released", "gone", "lost"}
Ways == {"failed", "timed_out", "cancelled", "completed"}

Beginning == {"reserve", "acquire", "register"}
Reports == {"crash", "deadline", "left open"}
Stopping == {"finish", "look", "look_failed"} \cup Reports
Closing == {"close", "closing", "close_lease", "commit", "quarantine"}
Ending == Closing \cup {"stale"}
Registered == {"start", "navigate", "activate", "wait", "retry", "store"} \cup Stopping \cup Ending
Free == {"idle", "list", "sweep", "begin"}

\* A session is whatever the disk says: no set of them is fixed.
IsVerification(a) == a \in
  [lifecycle : Lifecycles, registered : BOOLEAN, failed : BOOLEAN, told : BOOLEAN, due : BOOLEAN,
   event : BOOLEAN, lock : Threads \cup {Nobody}, attempt : Nat, domain : Domains \cup {NONE},
   session : {a.session}, cleanup_status : Ways \cup {NONE}, resume_ready : BOOLEAN]

IsRead(r) ==
  r \in [state : {"unused", "reading", "failed", "over"}, domain : Domains \cup {NONE}, session : {r.session}]

Thread == [pc : Free \cup Beginning \cup Registered \cup {"begin_failed", "ledger"},
           token : Tokens \cup {0}, status : Ways \cup {NONE}, consumed : BOOLEAN, begins : BOOLEAN,
           begun : BOOLEAN, retries : BOOLEAN, broken : BOOLEAN, ends : BOOLEAN, todo : SUBSET Tokens]

Told == [status : Ways \cup {NONE}, cleanup : BOOLEAN, resume : BOOLEAN]

Types ==
  /\ actives = [t \in Tokens |-> actives[t]] /\ \A t \in Tokens : IsVerification(actives[t])
  /\ fetches = [f \in Fetches |-> fetches[f]] /\ \A f \in Fetches : IsRead(fetches[f])
  /\ threads \in [Threads -> Thread]
  /\ workers \in [Tokens -> {"none", "launching", "open", "dead", "closed", "partial", "expired", "orphan"}]
  /\ terminal \in [Tokens -> Told]
  /\ ledger \in [Tokens -> {"none", "reserved", "used"}]
  /\ repairs \in [Tokens -> {"none", "consumed", "given back"}]
  /\ holder \in [Domains -> Tokens \cup Fetches \cup {Nobody}]

-----------------------------------------------------------------------------
InBegin(th) == th.pc \in Beginning
InEnd(th) == th.pc \in Ending /\ ~ th.retries
Owns(th) == InBegin(th) \/ InEnd(th)

\* What a thread keeps, by itself.
Sound(th) ==
  /\ th.pc \notin Free => th.token \in Tokens
  /\ th.retries => th.pc \in Closing \cup {"retry"}
  /\ th.broken => th.pc \in {"ledger", "store"}
  /\ th.pc \in Stopping \cup Ending /\ ~ th.retries => th.status # NONE
  /\ th.pc = "retry" => th.retries
  /\ th.pc \in Reports => th.status # "completed"
  /\ th.consumed /\ ~ th.retries => th.status # "completed" /\ ~ InBegin(th)

\* What it says of its verification.
Fits(th, a) ==
  /\ InBegin(th) => a.lifecycle = "starting"
  /\ InEnd(th) => a.lifecycle = "terminating"
  /\ th.pc \in Registered => a.lifecycle \in Live \cup {"released"}
  /\ th.retries \/ th.broken \/ th.pc = "store" => a.lifecycle \in Over /\ a.cleanup_status # NONE
  /\ th.pc = "ledger" => a.lifecycle \in Over \/ (a.lifecycle = "gone" /\ ~ th.consumed)

NotCompleted(t) == terminal[t].status # "completed" /\ actives[t].cleanup_status # "completed"

ThreadInv(p) ==
  /\ Sound(threads[p])
  /\ threads[p].pc \notin Free => Fits(threads[p], actives[T(p)])
  /\ p \in Tokens /\ threads[p].pc # "idle" => workers[p] \notin {"none", "launching"}
  /\ p \in Tokens /\ threads[p].pc \in Reports => T(p) = p
  /\ threads[p].pc \in {"look", "look_failed"} => p \notin Tokens
  /\ threads[p].pc = "reserve" => ledger[T(p)] = "none"
  /\ threads[p].pc = "commit" => \A d \in Domains : holder[d] # T(p)
  /\ threads[p].pc \in {"ledger", "store"} /\ threads[p].consumed => NotCompleted(T(p))

OneOwner == \A p, q \in Threads : p # q /\ Owns(threads[p]) /\ Owns(threads[q]) => T(p) # T(q)

\* A verification, by itself.
Shaped(a) ==
  /\ a.registered <=> a.lifecycle \in Live
  /\ a.failed <=> a.lifecycle = "quarantined"
  /\ a.lifecycle = "quarantined" => a.cleanup_status # NONE
  /\ a.cleanup_status # NONE => a.lifecycle \in Over

Consumed(t) == ledger[t] = "used" \/ repairs[t] = "consumed"

ToSettle(th) == th.pc = "ledger" \/ (th.pc = "store" /\ th.ends)

OutcomeInv(t) ==
  terminal[t] # NoOutcome =>
    /\ actives[t].lifecycle \in Over
    /\ actives[t].cleanup_status # NONE => terminal[t].status = actives[t].cleanup_status

LedgerInv(t) ==
  /\ Consumed(t) => actives[t].lifecycle \in Over \cup {"lost"} /\ NotCompleted(t)
  /\ actives[t].lifecycle = "unused" => ledger[t] = "none" /\ repairs[t] = "none"
  /\ actives[t].lifecycle \in Over \cup {"gone"} /\ ledger[t] = "reserved" /\ repairs[t] = "none" =>
       \E p \in Threads : T(p) = t /\ ToSettle(threads[p])

BrowserInv(t) ==
  /\ actives[t].lifecycle \notin Live \cup {"released"} => workers[t] = "none"
  /\ actives[t].lifecycle \in {"pending", "active"} =>
       \/ workers[t] \in {"open", "dead"}
       \/ workers[t] = "launching" /\ \E p \in Threads : T(p) = t /\ threads[p].pc = "start"
       \/ threads[t].pc \in Reports

TokenInv(t) ==
  /\ Shaped(actives[t])
  /\ OutcomeInv(t) /\ LedgerInv(t) /\ BrowserInv(t)
  /\ actives[t].lifecycle = "terminating" => \E p \in Threads : T(p) = t /\ InEnd(threads[p])

LeaseInv ==
  \A d \in Domains :
    /\ holder[d] \in Tokens =>
         /\ actives[holder[d]].domain = d
         /\ \/ actives[holder[d]].lifecycle \in Live
            \/ \E p \in Threads : T(p) = holder[d] /\ threads[p].pc = "register"
    /\ holder[d] \in Fetches => fetches[holder[d]].state \in {"reading", "failed"}
                                /\ fetches[holder[d]].domain = d

Reservers == {p \in Threads : InBegin(threads[p])}
CapacityInv == reserved = Cardinality(Reservers) /\ _capacity_used + reserved <= MaxActive

IInv ==
  /\ Types /\ OneOwner /\ LeaseInv /\ CapacityInv
  /\ \A p \in Threads : ThreadInv(p)
  /\ \A t \in Tokens : TokenInv(t)

USE DEF At, T, Active, Lifecycle, IsIdle

-----------------------------------------------------------------------------
(* One thread moves, and one verification changes.                           *)

Moves(p, th) == th \in Thread /\ threads' = [threads EXCEPT ![p] = th]
Puts(t, a) == IsVerification(a) /\ actives' = [actives EXCEPT ![t] = a]

LEMMA ThreadMoves ==
  ASSUME Types, NEW p \in Threads, NEW th, Moves(p, th)
  PROVE  /\ threads' \in [Threads -> Thread] /\ threads'[p] = th
         /\ \A q \in Threads \ {p} : threads'[q] = threads[q]
BY DEF Types, Moves

LEMMA VerificationPut ==
  ASSUME Types, NEW t \in Tokens, NEW a, Puts(t, a)
  PROVE  /\ actives' = [u \in Tokens |-> actives'[u]] /\ \A u \in Tokens : IsVerification(actives'[u])
         /\ actives'[t] = a /\ \A u \in Tokens \ {t} : actives'[u] = actives[u]
<1>1. actives = [u \in Tokens |-> actives[u]]
  BY DEF Types
<1>2. actives' = [u \in Tokens |-> IF u = t THEN a ELSE actives[u]]
  BY <1>1 DEF Puts
<1> QED BY <1>2 DEF Types, Puts

LEMMA Names ==
  /\ Tokens \subseteq Nat \ {0} /\ Threads = Clients \cup Tokens /\ IsFiniteSet(Threads) /\ IsFiniteSet(Tokens)
  /\ Fetches \cap Tokens = {} /\ Nobody \notin Tokens \cup Fetches
<1>1. IsFiniteSet(Tokens \cup Clients)
  BY CoordinatorAssumption
<1>2. Threads = Clients \cup Tokens /\ Threads = Tokens \cup Clients
  BY DEF Threads
<1>3. IsFiniteSet(Threads) /\ IsFiniteSet(Tokens)
  BY <1>1, <1>2, FS_Subset
<1> QED BY <1>2, <1>3, CoordinatorAssumption DEF Nobody

-----------------------------------------------------------------------------
(* What a step of one thread leaves true of the others.                      *)

\* What may become of a verification that others have at hand.
Follows(a, b) ==
  /\ a.lifecycle \in Live \cup {"released"} => b.lifecycle \in Live \cup {"released"}
  /\ a.lifecycle \in Over => b.lifecycle \in Over
  /\ a.lifecycle = "gone" => b.lifecycle = "gone"
  /\ a.cleanup_status # NONE => b.cleanup_status # NONE

LEMMA FitsAfter ==
  ASSUME NEW th, NEW a, NEW b, Fits(th, a), Follows(a, b), b.lifecycle = a.lifecycle \/ ~ Owns(th)
  PROVE  Fits(th, b)
BY DEF Fits, Follows, Owns, Over, Live

\* P is the thread that moves, if one does.
Owner(P, t) == \E p \in P : Owns(threads[p]) /\ T(p) = t

Respects(P, t) ==
  /\ Follows(actives[t], actives'[t])
  /\ actives[t].lifecycle \in {"starting", "terminating"} =>
       actives'[t].lifecycle = actives[t].lifecycle \/ Owner(P, t)
  /\ workers[t] \notin {"none", "launching"} => workers'[t] \notin {"none", "launching"}
  /\ ledger[t] = "none" => ledger'[t] = "none" \/ Owner(P, t)
  /\ actives[t].lifecycle # "starting" => \A d \in Domains : holder'[d] = t => holder[d] = t
  /\ actives[t].lifecycle \in Over /\ NotCompleted(t) => NotCompleted(t)'

LEMMA OthersStay ==
  ASSUME IInv, NEW P \in SUBSET Threads, \A q \in Threads \ P : threads'[q] = threads[q],
         \A t \in Tokens : Respects(P, t)
  PROVE  \A q \in Threads \ P : ThreadInv(q)'
<1> SUFFICES ASSUME NEW q \in Threads \ P PROVE ThreadInv(q)'
  OBVIOUS
<1>1. ThreadInv(q) /\ threads'[q] = threads[q] /\ threads[q] \in Thread
  BY DEF IInv, Types
<1>2. CASE threads[q].pc \in Free
  BY <1>1, <1>2 DEF ThreadInv, Free, Reports, Respects
<1>3. CASE threads[q].pc \notin Free
  <2>0. PICK t \in Tokens : t = T(q)
    BY <1>1, <1>3 DEF ThreadInv, Sound
  <2>1. t \in Tokens /\ Respects(P, t) /\ Fits(threads[q], actives[t])
    BY <1>1, <1>3, <2>0 DEF ThreadInv
  <2>2. ~ (Owns(threads[q]) /\ Owner(P, t))
    BY <2>0 DEF IInv, OneOwner, Owner
  <2>3. actives'[t].lifecycle = actives[t].lifecycle \/ ~ Owns(threads[q])
    BY <2>1, <2>2 DEF Fits, Owns, Respects
  <2>4. Fits(threads[q], actives'[t])
    BY <2>1, <2>3, FitsAfter DEF Respects
  <2>5. q \in Tokens => Respects(P, q)
    OBVIOUS
  <2>6. threads[q].pc = "reserve" => ledger'[t] = "none"
    <3>1. threads[q].pc = "reserve" => Owns(threads[q])
      BY DEF Owns, InBegin, Beginning
    <3> QED BY <1>1, <2>0, <2>1, <2>2, <3>1 DEF ThreadInv, Respects
  <2>7. threads[q].pc = "commit" => \A d \in Domains : holder'[d] # t
    <3>1. threads[q].pc = "commit" => actives[t].lifecycle # "starting"
      BY <2>1 DEF Fits, Registered, Ending, Closing, Live
    <3> QED BY <1>1, <2>0, <2>1, <3>1 DEF ThreadInv, Respects
  <2>8. threads[q].pc \in {"ledger", "store"} /\ threads[q].consumed => NotCompleted(t)'
    <3>1. threads[q].pc \in {"ledger", "store"} /\ threads[q].consumed => actives[t].lifecycle \in Over
      BY <2>1 DEF Fits
    <3> QED BY <1>1, <2>0, <2>1, <3>1 DEF ThreadInv, Respects
  <2>9. T(q)' = t /\ T(q) = t
    BY <1>1, <2>0
  <2>10. Sound(threads'[q]) /\ Fits(threads'[q], actives'[T(q)'])
    BY <1>1, <2>4, <2>9 DEF ThreadInv
  <2>11. /\ q \in Tokens /\ threads'[q].pc # "idle" => workers'[q] \notin {"none", "launching"}
         /\ q \in Tokens /\ threads'[q].pc \in Reports => T(q)' = q
         /\ threads'[q].pc \in {"look", "look_failed"} => q \notin Tokens
    BY <1>1, <2>5 DEF ThreadInv, Respects
  <2>12. /\ threads'[q].pc = "reserve" => ledger'[T(q)'] = "none"
         /\ threads'[q].pc = "commit" => \A d \in Domains : holder'[d] # T(q)'
    BY <1>1, <2>6, <2>7, <2>9
  <2>13. threads'[q].pc \in {"ledger", "store"} /\ threads'[q].consumed => NotCompleted(T(q))'
    BY <1>1, <2>8, <2>9 DEF NotCompleted
  <2> QED BY <2>10, <2>11, <2>12, <2>13 DEF ThreadInv
<1> QED BY <1>2, <1>3

\* A verification that the step leaves alone, by a thread that it does not wait for.
Untouched(t) ==
  /\ actives'[t] = actives[t] /\ workers'[t] = workers[t] /\ terminal'[t] = terminal[t]
  /\ ledger'[t] = ledger[t] /\ repairs'[t] = repairs[t]

Awaited(P, t) == \E p \in P :
  \/ T(p) = t /\ (ToSettle(threads[p]) \/ InEnd(threads[p]) \/ threads[p].pc = "start")
  \/ p = t /\ threads[p].pc \in Reports

LEMMA TokenStays ==
  ASSUME IInv, NEW P \in SUBSET Threads, \A q \in Threads \ P : threads'[q] = threads[q],
         NEW t \in Tokens, Untouched(t), ~ Awaited(P, t)
  PROVE  TokenInv(t)'
<1>1. TokenInv(t)
  BY DEF IInv
<1>2. Shaped(actives'[t]) /\ OutcomeInv(t)'
  BY <1>1 DEF TokenInv, Untouched, OutcomeInv
<1>3. \A q \in Threads : T(q) = t /\ ToSettle(threads[q]) => T(q)' = t /\ ToSettle(threads'[q])
  BY DEF Awaited
<1>4. LedgerInv(t)'
  BY <1>1, <1>3 DEF TokenInv, Untouched, LedgerInv, Consumed, NotCompleted
<1>5. t \in Threads
  BY Names
<1>6. BrowserInv(t)'
  BY <1>1, <1>5 DEF TokenInv, Untouched, BrowserInv, Awaited
<1>7. actives'[t].lifecycle = "terminating" => \E q \in Threads : T(q)' = t /\ InEnd(threads'[q])
  BY <1>1 DEF TokenInv, Untouched, Awaited
<1> QED BY <1>2, <1>4, <1>6, <1>7 DEF TokenInv

KeepsLease(P, t) ==
  (\E d \in Domains : holder'[d] = t) =>
    /\ actives'[t].domain = actives[t].domain
    /\ actives[t].lifecycle \in Live => actives'[t].lifecycle \in Live
    /\ \A p \in P : T(p) = t /\ threads[p].pc = "register" => actives'[t].lifecycle \in Live

LEMMA LeaseStays ==
  ASSUME IInv, NEW P \in SUBSET Threads, \A q \in Threads \ P : threads'[q] = threads[q], fetches' = fetches,
         \A d \in Domains : holder'[d] = holder[d] \/ holder'[d] = Nobody,
         \A t \in Tokens : KeepsLease(P, t)
  PROVE  LeaseInv'
<1> SUFFICES ASSUME NEW d \in Domains, holder'[d] = holder[d]
             PROVE  /\ holder'[d] \in Tokens =>
                         /\ actives'[holder'[d]].domain = d
                         /\ \/ actives'[holder'[d]].lifecycle \in Live
                            \/ \E q \in Threads : T(q)' = holder'[d] /\ threads'[q].pc = "register"
                    /\ holder'[d] \in Fetches => fetches'[holder'[d]].state \in {"reading", "failed"}
                                                 /\ fetches'[holder'[d]].domain = d
  BY Names DEF LeaseInv
<1>1. holder'[d] \in Fetches => fetches'[holder'[d]].state \in {"reading", "failed"}
                                /\ fetches'[holder'[d]].domain = d
  BY DEF IInv, LeaseInv
<1>2. ASSUME NEW t \in Tokens, holder'[d] = t
      PROVE  /\ actives'[t].domain = d
             /\ \/ actives'[t].lifecycle \in Live
                \/ \E q \in Threads : T(q)' = t /\ threads'[q].pc = "register"
  <2>1. /\ actives[t].domain = d
        /\ \/ actives[t].lifecycle \in Live
           \/ \E q \in Threads : T(q) = t /\ threads[q].pc = "register"
    <3>1. holder[d] = t /\ LeaseInv
      BY <1>2 DEF IInv
    <3> QED BY <3>1 DEF LeaseInv
  <2>2. /\ actives'[t].domain = actives[t].domain
        /\ actives[t].lifecycle \in Live => actives'[t].lifecycle \in Live
        /\ \A p \in P : T(p) = t /\ threads[p].pc = "register" => actives'[t].lifecycle \in Live
    BY <1>2 DEF KeepsLease
  <2>3. ASSUME NEW q \in Threads, T(q) = t, threads[q].pc = "register"
        PROVE  \/ actives'[t].lifecycle \in Live
               \/ \E r \in Threads : T(r)' = t /\ threads'[r].pc = "register"
    BY <2>2, <2>3
  <2> QED BY <2>1, <2>2, <2>3
<1> QED BY <1>1, <1>2

\* The places verifications take.
InUse == {t \in Tokens : actives[t].lifecycle \in Live}

LEMMA PlacesTaken ==
  ASSUME \A t \in Tokens : Shaped(actives[t])
  PROVE  /\ _capacity_used = Cardinality(InUse) /\ InUse \subseteq Tokens
         /\ IsFiniteSet(InUse) /\ Cardinality(InUse) \in Nat
<1>1. {t \in Tokens : actives[t].registered \/ actives[t].failed} = InUse
  BY DEF Shaped, InUse, Live
<1>2. InUse \subseteq Tokens
  BY DEF InUse
<1>3. IsFiniteSet(InUse)
  BY <1>2, Names, FS_Subset
<1>4. _capacity_used = Cardinality(InUse)
  BY <1>1, Zenon DEF _capacity_used
<1> QED BY <1>2, <1>3, <1>4, FS_CardinalityType

LEMMA PlacesShaped ==
  ASSUME IInv
  PROVE  /\ _capacity_used = Cardinality(InUse) /\ InUse \subseteq Tokens
         /\ IsFiniteSet(InUse) /\ Cardinality(InUse) \in Nat
BY PlacesTaken DEF IInv, TokenInv

LEMMA ReserversFinite ==
  IsFiniteSet(Reservers) /\ Cardinality(Reservers) \in Nat
<1>1. Reservers \subseteq Threads
  BY DEF Reservers
<1> QED BY <1>1, Names, FS_Subset, FS_CardinalityType

\* Shaped, of the next state.
LEMMA PlacesNext ==
  (\A t \in Tokens : Shaped(actives[t]))' =>
     (/\ _capacity_used = Cardinality(InUse) /\ InUse \subseteq Tokens
      /\ IsFiniteSet(InUse) /\ Cardinality(InUse) \in Nat)'
<1>1. (\A t \in Tokens : Shaped(actives[t])) =>
        /\ _capacity_used = Cardinality(InUse) /\ InUse \subseteq Tokens
        /\ IsFiniteSet(InUse) /\ Cardinality(InUse) \in Nat
  BY PlacesTaken
<1> QED BY <1>1, PTL

\* reserved' counts the threads that are at their reservations, and no place is taken but one
\* for each reservation that is given up.
LEMMA CapacityStays ==
  ASSUME IInv, \A p \in Threads : InBegin(threads'[p]) <=> InBegin(threads[p]), reserved' = reserved,
         \A t \in Tokens : Shaped(actives'[t]),
         \A t \in Tokens : actives'[t].lifecycle \in Live => actives[t].lifecycle \in Live
  PROVE  CapacityInv'
<1>1. /\ _capacity_used' = Cardinality(InUse') /\ IsFiniteSet(InUse') /\ Cardinality(InUse') \in Nat
  BY PlacesNext
<1>2. /\ _capacity_used = Cardinality(InUse) /\ IsFiniteSet(InUse) /\ Cardinality(InUse) \in Nat
  BY PlacesShaped
<1>3. InUse' \subseteq InUse
  BY DEF InUse
<1>4. Cardinality(InUse') <= Cardinality(InUse)
  BY <1>2, <1>3, FS_Subset
<1>5. Reservers' = Reservers
  BY DEF Reservers
<1>6. reserved = Cardinality(Reservers) /\ reserved \in Nat /\ _capacity_used + reserved <= MaxActive
  BY ReserversFinite DEF IInv, CapacityInv
<1>7. MaxActive \in Nat
  BY CoordinatorAssumption
<1>8. _capacity_used' + reserved <= MaxActive
  BY <1>1, <1>2, <1>4, <1>6, <1>7
<1> QED BY <1>5, <1>6, <1>8 DEF CapacityInv

LEMMA OwnersStay ==
  ASSUME IInv, NEW p \in Threads, \A q \in Threads \ {p} : threads'[q] = threads[q],
         Owns(threads'[p]) => \/ Owns(threads[p]) /\ T(p)' = T(p)
                              \/ actives[T(p)'].lifecycle \notin {"starting", "terminating"}
  PROVE  OneOwner'
<1>1. ASSUME NEW q \in Threads \ {p}, Owns(threads[q]) PROVE actives[T(q)].lifecycle \in {"starting", "terminating"}
  BY <1>1 DEF IInv, ThreadInv, Owns, InBegin, InEnd, Fits, Free, Beginning, Ending, Closing
<1>2. ASSUME NEW q \in Threads \ {p}, Owns(threads[q]), Owns(threads'[p]) PROVE T(p)' # T(q)
  BY <1>1, <1>2 DEF IInv, OneOwner
<1>3. \A q, r \in Threads \ {p} : q # r /\ Owns(threads'[q]) /\ Owns(threads'[r]) => T(q)' # T(r)'
  BY DEF IInv, OneOwner
<1> QED BY <1>2, <1>3 DEF OneOwner

-----------------------------------------------------------------------------
(* A step after which every verification is where it was.                    *)

Alike(a, b) ==
  /\ b.lifecycle = a.lifecycle \/ (a.lifecycle = "pending" /\ b.lifecycle = "active")
  /\ b.registered = a.registered /\ b.failed = a.failed
  /\ b.cleanup_status = a.cleanup_status /\ b.domain = a.domain

\* Nothing waits for what this thread was at.
Passes(p, th) ==
  /\ ~ InBegin(threads[p]) /\ ~ InBegin(th) /\ ~ ToSettle(threads[p])
  /\ threads[p].pc = "start" => workers[T(p)] # "launching"
  /\ threads[p].pc \in Reports => actives[T(p)].lifecycle \notin {"pending", "active"}
  /\ InEnd(threads[p]) => InEnd(th) /\ th.token = T(p)
  /\ InEnd(th) => InEnd(threads[p])

LEMMA QuietVerifications ==
  ASSUME IInv, \A t \in Tokens : Alike(actives[t], actives'[t]),
         UNCHANGED <<workers, terminal, ledger, repairs, holder>>
  PROVE  /\ \A P \in SUBSET Threads, t \in Tokens : Respects(P, t)
         /\ \A t \in Tokens : Shaped(actives'[t]) /\ OutcomeInv(t)'
         /\ \A t \in Tokens : actives'[t].lifecycle \in Live => actives[t].lifecycle \in Live
         /\ \A P \in SUBSET Threads, t \in Tokens :
              (\A p \in P : threads[p].pc # "register") => KeepsLease(P, t)
<1>1. ASSUME NEW P \in SUBSET Threads, NEW t \in Tokens PROVE Respects(P, t)
  BY DEF Alike, Respects, Follows, Live, Over, NotCompleted
<1>2. ASSUME NEW t \in Tokens PROVE Shaped(actives'[t]) /\ OutcomeInv(t)'
  <2>1. Alike(actives[t], actives'[t]) /\ Shaped(actives[t]) /\ OutcomeInv(t)
    BY DEF IInv, TokenInv
  <2>2. Shaped(actives'[t])
    BY <2>1 DEF Alike, Shaped, Live, Over
  <2>3. OutcomeInv(t)'
    BY <2>1 DEF Alike, OutcomeInv, Over
  <2> QED BY <2>2, <2>3
<1>3. ASSUME NEW t \in Tokens, actives'[t].lifecycle \in Live PROVE actives[t].lifecycle \in Live
  BY <1>3 DEF Alike, Live
<1>4. ASSUME NEW P \in SUBSET Threads, NEW t \in Tokens, \A p \in P : threads[p].pc # "register"
      PROVE  KeepsLease(P, t)
  BY <1>4 DEF Alike, KeepsLease, Live
<1> QED BY <1>1, <1>2, <1>3, <1>4

LEMMA QuietStep ==
  ASSUME IInv, NEW p \in Threads, NEW th, Moves(p, th), Passes(p, th),
         actives' = [t \in Tokens |-> actives'[t]], \A t \in Tokens : IsVerification(actives'[t]),
         \A t \in Tokens : Alike(actives[t], actives'[t]),
         UNCHANGED <<workers, terminal, ledger, repairs, holder, fetches, reserved>>,
         ThreadInv(p)'
  PROVE  IInv'
<1>1. /\ threads' \in [Threads -> Thread] /\ threads'[p] = th
      /\ \A q \in Threads \ {p} : threads'[q] = threads[q]
  BY ThreadMoves DEF IInv
<1>2. Types'
  BY <1>1 DEF IInv, Types
<1>3. \A q \in Threads : ThreadInv(q)'
  BY <1>1, QuietVerifications, OthersStay
<1>4. OneOwner'
  BY <1>1, OwnersStay DEF Passes, Owns
<1>5. LeaseInv'
  <2>1. threads[p].pc # "register"
    BY DEF Passes, InBegin, Beginning
  <2>2. \A t \in Tokens : KeepsLease({p}, t)
    BY <2>1, QuietVerifications
  <2>3. \A d \in Domains : holder'[d] = holder[d]
    OBVIOUS
  <2> QED BY <1>1, <2>2, <2>3, LeaseStays
<1>6. CapacityInv'
  BY <1>1, QuietVerifications, CapacityStays DEF Passes
<1>7. ASSUME NEW t \in Tokens PROVE TokenInv(t)'
  <2>1. TokenInv(t) /\ Alike(actives[t], actives'[t])
    BY DEF IInv
  <2>2. LedgerInv(t)'
    BY <1>1, <2>1 DEF TokenInv, LedgerInv, Alike, Consumed, NotCompleted, Passes, Over
  <2>3. BrowserInv(t)'
    <3>1. t \in Threads /\ (p = t /\ threads[p].pc \in Reports => T(p) = t)
      BY Names DEF IInv, ThreadInv
    <3> QED BY <1>1, <2>1, <3>1 DEF TokenInv, BrowserInv, Alike, Passes, Live
  <2>4. actives'[t].lifecycle = "terminating" => \E q \in Threads : T(q)' = t /\ InEnd(threads'[q])
    BY <1>1, <2>1 DEF TokenInv, Alike, Passes
  <2>5. Shaped(actives'[t]) /\ OutcomeInv(t)'
    BY QuietVerifications
  <2> QED BY <2>2, <2>3, <2>4, <2>5 DEF TokenInv
<1> QED BY <1>2, <1>3, <1>4, <1>5, <1>6, <1>7 DEF IInv

-----------------------------------------------------------------------------
(* How threads move.                                                         *)

Pcs == Free \cup Beginning \cup Registered \cup {"begin_failed", "ledger"}

\* A thread that goes on as it is, at another pc.
GoesOn(th, old, pc) ==
  /\ th \in Thread /\ th.pc = pc /\ th.token = old.token /\ th.status = old.status
  /\ th.consumed = old.consumed /\ th.retries = old.retries /\ th.broken = old.broken
  /\ th.begun = old.begun /\ th.ends = old.ends

LEMMA GotoMoves ==
  ASSUME Types, NEW p \in Threads, NEW pc \in Pcs, Goto(p, pc)
  PROVE  \E th : Moves(p, th) /\ GoesOn(th, threads[p], pc)
<1> DEFINE th == [threads[p] EXCEPT !.pc = pc]
<1>1. threads \in [Threads -> Thread] /\ threads[p] \in Thread
  BY DEF Types
<1>2. GoesOn(th, threads[p], pc)
  BY <1>1 DEF Thread, GoesOn, Pcs
<1>3. threads' = [threads EXCEPT ![p] = th]
  BY <1>1 DEF Goto
<1> HIDE DEF th
<1> QED BY <1>2, <1>3 DEF Moves, GoesOn

\* A thread that begins something, or is done with everything.
IdleLike(th) ==
  /\ th \in Thread /\ th.pc \in Free \cup {"begin_failed"}
  /\ ~ th.retries /\ ~ th.broken /\ (th.consumed => th.status # "completed")
  /\ th.pc = "begin_failed" => th.token \in Tokens

LEMMA IdleFacts ==
  /\ Idle \in Thread /\ Idle.pc = "idle" /\ IdleLike(Idle)
BY DEF Idle, Thread, Ways, Free, IdleLike, NONE

LEMMA ReturnedMoves ==
  ASSUME Types, NEW p \in Threads, Returned(p), T(p) \in Tokens
  PROVE  \E th : Moves(p, th) /\ IdleLike(th) /\ (th.pc = "begin_failed" => th.token = T(p))
<1> DEFINE old == threads[p]
           th == IF old.begun THEN [Idle EXCEPT !.pc = "begin_failed", !.token = old.token, !.begun = TRUE]
                 ELSE IF old.todo # {} \/ old.begins
                 THEN [Idle EXCEPT !.pc = "sweep", !.todo = old.todo, !.begins = old.begins]
                 ELSE Idle
<1>1. old \in Thread
  BY DEF Types
<1>2. th \in Thread /\ IdleLike(th) /\ (th.pc = "begin_failed" => th.token = T(p))
  <2>1. CASE old.begun
    <3>1. th = [Idle EXCEPT !.pc = "begin_failed", !.token = T(p), !.begun = TRUE]
      BY <2>1
    <3> HIDE DEF th, old
    <3> QED BY <3>1, IdleFacts DEF Thread, Idle, IdleLike
  <2>2. CASE ~ old.begun /\ (old.todo # {} \/ old.begins)
    <3>1. th = [Idle EXCEPT !.pc = "sweep", !.todo = old.todo, !.begins = old.begins]
      BY <2>2
    <3>2. old.todo \in SUBSET Tokens /\ old.begins \in BOOLEAN
      BY <1>1 DEF Thread
    <3> HIDE DEF th, old
    <3> QED BY <3>1, <3>2, IdleFacts DEF Thread, Idle, IdleLike, Free
  <2>3. CASE ~ old.begun /\ old.todo = {} /\ ~ old.begins
    <3>1. th = Idle
      BY <2>3
    <3> HIDE DEF th, old
    <3> QED BY <3>1, IdleFacts
  <2> QED BY <2>1, <2>2, <2>3
<1>3. threads' = [threads EXCEPT ![p] = th]
  BY DEF Returned
<1> HIDE DEF th
<1> QED BY <1>2, <1>3 DEF Moves

\* The verification a thread that is not free works on.
LEMMA AtWork ==
  ASSUME IInv, NEW p \in Threads, threads[p].pc \notin Free
  PROVE  /\ T(p) \in Tokens /\ Fits(threads[p], actives[T(p)]) /\ Sound(threads[p])
         /\ IsVerification(actives[T(p)]) /\ TokenInv(T(p)) /\ Types /\ threads[p] \in Thread
<1>1. Types /\ ThreadInv(p) /\ threads[p] \in Thread
  BY DEF IInv, Types
<1>2. T(p) \in Tokens
  BY <1>1 DEF ThreadInv, Sound
<1>3. IsVerification(actives[T(p)]) /\ TokenInv(T(p))
  BY <1>1, <1>2 DEF IInv, Types
<1> QED BY <1>1, <1>2, <1>3 DEF ThreadInv

\* The lock, and what a client is told, are nobody's business here.
LEMMA UnlockedAlike ==
  ASSUME NEW p, IsVerification(Active(p))
  PROVE  /\ IsVerification(Unlocked(p)) /\ Alike(Active(p), Unlocked(p))
         /\ Unlocked(p).lifecycle = Lifecycle(p)
BY DEF Unlocked, IsVerification, Alike, Nobody

\* A step that changes nothing of any verification that others could tell.
Similar ==
  /\ actives' = [t \in Tokens |-> actives'[t]]
  /\ \A t \in Tokens : IsVerification(actives'[t]) /\ Alike(actives[t], actives'[t])

Quiet == Similar /\ UNCHANGED <<workers, terminal, ledger, repairs, holder, fetches, reserved>>

LEMMA AlikePut ==
  ASSUME IInv, NEW t \in Tokens, NEW a, IsVerification(a), Set(t, a), Alike(actives[t], a)
  PROVE  Similar /\ actives'[t] = a
<1>1. Puts(t, a) /\ Types
  BY DEF Set, Puts, IInv
<1>2. /\ actives' = [u \in Tokens |-> actives'[u]] /\ \A u \in Tokens : IsVerification(actives'[u])
      /\ actives'[t] = a /\ \A u \in Tokens \ {t} : actives'[u] = actives[u]
  BY <1>1, VerificationPut
<1> QED BY <1>2 DEF Alike, Similar

LEMMA AlikeSame ==
  ASSUME IInv, actives' = actives
  PROVE  Similar
BY DEF IInv, Types, Alike, Similar

\* A thread that stays with its verification, and neither takes over its end nor leaves it.
Continues(p, pc) ==
  /\ pc \in (Registered \cup {"begin_failed"}) \ (Reports \cup {"retry", "store"})
  /\ threads[p].pc \in Registered \ {"store"}
  /\ threads[p].pc = "start" => workers[T(p)] # "launching"
  /\ threads[p].pc \in Reports => Lifecycle(p) \notin {"pending", "active"}
  /\ (threads[p].pc \in Ending <=> pc \in Ending) \/ threads[p].retries
  /\ threads[p].retries => pc \in Closing
  /\ pc \in Stopping => threads[p].pc \in Stopping
  /\ pc \in {"look", "look_failed"} => threads[p].pc \in {"look", "look_failed"}
  /\ pc = "commit" => \A d \in Domains : holder[d] # T(p)

LEMMA QuietGoto ==
  ASSUME IInv, NEW p \in Threads, NEW pc, Goto(p, pc), Quiet, Continues(p, pc)
  PROVE  IInv'
<1>1. pc \in Pcs /\ Types /\ ThreadInv(p) /\ threads[p].pc \notin Free
  BY DEF Pcs, Continues, IInv, Registered, Stopping, Ending, Closing, Reports, Free
<1>2. PICK th : Moves(p, th) /\ GoesOn(th, threads[p], pc)
  BY <1>1, GotoMoves
<1>3. threads'[p] = th
  BY <1>1, <1>2, ThreadMoves
<1>4. /\ T(p) \in Tokens /\ Fits(threads[p], actives[T(p)]) /\ Sound(threads[p])
      /\ Alike(Active(p), actives'[T(p)])
  BY <1>1, AtWork DEF Quiet, Similar
<1>5. Sound(th)
  BY <1>2, <1>4 DEF Sound, GoesOn, Continues, InBegin, Beginning, Registered, Stopping, Ending, Closing, Reports
<1>6. Passes(p, th)
  BY <1>2, <1>4 DEF Passes, Sound, GoesOn, Continues, InBegin, InEnd, ToSettle, Beginning, Registered,
                    Stopping, Ending, Closing, Reports
<1>7. Fits(th, actives'[T(p)])
  BY <1>2, <1>4, <1>6
    DEF Fits, Sound, GoesOn, Continues, Passes, Alike, InBegin, Live, Over, Registered, Stopping, Ending,
        Closing, Reports
<1>8. ThreadInv(p)'
  <2>1. T(p)' = T(p) /\ threads'[p].pc = pc
    BY <1>2, <1>3 DEF GoesOn
  <2>2. pc \notin Reports \cup {"reserve", "ledger", "store", "idle"}
    BY DEF Continues, Registered, Stopping, Ending, Closing, Reports
  <2>3. threads[p].pc # "idle"
    BY <1>1 DEF Free
  <2>4. Sound(threads'[p]) /\ Fits(threads'[p], actives'[T(p)'])
    BY <1>3, <1>5, <1>7, <2>1
  <2>5. p \in Tokens => workers'[p] \notin {"none", "launching"}
    BY <1>1, <2>3 DEF ThreadInv, Quiet
  <2>6. pc \in {"look", "look_failed"} => p \notin Tokens
    BY <1>1 DEF ThreadInv, Continues
  <2>7. pc = "commit" => \A d \in Domains : holder'[d] # T(p)'
    BY <2>1 DEF Continues, Quiet
  <2> QED BY <2>1, <2>2, <2>4, <2>5, <2>6, <2>7 DEF ThreadInv
<1> QED BY <1>2, <1>6, <1>8, QuietStep DEF Quiet, Similar

\* A thread that leaves its verification, or had none.
Leaves(p) ==
  /\ threads[p].pc \notin {"start", "ledger", "store"} \cup Beginning
  /\ threads[p].pc = "idle" => p \notin Tokens
  /\ threads[p].pc \in Ending => threads[p].retries
  /\ threads[p].pc \in Reports => Lifecycle(p) \notin {"pending", "active"}

LEMMA LeftInv ==
  ASSUME IInv, NEW p \in Threads, NEW th, Moves(p, th), IdleLike(th),
         p \in Tokens => threads[p].pc # "idle" /\ workers'[p] = workers[p]
  PROVE  ThreadInv(p)'
<1>1. Types /\ ThreadInv(p) /\ threads'[p] = th
  BY ThreadMoves DEF IInv
<1>2. Sound(th)
  BY DEF Sound, IdleLike, InBegin, Free, Beginning, Closing, Stopping, Ending, Reports
<1>3. ASSUME NEW a PROVE Fits(th, a)
  BY DEF Fits, IdleLike, InBegin, InEnd, Beginning, Registered, Stopping, Ending, Closing, Reports, Free
<1> QED BY <1>1, <1>2, <1>3 DEF ThreadInv, IdleLike, Reports, Free

LEMMA QuietLeave ==
  ASSUME IInv, NEW p \in Threads, NEW th, Moves(p, th), IdleLike(th), Quiet, Leaves(p)
  PROVE  IInv'
<1>1. Passes(p, th)
  BY DEF Passes, IdleLike, Leaves, InBegin, InEnd, ToSettle, Beginning, Ending, Closing, Free
<1>2. ThreadInv(p)'
  BY LeftInv DEF Leaves, Quiet
<1> QED BY <1>1, <1>2, QuietStep DEF Quiet, Similar

\* A thread that takes something up.
LEMMA QuietTurn ==
  ASSUME IInv, NEW p \in Threads, NEW th, Moves(p, th), Quiet,
         threads[p].pc \in Free \cup {"look", "look_failed", "begin_failed"},
         th.pc \in {"finish", "look", "retry", "crash"},
         p \in Tokens => threads[p].pc # "idle" /\ th.pc \notin {"look", "crash"},
         Sound(th), Fits(th, actives'[th.token])
  PROVE  IInv'
<1>1. Types /\ ThreadInv(p) /\ threads'[p] = th
  BY ThreadMoves DEF IInv
<1>2. Passes(p, th)
  BY DEF Passes, InBegin, InEnd, ToSettle, Beginning, Ending, Closing, Free, Reports
<1>3. p \in Tokens => workers'[p] \notin {"none", "launching"}
  BY <1>1 DEF ThreadInv, Quiet
<1>4. ThreadInv(p)'
  BY <1>1, <1>3 DEF ThreadInv, Reports
<1> QED BY <1>2, <1>4, QuietStep DEF Quiet, Similar

-----------------------------------------------------------------------------
(* The steps that say nothing new about any verification.                    *)

LEMMA SetLock ==
  ASSUME IInv, NEW t \in Tokens, NEW p \in Threads, Set(t, [actives[t] EXCEPT !.lock = p])
  PROVE  Similar /\ actives'[t].lifecycle = actives[t].lifecycle
         /\ actives'[t].cleanup_status = actives[t].cleanup_status
<1>1. IsVerification(actives[t])
  BY DEF IInv, Types
<1>2. PICK a : a = [actives[t] EXCEPT !.lock = p]
  OBVIOUS
<1>3. IsVerification(a) /\ Alike(actives[t], a) /\ a.lifecycle = actives[t].lifecycle
  BY <1>1, <1>2 DEF IsVerification, Alike
<1> QED BY <1>2, <1>3, AlikePut DEF Alike

LEMMA SetUnlocked ==
  ASSUME IInv, NEW p \in Threads, T(p) \in Tokens, Set(T(p), Unlocked(p))
  PROVE  Similar
<1>1. IsVerification(Active(p))
  BY DEF IInv, Types
<1>2. PICK a : a = Unlocked(p)
  OBVIOUS
<1>3. IsVerification(a) /\ Alike(Active(p), a)
  BY <1>1, <1>2, UnlockedAlike
<1> QED BY <1>2, <1>3, AlikePut

\* The end of a call about a verification.
LEMMA ReturnedStep ==
  ASSUME IInv, NEW p \in Threads, Returned(p), Quiet, Leaves(p), threads[p].pc \notin Free
  PROVE  IInv'
<1>1. Types /\ T(p) \in Tokens
  BY AtWork
<1>2. PICK th : Moves(p, th) /\ IdleLike(th)
  BY <1>1, ReturnedMoves
<1> QED BY <1>2, QuietLeave

LEMMA IdleStep ==
  ASSUME IInv, NEW p \in Threads, threads' = [threads EXCEPT ![p] = Idle], Quiet, Leaves(p)
  PROVE  IInv'
BY IdleFacts, QuietLeave DEF Moves

LEMMA StartQuiet ==
  ASSUME IInv, NEW p \in Threads, start(p) \/ navigate(p)
  PROVE  IInv'
<1>1. Quiet
  BY AlikeSame DEF start, navigate, Quiet, sessionVars
<1>2. PICK pc \in {"navigate", "activate", "begin_failed"} : Goto(p, pc)
  BY DEF start, navigate
<1>3. ~ threads[p].retries
  BY AtWork DEF start, navigate, Sound, Free, Closing
<1>4. Continues(p, pc)
  BY <1>3 DEF start, navigate, Continues, Registered, Stopping, Ending, Closing, Reports
<1> QED BY <1>1, <1>2, <1>4, QuietGoto

LEMMA ActivateQuiet ==
  ASSUME IInv, NEW p \in Threads, activate(p)
  PROVE  IInv'
<1>1. /\ T(p) \in Tokens /\ IsVerification(Active(p))
      /\ threads[p].pc = "activate" /\ ~ threads[p].retries
  BY AtWork DEF activate, Free, Sound, Closing
<1>2. CASE Lifecycle(p) = "pending"
  <2>1. PICK a : a = [Active(p) EXCEPT !.lifecycle = "active", !.told = TRUE]
    OBVIOUS
  <2>2. IsVerification(a) /\ Alike(Active(p), a)
    BY <1>1, <1>2, <2>1 DEF IsVerification, Alike, Lifecycles, Live
  <2>3. Set(T(p), a)
    BY <1>2, <2>1 DEF activate
  <2>4. Similar
    BY <1>1, <2>2, <2>3, AlikePut
  <2>5. Quiet
    BY <2>4 DEF activate, Quiet, sessionVars
  <2> QED BY <1>1, <1>2, <2>5, IdleStep DEF activate, Leaves, Beginning, Ending, Closing, Reports
<1>3. CASE Lifecycle(p) # "pending"
  <2>1. Quiet
    BY <1>3, AlikeSame DEF activate, Quiet, sessionVars
  <2>2. Goto(p, "begin_failed") /\ Continues(p, "begin_failed")
    BY <1>1, <1>3 DEF activate, Continues, Registered, Stopping, Ending, Closing, Reports
  <2> QED BY <2>1, <2>2, QuietGoto
<1> QED BY <1>2, <1>3

LEMMA BeginFailedQuiet ==
  ASSUME IInv, NEW p \in Threads, begin_failed(p)
  PROVE  IInv'
<1>1. /\ T(p) \in Tokens /\ IsVerification(Active(p)) /\ Sound(threads[p]) /\ threads[p] \in Thread
      /\ threads[p].pc = "begin_failed" /\ ~ threads[p].retries /\ ~ threads[p].broken
  BY AtWork DEF begin_failed, Free, Sound, Closing
<1>2. CASE Active(p).registered /\ ~ Active(p).failed /\ Lifecycle(p) \in {"pending", "active"}
  <2>1. Quiet /\ actives' = actives
    BY <1>2, AlikeSame DEF begin_failed, Quiet, sessionVars
  <2>2. PICK th : th = [threads[p] EXCEPT !.pc = "finish", !.status = "failed"]
    OBVIOUS
  <2>3. /\ th \in Thread /\ th.pc = "finish" /\ th.token = T(p) /\ th.status = "failed"
        /\ ~ th.retries /\ ~ th.broken
    BY <1>1, <2>2 DEF Thread, Ways, Registered, Stopping
  <2>4. Moves(p, th)
    <3>1. threads \in [Threads -> Thread]
      BY DEF IInv, Types
    <3>2. threads' = [threads EXCEPT ![p] = th]
      BY <1>2, <2>2, <3>1 DEF begin_failed
    <3> QED BY <2>3, <3>2 DEF Moves
  <2>5. Sound(th)
    BY <1>1, <2>3 DEF Sound, InBegin, Beginning, Ways, NONE
  <2>6. Fits(th, actives'[th.token])
    BY <1>2, <2>1, <2>3 DEF Fits, InBegin, InEnd, Beginning, Ending, Closing, Live
  <2> QED BY <1>1, <2>1, <2>3, <2>4, <2>5, <2>6, QuietTurn
<1>3. CASE ~ (Active(p).registered /\ ~ Active(p).failed /\ Lifecycle(p) \in {"pending", "active"})
  <2>1. PICK a : a = [Active(p) EXCEPT !.told = @ \/ Active(p).failed]
    OBVIOUS
  <2>2. IsVerification(a) /\ Alike(Active(p), a)
    BY <1>1, <2>1 DEF IsVerification, Alike
  <2>3. Set(T(p), a)
    BY <1>3, <2>1 DEF begin_failed
  <2>4. Similar
    BY <1>1, <2>2, <2>3, AlikePut
  <2>5. Quiet
    BY <2>4 DEF begin_failed, Quiet, sessionVars
  <2> QED BY <1>1, <1>3, <2>5, IdleStep DEF begin_failed, Leaves, Beginning, Ending, Closing, Reports
<1> QED BY <1>2, <1>3

\* After a sweep there is the verification to begin.
LEMMA AfterSweepIdle ==
  ASSUME NEW old \in Thread
  PROVE  IdleLike(AfterSweep(old))
<1>1. CASE old.begins
  <2>1. AfterSweep(old) = [Idle EXCEPT !.pc = "begin"]
    BY <1>1 DEF AfterSweep
  <2> QED BY <2>1, IdleFacts DEF IdleLike, Idle, Thread, Free
<1>2. CASE ~ old.begins
  BY <1>2, IdleFacts DEF AfterSweep
<1> QED BY <1>1, <1>2

LEMMA SweepQuiet ==
  ASSUME IInv, NEW p \in Threads, expire_sweep_lists(p) \/ expire_sweep(p)
  PROVE  IInv'
<1>1. /\ threads \in [Threads -> Thread] /\ threads[p] \in Thread
      /\ threads[p].pc \in {"list", "sweep"} /\ ThreadInv(p)
  BY DEF IInv, Types, expire_sweep_lists, expire_sweep
<1>2. ~ threads[p].retries /\ ~ threads[p].broken /\ (threads[p].consumed => threads[p].status # "completed")
  BY <1>1 DEF ThreadInv, Sound, Closing
<1>3. Leaves(p) /\ threads[p].pc \in Free
  BY <1>1 DEF Leaves, Beginning, Ending, Closing, Reports, Free
<1>4. ASSUME NEW todo \in SUBSET Tokens, UNCHANGED actives, Quiet,
             threads' = [threads EXCEPT ![p] = [threads[p] EXCEPT !.pc = "sweep", !.todo = todo]]
      PROVE  IInv'
  <2>1. PICK th : th = [threads[p] EXCEPT !.pc = "sweep", !.todo = todo]
    OBVIOUS
  <2>2. IdleLike(th) /\ th \in Thread
    BY <1>1, <1>2, <2>1 DEF Thread, IdleLike, Free
  <2> QED BY <1>3, <1>4, <2>1, <2>2, QuietLeave DEF Moves
<1>5. ASSUME Quiet, threads' = [threads EXCEPT ![p] = AfterSweep(threads[p])]
      PROVE  IInv'
  BY <1>1, <1>3, <1>5, AfterSweepIdle, QuietLeave DEF Moves, IdleLike
<1>6. CASE expire_sweep_lists(p)
  <2>1. Quiet
    BY <1>6, AlikeSame DEF expire_sweep_lists, Quiet, sessionVars
  <2> DEFINE due == {t \in Tokens : actives[t].registered /\ actives[t].lifecycle = "active" /\ actives[t].due}
  <2>2. CASE due = {}
    BY <1>1, <1>5, <1>6, <2>1, <2>2 DEF expire_sweep_lists
  <2>3. CASE due # {}
    BY <1>1, <1>4, <1>6, <2>1, <2>3 DEF expire_sweep_lists
  <2> QED BY <2>2, <2>3
<1>7. ASSUME NEW t \in threads[p].todo, actives[t].lock = Nobody, actives[t].registered,
             Set(t, [actives[t] EXCEPT !.lock = p]), UNCHANGED <<sessionVars, workers, terminal, ledger, repairs, fetches, reserved>>,
             threads' = [threads EXCEPT ![p] =
               [threads[p] EXCEPT !.pc = "finish", !.token = t, !.status = "timed_out",
                                  !.consumed = TRUE, !.todo = threads[p].todo \ {t}]]
      PROVE  IInv'
  <2>1. t \in Tokens /\ threads[p].todo \in SUBSET Tokens
    BY <1>1 DEF Thread
  <2>2. Similar /\ actives'[t].lifecycle = actives[t].lifecycle
    BY <1>7, <2>1, SetLock
  <2>3. Quiet
    BY <1>7, <2>2 DEF Quiet, sessionVars
  <2>4. PICK th : th = [threads[p] EXCEPT !.pc = "finish", !.token = t, !.status = "timed_out",
                                          !.consumed = TRUE, !.todo = @ \ {t}]
    OBVIOUS
  <2>5. /\ th \in Thread /\ th.pc = "finish" /\ th.token = t /\ th.status = "timed_out"
        /\ ~ th.retries /\ ~ th.broken
    BY <1>1, <1>2, <2>1, <2>4 DEF Thread, Ways, Registered, Stopping
  <2>6. Moves(p, th)
    BY <1>7, <2>4, <2>5 DEF Moves
  <2>7. Sound(th)
    BY <2>1, <2>5 DEF Sound, InBegin, Beginning, NONE
  <2>8. actives[t].lifecycle \in Live
    BY <1>7, <2>1 DEF IInv, TokenInv, Shaped
  <2>9. Fits(th, actives'[th.token])
    BY <2>2, <2>5, <2>8 DEF Fits, InBegin, InEnd, Beginning, Ending, Closing
  <2> QED BY <1>1, <1>3, <2>3, <2>5, <2>6, <2>7, <2>9, QuietTurn
<1>8. ASSUME expire_sweep(p), UNCHANGED actives PROVE Quiet
  BY <1>8, AlikeSame DEF expire_sweep, Quiet, sessionVars
<1>9. CASE expire_sweep(p)
  <2>1. ASSUME NEW t \in threads[p].todo, actives[t].lock = Nobody /\ actives[t].registered,
               Set(t, [actives[t] EXCEPT !.lock = p]),
               threads' = [threads EXCEPT ![p] = [@ EXCEPT !.pc = "finish", !.token = t, !.status = "timed_out",
                                                           !.consumed = TRUE, !.todo = threads[p].todo \ {t}]]
        PROVE  IInv'
    <3>1. UNCHANGED <<sessionVars, workers, terminal, ledger, repairs, fetches, reserved>>
      BY <1>9 DEF expire_sweep
    <3>2. threads' = [threads EXCEPT ![p] =
            [threads[p] EXCEPT !.pc = "finish", !.token = t, !.status = "timed_out",
                               !.consumed = TRUE, !.todo = threads[p].todo \ {t}]]
      BY <1>1, <2>1
    <3> QED BY <1>7, <2>1, <3>1, <3>2
  <2>2. ASSUME NEW t \in threads[p].todo, threads' = [threads EXCEPT ![p].todo = @ \ {t}], UNCHANGED actives
        PROVE  IInv'
    <3>1. threads[p].pc = "sweep" /\ threads[p].todo \ {t} \in SUBSET Tokens
      BY <1>1, <1>9 DEF expire_sweep, Thread
    <3>2. [threads[p] EXCEPT !.todo = @ \ {t}] = [threads[p] EXCEPT !.pc = "sweep", !.todo = threads[p].todo \ {t}]
      BY <1>1, <3>1 DEF Thread
    <3>3. threads' = [threads EXCEPT ![p] = [threads[p] EXCEPT !.pc = "sweep", !.todo = threads[p].todo \ {t}]]
      BY <2>2, <3>2
    <3> QED BY <1>4, <1>8, <1>9, <2>2, <3>1, <3>3
  <2>3. ASSUME threads' = [threads EXCEPT ![p] = AfterSweep(@)], UNCHANGED actives PROVE IInv'
    BY <1>1, <1>5, <1>8, <1>9, <2>3
  <2> QED BY <1>9, <2>1, <2>2, <2>3 DEF expire_sweep
<1> QED BY <1>6, <1>9

\* There is no place, or no other verification.
LEMMA BeginQuiet ==
  ASSUME IInv, NEW p \in Threads, begin(p), threads' = [threads EXCEPT ![p] = Idle], UNCHANGED <<actives, reserved>>
  PROVE  IInv'
<1>1. Quiet
  BY AlikeSame DEF begin, Quiet, sessionVars
<1> QED BY <1>1, IdleStep DEF begin, Leaves, Beginning, Ending, Closing, Reports

\* What is known of a thread at work on its verification.
LEMMA Working ==
  ASSUME IInv, NEW p \in Threads, threads[p].pc \notin Free
  PROVE  /\ T(p) \in Tokens /\ IsVerification(Active(p)) /\ Types /\ threads[p] \in Thread
         /\ threads \in [Threads -> Thread]
         /\ ThreadInv(p) /\ Sound(threads[p]) /\ Fits(threads[p], Active(p))
         /\ threads[p].pc \notin Closing \cup {"retry"} => ~ threads[p].retries
         /\ threads[p].pc \notin {"ledger", "store"} => ~ threads[p].broken
BY AtWork DEF IInv, Types, Sound

LEMMA FinishQuiet ==
  ASSUME IInv, NEW p \in Threads, _finish(p), Lifecycle(p) \in {"terminating", "quarantined", "released"}
  PROVE  IInv'
<1>1. threads[p].pc = "finish"
  BY DEF _finish
<1>2. T(p) \in Tokens /\ ~ threads[p].retries
  BY <1>1, Working DEF Free, Closing
<1>3. UNCHANGED <<workers, terminal, ledger, repairs, holder, fetches, reserved>>
  BY DEF _finish, sessionVars
<1>4. CASE Returns(p)
  <2>1. Quiet
    BY <1>2, <1>3, <1>4, SetUnlocked DEF Returns, Quiet
  <2> QED BY <1>1, <1>4, <2>1, ReturnedStep DEF Returns, Leaves, Beginning, Ending, Closing, Reports, Free
<1>5. CASE Goto(p, "wait") /\ UNCHANGED actives
  <2>1. Quiet
    BY <1>3, <1>5, AlikeSame DEF Quiet
  <2>2. Continues(p, "wait")
    BY <1>1, <1>2 DEF Continues, Registered, Stopping, Ending, Closing, Reports
  <2> QED BY <1>5, <2>1, <2>2, QuietGoto
<1> QED BY <1>4, <1>5 DEF _finish

LEMMA WaitQuiet ==
  ASSUME IInv, NEW p \in Threads, wait(p)
  PROVE  IInv'
<1>1. threads[p].pc = "wait"
  BY DEF wait
<1>2. T(p) \in Tokens
  BY <1>1, Working DEF Free
<1>3. Set(T(p), Unlocked(p))
  BY DEF wait, Returns
<1>4. Quiet
  BY <1>2, <1>3, SetUnlocked DEF wait, Quiet, sessionVars
<1>5. Leaves(p) /\ threads[p].pc \notin Free
  BY <1>1 DEF Leaves, Beginning, Ending, Closing, Reports, Free
<1>6. Returned(p) \/ threads' = [threads EXCEPT ![p] = Idle]
  BY DEF wait, Returns
<1> QED BY <1>4, <1>5, <1>6, ReturnedStep, IdleStep

LEMMA CloseQuiet ==
  ASSUME IInv, NEW p \in Threads,
         \/ close_worker(p)
         \/ worker_closes(p) /\ UNCHANGED workers
         \/ marks_stale(p)
  PROVE  IInv'
<1>1. threads[p].pc \in {"close", "closing", "stale"} /\ threads[p].pc \notin Free
  BY DEF close_worker, worker_closes, marks_stale, Free
<1>2. threads[p].pc = "stale" => ~ threads[p].retries
  BY <1>1, Working DEF Closing
<1>3. Quiet
  BY AlikeSame DEF close_worker, worker_closes, marks_stale, mark_stale, Quiet, sessionVars
<1>4. PICK pc \in {"close_lease", "quarantine", "closing"} : Goto(p, pc)
  BY DEF close_worker, worker_closes, marks_stale
<1>5. Continues(p, pc)
  BY <1>1, <1>2 DEF Continues, Registered, Stopping, Ending, Closing, Reports
<1> QED BY <1>3, <1>4, <1>5, QuietGoto

\* The lease is closed already, or cannot be.
LEMMA CloseLeaseQuiet ==
  ASSUME IInv, NEW p \in Threads, close_lease(p), UNCHANGED holder,
         Goto(p, "quarantine") \/ (Goto(p, "commit") /\ holder[Active(p).domain] # T(p))
  PROVE  IInv'
<1>1. threads[p].pc = "close_lease" /\ T(p) \in Tokens
  BY Working DEF close_lease, Free
<1>2. Quiet
  BY AlikeSame DEF close_lease, Quiet, sessionVars
<1>3. CASE Goto(p, "quarantine")
  <2>1. Continues(p, "quarantine")
    BY <1>1 DEF Continues, Registered, Stopping, Ending, Closing, Reports
  <2> QED BY <1>2, <1>3, <2>1, QuietGoto
<1>4. CASE Goto(p, "commit") /\ holder[Active(p).domain] # T(p)
  <2>1. \A d \in Domains : holder[d] # T(p)
    BY <1>1, <1>4 DEF IInv, LeaseInv
  <2>2. Continues(p, "commit")
    BY <1>1, <2>1 DEF Continues, Registered, Stopping, Ending, Closing, Reports
  <2> QED BY <1>2, <1>4, <2>2, QuietGoto
<1> QED BY <1>3, <1>4

\* A clean-up that fails once more.
LEMMA QuarantineQuiet ==
  ASSUME IInv, NEW p \in Threads, _quarantine(p), threads[p].retries
  PROVE  IInv'
<1>1. threads[p].pc = "quarantine" /\ T(p) \in Tokens
  BY Working DEF _quarantine, Free
<1>2. Returned(p) /\ Set(T(p), Unlocked(p))
  BY DEF _quarantine, Returns
<1>3. Quiet
  BY <1>1, <1>2, SetUnlocked DEF _quarantine, Quiet, sessionVars
<1> QED BY <1>1, <1>2, <1>3, ReturnedStep DEF Leaves, Beginning, Ending, Closing, Reports, Free

LEMMA RetryLocksQuiet ==
  ASSUME IInv, NEW p \in Threads, retry_locks(p)
  PROVE  IInv'
<1>1. threads[p].pc = "retry" /\ T(p) \in Tokens /\ threads[p].retries
  BY Working DEF retry_locks, Free, Sound
<1>2. Quiet
  BY <1>1, SetLock DEF retry_locks, Quiet, sessionVars
<1>3. Continues(p, "close")
  BY <1>1 DEF Continues, Registered, Stopping, Ending, Closing, Reports
<1> QED BY <1>2, <1>3, QuietGoto DEF retry_locks

\* A thread that goes on to end its verification, with a status.
LEMMA TurnsTo ==
  ASSUME IInv, NEW p \in Threads, threads[p].pc \in {"look", "look_failed"}, Quiet,
         NEW th, th \in Thread, threads' = [threads EXCEPT ![p] = th],
         th.pc \in {"finish", "crash"}, th.token = T(p), th.status \in Ways,
         th.consumed \/ th.pc = "crash" => th.status # "completed", ~ th.retries, ~ th.broken
  PROVE  IInv'
<1>1. T(p) \in Tokens /\ Fits(threads[p], Active(p)) /\ ThreadInv(p)
  BY Working DEF Free
<1>2. Active(p).lifecycle \in Live \cup {"released"} /\ p \notin Tokens
  BY <1>1 DEF Fits, Registered, Stopping, ThreadInv
<1>3. actives'[T(p)].lifecycle \in Live \cup {"released"}
  BY <1>1, <1>2 DEF Quiet, Similar, Alike, Live
<1>4. Sound(th)
  BY <1>1 DEF Sound, InBegin, Beginning, Reports, Ways, NONE
<1>5. Fits(th, actives'[th.token])
  BY <1>3 DEF Fits, InBegin, InEnd, Beginning, Ending, Closing
<1>6. p \notin Tokens
  BY <1>2
<1>7. Moves(p, th)
  BY DEF Moves
<1> QED BY <1>4, <1>5, <1>6, <1>7, QuietTurn

LEMMA FinishesStep ==
  ASSUME IInv, NEW p \in Threads, threads[p].pc \in {"look", "look_failed"}, Quiet,
         NEW status \in Ways, Finishes(p, status)
  PROVE  IInv'
<1>1. threads[p] \in Thread /\ threads \in [Threads -> Thread] /\ ~ threads[p].retries /\ ~ threads[p].broken
  BY Working DEF Free, Closing
<1>2. PICK th : th = [threads[p] EXCEPT !.pc = "finish", !.status = status, !.consumed = status # "completed"]
  OBVIOUS
<1>3. /\ th \in Thread /\ th.pc = "finish" /\ th.token = T(p) /\ th.status = status
      /\ th.consumed = (status # "completed") /\ ~ th.retries /\ ~ th.broken
  BY <1>1, <1>2 DEF Thread, Registered, Stopping
<1>4. threads' = [threads EXCEPT ![p] = th]
  BY <1>1, <1>2 DEF Finishes
<1> QED BY <1>3, <1>4, TurnsTo

LEMMA LookQuiet ==
  ASSUME IInv, NEW p \in Threads, look(p)
  PROVE  IInv'
<1>1. /\ threads[p].pc = "look" /\ T(p) \in Tokens /\ IsVerification(Active(p))
      /\ ~ threads[p].retries /\ MaxAttempts \in Nat
  BY Working, CoordinatorAssumption DEF look, Free, Closing
<1>2. ASSUME UNCHANGED actives PROVE Quiet
  BY <1>2, AlikeSame DEF look, Quiet, sessionVars
<1>3. ASSUME NEW a, Set(T(p), a), IsVerification(a), Alike(Active(p), a) PROVE Quiet
  BY <1>1, <1>3, AlikePut DEF look, Quiet
<1>4. ASSUME NEW a, a = [Unlocked(p) EXCEPT !.attempt = @ + 1] PROVE IsVerification(a) /\ Alike(Active(p), a)
  <2>1. PICK b : b = Unlocked(p)
    OBVIOUS
  <2>2. IsVerification(b) /\ Alike(Active(p), b)
    BY <1>1, <2>1, UnlockedAlike
  <2> QED BY <1>4, <2>1, <2>2 DEF IsVerification, Alike
<1>5. ASSUME NEW a, a = [Active(p) EXCEPT !.attempt = @ + 1] PROVE IsVerification(a) /\ Alike(Active(p), a)
  BY <1>1, <1>5 DEF IsVerification, Alike
<1>6. CASE Finishes(p, "timed_out") /\ UNCHANGED actives
  BY <1>1, <1>2, <1>6, FinishesStep DEF Ways
<1>7. CASE Finishes(p, "completed") /\ UNCHANGED actives
  BY <1>1, <1>2, <1>7, FinishesStep DEF Ways
<1>8. CASE Set(T(p), [Unlocked(p) EXCEPT !.attempt = @ + 1]) /\ Returned(p)
  <2>1. Quiet
    BY <1>3, <1>4, <1>8
  <2> QED BY <1>1, <1>8, <2>1, ReturnedStep DEF Leaves, Beginning, Ending, Closing, Reports, Free
<1>9. CASE Set(T(p), [Active(p) EXCEPT !.attempt = @ + 1]) /\ Finishes(p, "failed")
  <2>1. Quiet
    BY <1>3, <1>5, <1>9
  <2> QED BY <1>1, <1>9, <2>1, FinishesStep DEF Ways
<1>10. CASE Goto(p, "look_failed") /\ UNCHANGED actives
  <2>1. Continues(p, "look_failed")
    BY <1>1 DEF Continues, Registered, Stopping, Ending, Closing, Reports
  <2> QED BY <1>2, <1>10, <2>1, QuietGoto
<1> QED BY <1>6, <1>7, <1>8, <1>9, <1>10 DEF look

LEMMA WorkerFailureQuiet ==
  ASSUME IInv, NEW p \in Threads, _handle_worker_failure(p)
  PROVE  IInv'
<1>1. /\ threads[p].pc = "look_failed" /\ T(p) \in Tokens /\ Types /\ threads[p] \in Thread
      /\ ~ threads[p].retries /\ ~ threads[p].broken
  BY Working DEF _handle_worker_failure, Free, Closing
<1>2. ASSUME UNCHANGED actives PROVE Quiet
  BY <1>2, AlikeSame DEF _handle_worker_failure, Quiet, sessionVars
<1>3. CASE Returns(p)
  <2>1. Quiet
    BY <1>1, <1>3, SetUnlocked DEF _handle_worker_failure, Returns, Quiet, sessionVars
  <2> QED BY <1>1, <1>3, <2>1, ReturnedStep DEF Returns, Leaves, Beginning, Ending, Closing, Reports, Free
<1>4. CASE Goto(p, "wait") /\ UNCHANGED actives
  <2>1. Continues(p, "wait")
    BY <1>1 DEF Continues, Registered, Stopping, Ending, Closing, Reports
  <2> QED BY <1>2, <1>4, <2>1, QuietGoto
<1>5. CASE Finishes(p, "failed") /\ UNCHANGED actives
  BY <1>1, <1>2, <1>5, FinishesStep DEF Ways
<1>6. CASE threads' = [threads EXCEPT ![p].pc = "crash", ![p].status = "failed"] /\ UNCHANGED actives
  <2>1. PICK th : th = [threads[p] EXCEPT !.pc = "crash", !.status = "failed"]
    OBVIOUS
  <2>2. /\ th \in Thread /\ th.pc = "crash" /\ th.token = T(p) /\ th.status = "failed"
        /\ ~ th.retries /\ ~ th.broken
    BY <1>1, <2>1 DEF Thread, Ways, Registered, Stopping, Reports
  <2>3. threads' = [threads EXCEPT ![p] = th]
    BY <1>1, <1>6, <2>1 DEF Types
  <2> QED BY <1>1, <1>2, <1>6, <2>2, <2>3, TurnsTo DEF Ways
<1> QED BY <1>3, <1>4, <1>5, <1>6 DEF _handle_worker_failure

\* The browser's thread, or a client, finds that the verification has ended.
LEMMA WorkerTerminalQuiet ==
  ASSUME IInv, NEW p \in Threads, _worker_terminal(p),
         ~ Active(p).registered \/ Lifecycle(p) \in {"terminating", "quarantined", "released"}
  PROVE  IInv'
<1>1. threads[p].pc \in Reports
  BY DEF _worker_terminal, Reports
<1>2. threads[p].pc \notin Free \cup Closing \cup {"retry"}
  BY <1>1 DEF Reports, Free, Closing
<1>3. T(p) \in Tokens /\ ~ threads[p].retries
  BY <1>2, Working
<1>4. Lifecycle(p) \notin {"pending", "active"}
  BY <1>3 DEF IInv, TokenInv, Shaped, Live
<1>5. Quiet
  BY AlikeSame DEF _worker_terminal, Quiet, sessionVars
<1>6. CASE p \in Tokens
  <2>1. threads' = [threads EXCEPT ![p] = Idle]
    BY <1>6 DEF _worker_terminal
  <2>2. Leaves(p)
    BY <1>1, <1>4 DEF Leaves, Beginning, Ending, Closing, Reports
  <2> QED BY <1>5, <2>1, <2>2, IdleStep
<1>7. CASE p \notin Tokens
  <2>1. Goto(p, "wait")
    BY <1>7 DEF _worker_terminal
  <2>2. Continues(p, "wait")
    BY <1>1, <1>3, <1>4 DEF Continues, Registered, Stopping, Ending, Closing, Reports
  <2> QED BY <1>5, <2>1, <2>2, QuietGoto
<1> QED BY <1>6, <1>7

\* A client takes the lock of a verification that is there.
LEMMA ClientStarts ==
  ASSUME IInv, NEW p \in Clients, NEW t \in Tokens, continue_verification(p, t) \/ cancel(p, t)
  PROVE  IInv'
<1>1. p \in Threads /\ p \notin Tokens /\ threads[p].pc = "idle"
  BY CoordinatorAssumption DEF Threads, continue_verification, cancel, Starts
<1>2. PICK pc \in {"finish", "look"}, status \in {"timed_out", "cancelled"} :
        threads' = [threads EXCEPT ![p] = [Idle EXCEPT !.token = t, !.pc = pc, !.status = status, !.consumed = TRUE]]
  BY DEF continue_verification, cancel, Starts
<1>3. PICK th : th = [Idle EXCEPT !.token = t, !.pc = pc, !.status = status, !.consumed = TRUE]
  OBVIOUS
<1>4. /\ th \in Thread /\ th.pc = pc /\ th.token = t /\ th.status = status
      /\ ~ th.retries /\ ~ th.broken
  BY <1>3 DEF Idle, Thread, Ways, Registered, Stopping
<1>5. Similar /\ actives'[t].lifecycle = actives[t].lifecycle
  BY <1>1, SetLock DEF continue_verification, cancel
<1>6. Quiet
  BY <1>5 DEF continue_verification, cancel, Quiet, sessionVars
<1>7. actives[t].lifecycle \in Live
  BY DEF continue_verification, cancel, Live
<1>8. Fits(th, actives'[th.token])
  BY <1>4, <1>5, <1>7 DEF Fits, InBegin, InEnd, Beginning, Ending, Closing
<1>9. Sound(th)
  BY <1>4 DEF Sound, InBegin, Beginning, NONE
<1>10. Moves(p, th)
  BY <1>2, <1>3, <1>4 DEF Moves
<1> QED BY <1>1, <1>4, <1>6, <1>8, <1>9, <1>10, QuietTurn DEF Free

LEMMA CleanUpStarts ==
  ASSUME IInv, NEW p \in Clients, NEW t \in Tokens, retry_cleanup(p, t)
  PROVE  IInv'
<1>1. p \in Threads /\ p \notin Tokens /\ threads[p].pc = "idle"
  BY CoordinatorAssumption DEF Threads, retry_cleanup, Starts
<1>2. terminal[t] \in Told /\ IsVerification(actives[t]) /\ Shaped(actives[t])
  BY DEF IInv, Types, TokenInv
<1>3. PICK consumed \in BOOLEAN :
        threads' = [threads EXCEPT ![p] = [Idle EXCEPT !.token = t, !.pc = "retry", !.retries = TRUE,
                                                       !.consumed = consumed]]
  BY <1>2 DEF retry_cleanup, Starts, Told, IsVerification
<1>4. PICK th : th = [Idle EXCEPT !.token = t, !.pc = "retry", !.retries = TRUE, !.consumed = consumed]
  OBVIOUS
<1>5. /\ th \in Thread /\ th.pc = "retry" /\ th.token = t /\ th.retries /\ ~ th.broken
  BY <1>4 DEF Idle, Thread, Ways, Registered
<1>6. Quiet /\ actives' = actives
  BY AlikeSame DEF retry_cleanup, Quiet, sessionVars
<1>7. actives[t].lifecycle \in Over /\ actives[t].lifecycle \in Live /\ actives[t].cleanup_status # NONE
  BY <1>2 DEF retry_cleanup, Shaped, Over, Live
<1>8. Fits(th, actives'[th.token])
  BY <1>5, <1>6, <1>7 DEF Fits, InBegin, InEnd, Beginning, Ending, Closing
<1>9. Sound(th)
  BY <1>5 DEF Sound, Stopping, Closing, Ending, Reports
<1>10. Moves(p, th)
  BY <1>3, <1>4, <1>5 DEF Moves
<1> QED BY <1>1, <1>5, <1>6, <1>8, <1>9, <1>10, QuietTurn DEF Free

\* Whoever administers the store takes no lock and changes no verification.
LEMMA StoreQuiet ==
  ASSUME IInv, UNCHANGED <<coordinatorVars, holder>>
  PROVE  IInv'
<1>1. UNCHANGED <<actives, reserved, workers, terminal, ledger, repairs, fetches, threads, holder>>
  BY DEF coordinatorVars
<1>2. Types' /\ OneOwner' /\ LeaseInv'
  <2>1. Types'
    BY <1>1 DEF IInv, Types
  <2>2. OneOwner'
    BY <1>1 DEF IInv, OneOwner
  <2>3. LeaseInv'
    BY <1>1 DEF IInv, LeaseInv
  <2> QED BY <2>1, <2>2, <2>3
<1>3. CapacityInv'
  <2>1. Reservers' = Reservers /\ _capacity_used' = _capacity_used
    BY <1>1 DEF Reservers, _capacity_used
  <2> QED BY <1>1, <2>1 DEF IInv, CapacityInv
<1>4. \A p \in Threads : ThreadInv(p)'
  BY <1>1 DEF IInv, ThreadInv, NotCompleted
<1>5. \A t \in Tokens : TokenInv(t)'
  BY <1>1 DEF IInv, TokenInv, OutcomeInv, LedgerInv, Consumed, NotCompleted, BrowserInv
<1> QED BY <1>2, <1>3, <1>4, <1>5 DEF IInv

-----------------------------------------------------------------------------
(* A step about one verification.                                            *)

\* It is of the thread p, and about the verification t.
Works(p, t) == T(p) = t \/ threads[p].pc \in Free

Typed ==
  /\ workers \in [Tokens -> {"none", "launching", "open", "dead", "closed", "partial", "expired", "orphan"}]
  /\ terminal \in [Tokens -> Told]
  /\ ledger \in [Tokens -> {"none", "reserved", "used"}]
  /\ repairs \in [Tokens -> {"none", "consumed", "given back"}]
  /\ holder \in [Domains -> Tokens \cup Fetches \cup {Nobody}]

Elsewhere(t) == \A u \in Tokens \ {t} :
  workers'[u] = workers[u] /\ terminal'[u] = terminal[u] /\ ledger'[u] = ledger[u] /\ repairs'[u] = repairs[u]

\* Locks are only given back.
Frees == \A d \in Domains : holder'[d] = holder[d] \/ holder'[d] = Nobody

LEMMA PutAlone ==
  ASSUME IInv, NEW t \in Tokens, NEW a, Puts(t, a)
  PROVE  /\ actives' = [u \in Tokens |-> actives'[u]] /\ \A u \in Tokens : IsVerification(actives'[u])
         /\ actives'[t] = a /\ \A u \in Tokens \ {t} : actives'[u] = actives[u]
BY VerificationPut DEF IInv

LEMMA OneStep ==
  ASSUME IInv, NEW p \in Threads, NEW t \in Tokens, NEW th, NEW a,
         Moves(p, th), Puts(t, a), Works(p, t), Typed', Elsewhere(t), UNCHANGED fetches,
         \A d \in Domains, u \in Tokens \ {t} : holder'[d] = u => holder[d] = u,
         Respects({p}, t), LeaseInv', CapacityInv', ThreadInv(p)', TokenInv(t)',
         Owns(th) => \/ Owns(threads[p]) /\ T(p) = th.token
                     \/ actives[th.token].lifecycle \notin {"starting", "terminating"}
  PROVE  IInv'
<1>1. /\ threads' \in [Threads -> Thread] /\ threads'[p] = th
      /\ \A q \in Threads \ {p} : threads'[q] = threads[q]
  BY ThreadMoves DEF IInv
<1>2. /\ actives' = [u \in Tokens |-> actives'[u]] /\ \A u \in Tokens : IsVerification(actives'[u])
      /\ \A u \in Tokens \ {t} : actives'[u] = actives[u]
  BY PutAlone
<1>3. Types'
  BY <1>1, <1>2 DEF IInv, Types, Typed
<1>4. ASSUME NEW u \in Tokens PROVE Respects({p}, u)
  <2>1. CASE u # t
    BY <1>2, <2>1 DEF Elsewhere, Respects, Follows, NotCompleted
  <2> QED BY <2>1
<1>5. \A q \in Threads : ThreadInv(q)'
  BY <1>1, <1>4, OthersStay
<1>6. OneOwner'
  BY <1>1, OwnersStay
<1>7. ASSUME NEW u \in Tokens PROVE TokenInv(u)'
  <2>1. CASE u # t
    <3>1. Untouched(u)
      BY <1>2, <2>1 DEF Elsewhere, Untouched
    <3>2. p = u /\ threads[p].pc \in Reports => T(p) = u
      BY DEF IInv, ThreadInv
    <3>3. ~ Awaited({p}, u)
      <4>1. CASE T(p) = t
        BY <2>1, <3>2, <4>1 DEF Awaited
      <4>2. CASE threads[p].pc \in Free
        BY <4>2 DEF Awaited, ToSettle, InEnd, Ending, Closing, Reports, Free
      <4> QED BY <4>1, <4>2 DEF Works
    <3> QED BY <1>1, <3>1, <3>3, TokenStays
  <2> QED BY <2>1
<1> QED BY <1>3, <1>5, <1>6, <1>7 DEF IInv

\* The usual case of the leases.
LEMMA LeaseOne ==
  ASSUME IInv, NEW p \in Threads, NEW t \in Tokens, NEW th, NEW a,
         Moves(p, th), Puts(t, a), Works(p, t), UNCHANGED fetches, Frees, KeepsLease({p}, t)
  PROVE  LeaseInv'
<1>1. /\ \A q \in Threads \ {p} : threads'[q] = threads[q]
      /\ \A u \in Tokens \ {t} : actives'[u] = actives[u]
  BY ThreadMoves, PutAlone DEF IInv
<1>2. ASSUME NEW u \in Tokens PROVE KeepsLease({p}, u)
  BY <1>1 DEF KeepsLease, Works, Free
<1> QED BY <1>1, <1>2, LeaseStays DEF Frees

LEMMA MoveAlone ==
  ASSUME IInv, NEW p \in Threads, NEW th, Moves(p, th)
  PROVE  threads'[p] = th /\ \A q \in Threads \ {p} : threads'[q] = threads[q]
BY ThreadMoves DEF IInv

LEMMA ShapedAll ==
  ASSUME IInv, NEW t \in Tokens, NEW a, Puts(t, a), Shaped(a)
  PROVE  \A u \in Tokens : Shaped(actives'[u])
BY PutAlone DEF IInv, TokenInv

\* The places stay as they are.
LEMMA CapacityOne ==
  ASSUME IInv, NEW p \in Threads, NEW t \in Tokens, NEW th, NEW a,
         Moves(p, th), Puts(t, a), Shaped(a), InBegin(th) <=> InBegin(threads[p]), UNCHANGED reserved,
         a.lifecycle \in Live => actives[t].lifecycle \in Live
  PROVE  CapacityInv'
<1>1. \A q \in Threads : InBegin(threads'[q]) <=> InBegin(threads[q])
  BY MoveAlone
<1>2. \A u \in Tokens : actives'[u].lifecycle \in Live => actives[u].lifecycle \in Live
  BY PutAlone
<1> QED BY <1>1, <1>2, ShapedAll, CapacityStays

\* A reservation is given up, or becomes a verification.
LEMMA CapacityGiven ==
  ASSUME IInv, NEW p \in Threads, NEW t \in Tokens, NEW th, NEW a,
         Moves(p, th), Puts(t, a), Shaped(a), InBegin(threads[p]), ~ InBegin(th), reserved' = reserved - 1
  PROVE  CapacityInv'
<1>1. /\ _capacity_used' = Cardinality(InUse') /\ IsFiniteSet(InUse') /\ Cardinality(InUse') \in Nat
  BY ShapedAll, PlacesNext
<1>2. /\ _capacity_used = Cardinality(InUse) /\ IsFiniteSet(InUse) /\ Cardinality(InUse) \in Nat
  BY PlacesShaped
<1>3. InUse' \subseteq InUse \cup {t}
  BY PutAlone DEF InUse
<1>4. Cardinality(InUse') <= Cardinality(InUse) + 1
  <2>1. IsFiniteSet(InUse \cup {t}) /\ Cardinality(InUse \cup {t}) <= Cardinality(InUse) + 1
    <3>1. /\ IsFiniteSet(InUse \cup {t})
          /\ Cardinality(InUse \cup {t}) = IF t \in InUse THEN Cardinality(InUse) ELSE Cardinality(InUse) + 1
      BY <1>2, FS_AddElement
    <3>2. Cardinality(InUse) \in Nat
      BY <1>2
    <3> QED BY <3>1, <3>2
  <2>2. Cardinality(InUse') <= Cardinality(InUse \cup {t})
    BY <1>3, <2>1, FS_Subset
  <2>3. Cardinality(InUse \cup {t}) \in Nat
    BY <2>1, FS_CardinalityType
  <2> QED BY <1>1, <1>2, <2>1, <2>2, <2>3
<1>5. Reservers' = Reservers \ {p} /\ p \in Reservers
  BY MoveAlone DEF Reservers
<1>6. Cardinality(Reservers') = Cardinality(Reservers) - 1
  BY <1>5, ReserversFinite, FS_RemoveElement
<1>7. reserved = Cardinality(Reservers) /\ reserved \in Nat /\ _capacity_used + reserved <= MaxActive
  BY ReserversFinite DEF IInv, CapacityInv
<1>8. MaxActive \in Nat
  BY CoordinatorAssumption
<1>9. _capacity_used' + reserved' <= MaxActive
  BY <1>1, <1>2, <1>4, <1>7, <1>8
<1> QED BY <1>6, <1>7, <1>9 DEF CapacityInv

LEMMA CapacityTaken ==
  ASSUME IInv, NEW p \in Threads, NEW t \in Tokens, NEW th, NEW a,
         Moves(p, th), Puts(t, a), Shaped(a), ~ InBegin(threads[p]), InBegin(th), reserved' = reserved + 1,
         a.lifecycle \notin Live, _capacity_used + reserved < MaxActive
  PROVE  CapacityInv'
<1>1. /\ _capacity_used' = Cardinality(InUse') /\ IsFiniteSet(InUse') /\ Cardinality(InUse') \in Nat
  BY ShapedAll, PlacesNext
<1>2. /\ _capacity_used = Cardinality(InUse) /\ IsFiniteSet(InUse) /\ Cardinality(InUse) \in Nat
  BY PlacesShaped
<1>3. InUse' \subseteq InUse
  BY PutAlone DEF InUse
<1>4. Cardinality(InUse') <= Cardinality(InUse)
  BY <1>2, <1>3, FS_Subset
<1>5. Reservers' = Reservers \cup {p} /\ p \notin Reservers
  BY MoveAlone DEF Reservers
<1>6. Cardinality(Reservers') = Cardinality(Reservers) + 1
  BY <1>5, ReserversFinite, FS_AddElement
<1>7. reserved = Cardinality(Reservers) /\ reserved \in Nat
  BY ReserversFinite DEF IInv, CapacityInv
<1>8. MaxActive \in Nat
  BY CoordinatorAssumption
<1>9. _capacity_used' + reserved' <= MaxActive
  BY <1>1, <1>2, <1>4, <1>7, <1>8
<1> QED BY <1>6, <1>7, <1>9 DEF CapacityInv

-----------------------------------------------------------------------------
(* begin                                                                     *)

\* What holds no lock: a verification before its registration and after its release.
LEMMA Unheld ==
  ASSUME IInv, NEW t \in Tokens, actives[t].lifecycle \notin Live \cup {"starting"}
  PROVE  \A d \in Domains : holder[d] # t
<1>1. ASSUME NEW q \in Threads, T(q) = t, threads[q].pc = "register" PROVE FALSE
  <2>1. Fits(threads[q], Active(q))
    BY <1>1, Working DEF Free
  <2> QED BY <1>1, <2>1 DEF Fits, InBegin, Beginning
<1> QED BY <1>1 DEF IInv, LeaseInv

LEMMA BeginStep ==
  ASSUME IInv, NEW p \in Threads, begin(p)
  PROVE  IInv'
<1>1. CASE threads' = [threads EXCEPT ![p] = Idle] /\ UNCHANGED <<actives, reserved>>
  BY <1>1, BeginQuiet
<1>2. ASSUME NEW t \in NextToken, NEW d \in Domains, _capacity_used + reserved < MaxActive,
             Set(t, [NoActive EXCEPT !.lifecycle = "starting", !.domain = d]),
             threads' = [threads EXCEPT ![p] = [Idle EXCEPT !.pc = "reserve", !.token = t, !.begun = TRUE]],
             reserved' = reserved + 1
      PROVE  IInv'
  <2>1. PICK a : a = [NoActive EXCEPT !.lifecycle = "starting", !.domain = d]
    OBVIOUS
  <2>2. PICK th : th = [Idle EXCEPT !.pc = "reserve", !.token = t, !.begun = TRUE]
    OBVIOUS
  <2>3. t \in Tokens /\ actives[t].lifecycle = "unused" /\ threads[p].pc = "begin"
    BY DEF NextToken, begin
  <2>4. /\ IsVerification(a) /\ Shaped(a) /\ a.lifecycle = "starting" /\ a.cleanup_status = NONE
    BY <2>1 DEF IsVerification, Shaped, NoActive, Lifecycles, Live, Over, Threads
  <2>5. /\ th \in Thread /\ th.pc = "reserve" /\ th.token = t /\ ~ th.consumed /\ ~ th.retries /\ ~ th.broken
    BY <2>2, <2>3 DEF Idle, Thread, Beginning
  <2>6. Moves(p, th) /\ Puts(t, a)
    BY <1>2, <2>1, <2>2, <2>4, <2>5 DEF Moves, Puts, Set
  <2>7. /\ threads'[p] = th /\ actives'[t] = a
        /\ UNCHANGED <<holder, workers, terminal, ledger, repairs, fetches>>
    BY <2>3, <2>6, MoveAlone, PutAlone DEF begin, sessionVars
  <2>8. TokenInv(t) /\ ThreadInv(p) /\ Types
    BY <2>3 DEF IInv
  <2>9. \A e \in Domains : holder[e] # t
    BY <2>3, Unheld DEF Live
  <2>10. Works(p, t) /\ Typed' /\ Elsewhere(t) /\ Frees
    BY <2>3, <2>7, <2>8 DEF Works, Free, Types, Typed, Elsewhere, Frees
  <2>11. Respects({p}, t)
    BY <2>3, <2>7, <2>8 DEF Respects, Follows, TokenInv, Shaped, Over, Live
  <2>12. LeaseInv'
    <3>1. KeepsLease({p}, t)
      BY <2>7, <2>9 DEF KeepsLease
    <3> QED BY <2>3, <2>6, <2>7, <2>10, <3>1, LeaseOne
  <2>13. CapacityInv'
    BY <1>2, <2>3, <2>4, <2>5, <2>6, CapacityTaken DEF InBegin, Beginning, Live
  <2>14. ThreadInv(p)'
    BY <2>3, <2>4, <2>5, <2>7, <2>8
      DEF ThreadInv, Sound, Fits, InBegin, InEnd, TokenInv, LedgerInv, Free, Beginning, Registered, Stopping,
          Ending, Closing, Reports
  <2>15. TokenInv(t)'
    BY <2>3, <2>4, <2>7, <2>8
      DEF TokenInv, OutcomeInv, LedgerInv, Consumed, BrowserInv, Over, Live
  <2>16. Elsewhere(t) /\ \A e \in Domains, u \in Tokens \ {t} : holder'[e] = u => holder[e] = u
    BY <2>7, <2>10
  <2> QED BY <2>3, <2>5, <2>6, <2>7, <2>10, <2>11, <2>12, <2>13, <2>14, <2>15, <2>16, OneStep
<1> QED BY <1>1, <1>2 DEF begin

LEMMA SamePut ==
  ASSUME IInv, NEW t \in Tokens, UNCHANGED actives
  PROVE  Puts(t, actives[t]) /\ actives'[t] = actives[t]
BY DEF IInv, Types, Puts

\* Nobody else is beginning this verification, and its lock is not taken yet.
LEMMA BeginsAlone ==
  ASSUME IInv, NEW p \in Threads, InBegin(threads[p])
  PROVE  /\ T(p) \in Tokens /\ Lifecycle(p) = "starting" /\ Owns(threads[p])
         /\ IsVerification(Active(p)) /\ TokenInv(T(p)) /\ ThreadInv(p) /\ Types /\ threads[p] \in Thread
         /\ ~ threads[p].consumed /\ ~ threads[p].retries /\ ~ threads[p].broken
         /\ \A q \in Threads \ {p} : ~ (Owns(threads[q]) /\ T(q) = T(p))
         /\ threads[p].pc # "register" => \A d \in Domains : holder[d] # T(p)
<1>1. threads[p].pc \notin Free \cup Closing \cup {"retry", "ledger", "store"} /\ threads[p].pc \in Beginning
  BY DEF InBegin, Beginning, Free, Closing
<1>2. /\ T(p) \in Tokens /\ IsVerification(Active(p)) /\ TokenInv(T(p)) /\ ThreadInv(p) /\ Types
      /\ threads[p] \in Thread /\ Sound(threads[p]) /\ Fits(threads[p], Active(p))
      /\ ~ threads[p].retries /\ ~ threads[p].broken
  BY <1>1, Working DEF IInv
<1>3. Lifecycle(p) = "starting" /\ ~ threads[p].consumed /\ Owns(threads[p])
  BY <1>2 DEF Fits, Sound, Owns
<1>4. \A q \in Threads \ {p} : ~ (Owns(threads[q]) /\ T(q) = T(p))
  BY <1>3 DEF IInv, OneOwner
<1>5. ASSUME NEW d \in Domains, holder[d] = T(p) PROVE threads[p].pc = "register"
  <2>1. \E q \in Threads : T(q) = T(p) /\ threads[q].pc = "register"
    BY <1>2, <1>3, <1>5 DEF IInv, LeaseInv, Live
  <2> QED BY <1>4, <2>1 DEF Owns, InBegin, Beginning
<1> QED BY <1>2, <1>3, <1>4, <1>5

\* A verification that is given up before it is there.
LEMMA GoneFacts ==
  IsVerification(Gone) /\ Shaped(Gone) /\ Gone.lifecycle = "gone" /\ Gone.cleanup_status = NONE
BY DEF Gone, NoActive, IsVerification, Shaped, Lifecycles, Live, Over, Threads

LEMMA ReserveStep ==
  ASSUME IInv, NEW p \in Threads, reserve(p)
  PROVE  IInv'
<1>1. threads[p].pc = "reserve" /\ InBegin(threads[p])
  BY DEF reserve, InBegin, Beginning
<1> PICK t \in Tokens : t = T(p)
  BY <1>1, BeginsAlone
<1>2. /\ t \in Tokens /\ actives[t].lifecycle = "starting" /\ Owns(threads[p])
      /\ TokenInv(t) /\ ThreadInv(p) /\ Types /\ threads[p] \in Thread
      /\ ~ threads[p].consumed /\ ~ threads[p].retries /\ ~ threads[p].broken
      /\ \A d \in Domains : holder[d] # t
  BY <1>1, BeginsAlone
<1>3. UNCHANGED <<holder, workers, terminal, repairs, fetches>> /\ Frees /\ Works(p, t)
  BY DEF reserve, sessionVars, Frees, Works
<1>4. t = T(p) /\ \A d \in Domains, u \in Tokens \ {t} : holder'[d] = u => holder[d] = u
  BY <1>3
<1>5. CASE ledger' = [ledger EXCEPT ![t] = "reserved"] /\ Goto(p, "acquire") /\ UNCHANGED <<actives, reserved>>
  <2>1. PICK th : Moves(p, th) /\ GoesOn(th, threads[p], "acquire")
    BY <1>2, <1>5, GotoMoves DEF Pcs, Beginning
  <2>2. PICK a : a = actives[t]
    OBVIOUS
  <2>3. Puts(t, a) /\ actives'[t] = a
    BY <1>2, <1>5, <2>2, SamePut
  <2>4. threads'[p] = th
    BY <2>1, MoveAlone
  <2>5. Typed' /\ Elsewhere(t) /\ ledger'[t] = "reserved"
    BY <1>2, <1>3, <1>5 DEF Types, Typed, Elsewhere
  <2>6. Respects({p}, t)
    BY <1>2, <1>3, <1>4, <2>2, <2>3 DEF Respects, Follows, Owner, Over
  <2>7. LeaseInv'
    <3>1. KeepsLease({p}, t)
      BY <1>2, <1>3 DEF KeepsLease
    <3> QED BY <1>2, <1>3, <2>1, <2>3, <3>1, LeaseOne
  <2>8. CapacityInv'
    BY <1>1, <1>2, <1>5, <2>1, <2>2, <2>3, CapacityOne DEF TokenInv, GoesOn, InBegin, Beginning
  <2>9. ThreadInv(p)'
    <3>1. Sound(th) /\ Fits(th, actives'[T(p)'])
      BY <1>2, <1>4, <2>1, <2>2, <2>3, <2>4
        DEF GoesOn, Sound, Fits, InBegin, InEnd, Free, Beginning, Registered, Stopping, Ending, Closing, Reports
    <3>2. th.pc = "acquire" /\ (p \in Tokens => workers'[p] \notin {"none", "launching"})
      BY <1>1, <1>2, <1>3, <2>1 DEF ThreadInv, GoesOn
    <3> QED BY <2>4, <3>1, <3>2 DEF ThreadInv, Reports
  <2>10. TokenInv(t)'
    BY <1>2, <1>3, <1>4, <2>2, <2>3, <2>5
      DEF TokenInv, OutcomeInv, LedgerInv, Consumed, NotCompleted, BrowserInv, Over, Live
  <2> QED BY <1>2, <1>3, <1>4, <2>1, <2>3, <2>5, <2>6, <2>7, <2>8, <2>9, <2>10, OneStep DEF GoesOn
<1>6. CASE reserved' = reserved - 1 /\ Set(t, Gone) /\ threads' = [threads EXCEPT ![p] = Idle] /\ UNCHANGED ledger
  <2>1. PICK th : th = Idle
    OBVIOUS
  <2>2. PICK a : a = Gone
    OBVIOUS
  <2>3. Moves(p, th) /\ Puts(t, a) /\ th.pc = "idle"
    BY <1>6, <2>1, <2>2, IdleFacts, GoneFacts DEF Moves, Puts, Set
  <2>4. threads'[p] = th /\ actives'[t] = a
    BY <1>2, <2>3, MoveAlone, PutAlone
  <2>5. Typed' /\ Elsewhere(t)
    BY <1>2, <1>3, <1>6 DEF Types, Typed, Elsewhere
  <2>6. Shaped(a) /\ a.lifecycle = "gone" /\ a.cleanup_status = NONE
    BY <2>2, GoneFacts
  <2>7. Respects({p}, t)
    BY <1>2, <1>3, <1>4, <1>6, <2>4, <2>6 DEF Respects, Follows, Owner, TokenInv, Shaped, Over, Live
  <2>8. LeaseInv'
    <3>1. KeepsLease({p}, t)
      BY <1>2, <1>3 DEF KeepsLease
    <3> QED BY <1>2, <1>3, <2>3, <3>1, LeaseOne
  <2>9. CapacityInv'
    BY <1>1, <1>2, <1>6, <2>3, <2>6, CapacityGiven DEF InBegin, Beginning
  <2>10. ThreadInv(p)'
    <3>1. IdleLike(th) /\ th.pc \in Free
      BY <2>1, <2>3, IdleFacts DEF Free
    <3> QED BY <1>2, <2>3, <2>4, <3>1 DEF ThreadInv, Sound, IdleLike, InBegin, Free, Beginning, Stopping, Ending, Closing, Reports
  <2>11. TokenInv(t)'
    <3>1. ledger'[t] = "none"
      BY <1>1, <1>2, <1>4, <1>6 DEF ThreadInv
    <3> QED BY <1>2, <1>3, <1>6, <2>4, <2>6, <3>1
      DEF TokenInv, OutcomeInv, LedgerInv, Consumed, NotCompleted, BrowserInv, Over, Live
  <2>12. ~ Owns(th)
    BY <2>3 DEF Owns, InBegin, InEnd, Beginning, Ending, Closing
  <2> QED BY <1>2, <1>3, <1>4, <2>3, <2>5, <2>7, <2>8, <2>9, <2>10, <2>11, <2>12, OneStep
<1> QED BY <1>5, <1>6 DEF reserve

LEMMA AcquireStep ==
  ASSUME IInv, NEW p \in Threads, begin_acquires(p)
  PROVE  IInv'
<1>1. threads[p].pc = "acquire" /\ InBegin(threads[p])
  BY DEF begin_acquires, InBegin, Beginning
<1> PICK t \in Tokens : t = T(p)
  BY <1>1, BeginsAlone
<1>2. /\ t \in Tokens /\ t = T(p) /\ actives[t].lifecycle = "starting" /\ Owns(threads[p])
      /\ TokenInv(t) /\ ThreadInv(p) /\ Types /\ threads[p] \in Thread /\ IsVerification(actives[t])
      /\ ~ threads[p].consumed /\ ~ threads[p].retries /\ ~ threads[p].broken
      /\ \A d \in Domains : holder[d] # t
      /\ \A q \in Threads \ {p} : ~ (Owns(threads[q]) /\ T(q) = t)
  BY <1>1, BeginsAlone
<1>3. UNCHANGED <<workers, terminal, ledger, repairs, fetches>> /\ Works(p, t) /\ Elsewhere(t)
  BY <1>2 DEF begin_acquires, Works, Elsewhere
<1>4. CASE /\ Acquires(actives[t].domain, t)
           /\ Set(t, [actives[t] EXCEPT !.session = SessionOf(disk', actives[t].domain)])
           /\ Goto(p, "register") /\ UNCHANGED reserved
  <2>1. PICK th : Moves(p, th) /\ GoesOn(th, threads[p], "register")
    BY <1>2, <1>4, GotoMoves DEF Pcs, Beginning
  <2>2. PICK a : a = [actives[t] EXCEPT !.session = SessionOf(disk', actives[t].domain)]
    OBVIOUS
  <2>3. /\ IsVerification(a) /\ a.lifecycle = "starting" /\ a.domain = actives[t].domain
        /\ a.cleanup_status = actives[t].cleanup_status /\ Shaped(a)
    BY <1>2, <2>2 DEF IsVerification, TokenInv, Shaped
  <2>4. Puts(t, a)
    BY <1>4, <2>2, <2>3 DEF Puts, Set
  <2>5. /\ threads'[p] = th /\ actives'[t] = a
        /\ \A q \in Threads \ {p} : threads'[q] = threads[q]
        /\ \A u \in Tokens \ {t} : actives'[u] = actives[u]
    BY <1>2, <2>1, <2>4, MoveAlone, PutAlone
  <2>6. holder' = [holder EXCEPT ![actives[t].domain] = t]
    BY <1>4 DEF Acquires
  <2>7. Typed' /\ \A d \in Domains, u \in Tokens \ {t} : holder'[d] = u => holder[d] = u
    BY <1>2, <1>3, <2>6 DEF Types, Typed
  <2>8. Respects({p}, t)
    BY <1>2, <1>3, <2>3, <2>5 DEF Respects, Follows, Owner, Over, NotCompleted
  <2>9. LeaseInv'
    <3>1. SUFFICES ASSUME NEW d \in Domains
                   PROVE  /\ holder'[d] \in Tokens =>
                               /\ actives'[holder'[d]].domain = d
                               /\ \/ actives'[holder'[d]].lifecycle \in Live
                                  \/ \E q \in Threads : T(q)' = holder'[d] /\ threads'[q].pc = "register"
                          /\ holder'[d] \in Fetches => fetches'[holder'[d]].state \in {"reading", "failed"}
                                                       /\ fetches'[holder'[d]].domain = d
      BY DEF LeaseInv
    <3>2. CASE d = actives[t].domain
      <4>1. holder'[d] = t /\ t \notin Fetches
        BY <1>2, <2>6, <3>2, Names DEF Types
      <4>2. T(p)' = t /\ threads'[p].pc = "register"
        BY <1>2, <2>1, <2>5 DEF GoesOn
      <4> QED BY <2>3, <2>5, <3>2, <4>1, <4>2
    <3>3. CASE d # actives[t].domain
      <4>1. holder'[d] = holder[d] /\ holder[d] # t
        BY <1>2, <2>6, <3>3 DEF Types
      <4>2. /\ holder[d] \in Tokens =>
                 /\ actives[holder[d]].domain = d
                 /\ \/ actives[holder[d]].lifecycle \in Live
                    \/ \E q \in Threads : T(q) = holder[d] /\ threads[q].pc = "register"
            /\ holder[d] \in Fetches => fetches[holder[d]].state \in {"reading", "failed"}
                                         /\ fetches[holder[d]].domain = d
        BY DEF IInv, LeaseInv
      <4>3. ASSUME NEW q \in Threads, T(q) = holder[d], threads[q].pc = "register"
            PROVE  T(q)' = holder[d] /\ threads'[q].pc = "register"
        BY <1>1, <2>5, <4>3
      <4>4. ASSUME NEW u \in Tokens, holder[d] = u
            PROVE  /\ actives'[u].domain = d
                   /\ \/ actives'[u].lifecycle \in Live
                      \/ \E q \in Threads : T(q)' = u /\ threads'[q].pc = "register"
        <5>0. u \in Tokens \ {t}
          BY <4>1, <4>4
        <5>1. actives'[u] = actives[u]
          BY <2>5, <5>0
        <5>2. /\ actives[u].domain = d
              /\ \/ actives[u].lifecycle \in Live
                 \/ \E q \in Threads : T(q) = u /\ threads[q].pc = "register"
          BY <4>2, <4>4
        <5>3. (\E q \in Threads : T(q) = u /\ threads[q].pc = "register") =>
                \E q \in Threads : T(q)' = u /\ threads'[q].pc = "register"
          BY <4>3, <4>4
        <5> QED BY <5>1, <5>2, <5>3
      <4>5. holder[d] \in Fetches => fetches'[holder[d]].state \in {"reading", "failed"}
                                     /\ fetches'[holder[d]].domain = d
        BY <1>3, <4>2
      <4> QED BY <4>1, <4>4, <4>5
    <3> QED BY <3>2, <3>3
  <2>10. CapacityInv'
    BY <1>1, <1>2, <1>4, <2>1, <2>3, <2>4, CapacityOne DEF GoesOn, InBegin, Beginning
  <2>11. ThreadInv(p)'
    <3>1. Sound(th) /\ Fits(th, actives'[T(p)'])
      BY <1>2, <2>1, <2>3, <2>5
        DEF GoesOn, Sound, Fits, InBegin, InEnd, Free, Beginning, Registered, Stopping, Ending, Closing, Reports
    <3>2. th.pc = "register" /\ (p \in Tokens => workers'[p] \notin {"none", "launching"})
      BY <1>1, <1>2, <1>3, <2>1 DEF ThreadInv, GoesOn
    <3> QED BY <2>5, <3>1, <3>2 DEF ThreadInv, Reports
  <2>12. TokenInv(t)'
    BY <1>2, <1>3, <2>3, <2>5
      DEF TokenInv, OutcomeInv, LedgerInv, Consumed, NotCompleted, BrowserInv, Over, Live
  <2> QED BY <1>2, <1>3, <2>1, <2>4, <2>7, <2>8, <2>9, <2>10, <2>11, <2>12, OneStep DEF GoesOn
<1>5. CASE /\ AcquireFails(actives[t].domain) /\ Set(t, Gone) /\ reserved' = reserved - 1 /\ Goto(p, "ledger")
  <2>1. PICK th : Moves(p, th) /\ GoesOn(th, threads[p], "ledger")
    BY <1>2, <1>5, GotoMoves DEF Pcs
  <2>2. PICK a : a = Gone
    OBVIOUS
  <2>3. Puts(t, a)
    BY <1>5, <2>2, GoneFacts DEF Puts, Set
  <2>4. threads'[p] = th /\ actives'[t] = a
    BY <1>2, <2>1, <2>3, MoveAlone, PutAlone
  <2>5. Shaped(a) /\ a.lifecycle = "gone" /\ a.cleanup_status = NONE
    BY <2>2, GoneFacts
  <2>6. UNCHANGED holder
    BY <1>5 DEF AcquireFails, sessionVars
  <2>7. Typed' /\ Frees /\ \A d \in Domains, u \in Tokens \ {t} : holder'[d] = u => holder[d] = u
    BY <1>2, <1>3, <2>6 DEF Types, Typed, Frees
  <2>8. Respects({p}, t)
    BY <1>2, <1>3, <2>4, <2>5, <2>6 DEF Respects, Follows, Owner, TokenInv, Shaped, Over, Live
  <2>9. LeaseInv'
    <3>1. KeepsLease({p}, t)
      BY <1>2, <2>6 DEF KeepsLease
    <3> QED BY <1>2, <1>3, <2>1, <2>3, <2>7, <3>1, LeaseOne
  <2>10. CapacityInv'
    BY <1>1, <1>2, <1>5, <2>1, <2>3, <2>5, CapacityGiven DEF GoesOn, InBegin, Beginning
  <2>11. ThreadInv(p)'
    <3>1. Sound(th) /\ Fits(th, actives'[T(p)'])
      BY <1>2, <2>1, <2>4, <2>5
        DEF GoesOn, Sound, Fits, InBegin, InEnd, Free, Beginning, Registered, Stopping, Ending, Closing, Reports
    <3>2. th.pc = "ledger" /\ (p \in Tokens => workers'[p] \notin {"none", "launching"}) /\ ~ th.consumed
      BY <1>1, <1>2, <1>3, <2>1 DEF ThreadInv, GoesOn
    <3> QED BY <2>4, <3>1, <3>2 DEF ThreadInv, Reports
  <2>12. TokenInv(t)'
    <3>1. LedgerInv(t)'
      <4>1. T(p)' = t /\ ToSettle(threads'[p])
        BY <1>2, <2>1, <2>4 DEF GoesOn, ToSettle
      <4> QED BY <1>2, <1>3, <2>4, <2>5, <4>1 DEF TokenInv, LedgerInv, Consumed, NotCompleted, Over
    <3> QED BY <1>2, <1>3, <2>4, <2>5, <3>1 DEF TokenInv, OutcomeInv, BrowserInv, Over, Live
  <2>13. ~ Owns(th)
    BY <2>1 DEF GoesOn, Owns, InBegin, InEnd, Beginning, Ending, Closing
  <2> QED BY <1>2, <1>3, <2>1, <2>3, <2>7, <2>8, <2>9, <2>10, <2>11, <2>12, <2>13, OneStep
<1>6. \/ /\ Acquires(actives[t].domain, t)
         /\ Set(t, [actives[t] EXCEPT !.session = SessionOf(disk', actives[t].domain)])
         /\ Goto(p, "register") /\ UNCHANGED reserved
      \/ AcquireFails(actives[t].domain) /\ Set(t, Gone) /\ reserved' = reserved - 1 /\ Goto(p, "ledger")
  BY <1>2 DEF begin_acquires
<1> QED BY <1>4, <1>5, <1>6

LEMMA RegisterStep ==
  ASSUME IInv, NEW p \in Threads, register(p)
  PROVE  IInv'
<1>1. threads[p].pc = "register" /\ InBegin(threads[p])
  BY DEF register, InBegin, Beginning
<1> PICK t \in Tokens : t = T(p)
  BY <1>1, BeginsAlone
<1>2. /\ t \in Tokens /\ t = T(p) /\ actives[t].lifecycle = "starting" /\ Owns(threads[p])
      /\ TokenInv(t) /\ ThreadInv(p) /\ Types /\ threads[p] \in Thread /\ IsVerification(actives[t])
      /\ ~ threads[p].consumed /\ ~ threads[p].retries /\ ~ threads[p].broken
  BY <1>1, BeginsAlone
<1>3. /\ UNCHANGED <<terminal, ledger, repairs, fetches, holder>> /\ Works(p, t) /\ Frees
      /\ reserved' = reserved - 1 /\ workers' = [workers EXCEPT ![t] = "launching"]
      /\ Set(t, [actives[t] EXCEPT !.lifecycle = "pending", !.registered = TRUE]) /\ Goto(p, "start")
  BY <1>2 DEF register, sessionVars, Works, Frees
<1>4. PICK th : Moves(p, th) /\ GoesOn(th, threads[p], "start")
  BY <1>2, <1>3, GotoMoves DEF Pcs, Registered
<1>5. PICK a : a = [actives[t] EXCEPT !.lifecycle = "pending", !.registered = TRUE]
  OBVIOUS
<1>6. /\ IsVerification(a) /\ a.lifecycle = "pending" /\ a.domain = actives[t].domain
      /\ a.cleanup_status = NONE /\ actives[t].cleanup_status = NONE /\ Shaped(a)
  BY <1>2, <1>5 DEF IsVerification, TokenInv, Shaped, Lifecycles, Live, Over
<1>7. Puts(t, a)
  BY <1>3, <1>5, <1>6 DEF Puts, Set
<1>8. threads'[p] = th /\ actives'[t] = a
  BY <1>2, <1>4, <1>7, MoveAlone, PutAlone
<1>9. workers[t] = "none" /\ workers'[t] = "launching"
  BY <1>2, <1>3 DEF TokenInv, BrowserInv, Live, Types
<1>10. Typed' /\ Elsewhere(t) /\ \A d \in Domains, u \in Tokens \ {t} : holder'[d] = u => holder[d] = u
  BY <1>2, <1>3 DEF Types, Typed, Elsewhere
<1>11. Respects({p}, t)
  BY <1>2, <1>3, <1>6, <1>8, <1>9 DEF Respects, Follows, Owner, Over, Live
<1>12. LeaseInv'
  <2>1. KeepsLease({p}, t)
    BY <1>6, <1>8 DEF KeepsLease, Live
  <2> QED BY <1>2, <1>3, <1>4, <1>7, <2>1, LeaseOne
<1>13. CapacityInv'
  BY <1>1, <1>2, <1>3, <1>4, <1>6, <1>7, CapacityGiven DEF GoesOn, InBegin, Beginning
<1>14. ThreadInv(p)'
  <2>1. Sound(th) /\ Fits(th, actives'[T(p)'])
    BY <1>2, <1>4, <1>6, <1>8
      DEF GoesOn, Sound, Fits, InBegin, InEnd, Free, Beginning, Registered, Stopping, Ending, Closing, Reports, Live
  <2>2. th.pc = "start"
    BY <1>4 DEF GoesOn
  <2>3. p \in Tokens => workers'[p] \notin {"none", "launching"}
    <3>1. p \in Tokens => workers[p] \notin {"none", "launching"} /\ p # t
      BY <1>1, <1>2, <1>9 DEF ThreadInv
    <3> QED BY <1>10, <3>1 DEF Elsewhere
  <2> QED BY <1>8, <2>1, <2>2, <2>3 DEF ThreadInv, Reports
<1>15. TokenInv(t)'
  <2>1. T(p)' = t /\ threads'[p].pc = "start"
    BY <1>2, <1>4, <1>8 DEF GoesOn
  <2>2. BrowserInv(t)'
    BY <1>6, <1>8, <1>9, <2>1 DEF BrowserInv, Live
  <2> QED BY <1>2, <1>3, <1>6, <1>8, <2>2 DEF TokenInv, OutcomeInv, LedgerInv, Consumed, NotCompleted, Over, Live
<1>16. ~ Owns(th)
  BY <1>4 DEF GoesOn, Owns, InBegin, InEnd, Beginning, Ending, Closing
<1> QED BY <1>2, <1>3, <1>4, <1>7, <1>10, <1>11, <1>12, <1>13, <1>14, <1>15, <1>16, OneStep

-----------------------------------------------------------------------------
(* The decision to end, and the ending.                                      *)

LEMMA EndBegins ==
  ASSUME IInv, NEW p \in Threads, NEW t \in Tokens, t = T(p), NEW th, Moves(p, th),
         threads[p].pc \in Stopping, actives[t].lifecycle \in {"pending", "active"},
         Set(t, [actives[t] EXCEPT !.lifecycle = "terminating"]),
         th.pc \in Ending \ {"commit"}, th.token = t, ~ th.retries, Sound(th),
         UNCHANGED <<holder, reserved, workers, terminal, ledger, repairs, fetches>>
  PROVE  IInv'
<1>1. /\ TokenInv(t) /\ ThreadInv(p) /\ Types /\ threads[p] \in Thread /\ IsVerification(actives[t])
      /\ ~ threads[p].retries /\ ~ threads[p].broken
  BY Working DEF IInv, Free, Stopping, Closing, Reports
<1>2. PICK a : a = [actives[t] EXCEPT !.lifecycle = "terminating"]
  OBVIOUS
<1>3. /\ IsVerification(a) /\ a.lifecycle = "terminating" /\ a.domain = actives[t].domain
      /\ a.cleanup_status = NONE /\ actives[t].cleanup_status = NONE /\ Shaped(a)
  BY <1>1, <1>2 DEF IsVerification, TokenInv, Shaped, Lifecycles, Live, Over
<1>4. Puts(t, a)
  BY <1>2, <1>3 DEF Puts, Set
<1>5. threads'[p] = th /\ actives'[t] = a
  BY <1>1, <1>4, MoveAlone, PutAlone
<1>6. /\ Typed' /\ Elsewhere(t) /\ Frees /\ Works(p, t)
      /\ \A d \in Domains, u \in Tokens \ {t} : holder'[d] = u => holder[d] = u
  BY <1>1 DEF Types, Typed, Elsewhere, Frees, Works
<1>7. Respects({p}, t)
  BY <1>1, <1>3, <1>5 DEF Respects, Follows, Over, Live
<1>8. LeaseInv'
  <2>1. KeepsLease({p}, t)
    BY <1>3, <1>5 DEF KeepsLease, Live
  <2> QED BY <1>4, <1>6, <2>1, LeaseOne
<1>9. ~ InBegin(th) /\ ~ InBegin(threads[p]) /\ InEnd(th)
  BY DEF InBegin, InEnd, Beginning, Stopping, Ending, Closing, Reports
<1>10. CapacityInv'
  BY <1>3, <1>4, <1>9, CapacityOne DEF Live
<1>11. ThreadInv(p)'
  <2>1. Fits(th, actives'[T(p)']) /\ Sound(th)
    BY <1>3, <1>5, <1>9 DEF Fits, Sound, Registered, Stopping, Ending, Closing, Live, Reports
  <2>2. th.pc \in Ending \ {"commit"} /\ (p \in Tokens => workers'[p] \notin {"none", "launching"})
    BY <1>1 DEF ThreadInv, Stopping, Reports
  <2> QED BY <1>5, <2>1, <2>2 DEF ThreadInv, Reports, Ending, Closing
<1>12. TokenInv(t)'
  <2>1. \E q \in Threads : T(q)' = t /\ InEnd(threads'[q])
    BY <1>5, <1>9
  <2> QED BY <1>1, <1>3, <1>5, <2>1 DEF TokenInv, OutcomeInv, LedgerInv, Consumed, NotCompleted, BrowserInv, Over, Live
<1> QED BY <1>1, <1>4, <1>5, <1>6, <1>7, <1>8, <1>10, <1>11, <1>12, OneStep

LEMMA FinishStep ==
  ASSUME IInv, NEW p \in Threads, _finish(p)
  PROVE  IInv'
<1>1. CASE Lifecycle(p) \in {"terminating", "quarantined", "released"}
  BY <1>1, FinishQuiet
<1>2. CASE Lifecycle(p) \notin {"terminating", "quarantined", "released"}
  <2>1. threads[p].pc = "finish"
    BY DEF _finish
  <2>2. PICK t \in Tokens : t = T(p)
    BY <2>1, Working DEF Free
  <2>3. /\ Types /\ Sound(threads[p]) /\ Fits(threads[p], actives[t]) /\ IsVerification(actives[t])
        /\ ~ threads[p].retries /\ ~ threads[p].broken
    BY <2>1, <2>2, Working DEF Free, Closing
  <2>4. actives[t].lifecycle \in {"pending", "active"}
    BY <1>2, <2>1, <2>2, <2>3 DEF Fits, Registered, Stopping, Live
  <2>5. PICK th : Moves(p, th) /\ GoesOn(th, threads[p], "close")
    BY <1>2, <2>3, GotoMoves DEF _finish, Pcs, Registered, Ending, Closing
  <2>6. Sound(th)
    BY <2>1, <2>2, <2>3, <2>5
      DEF Sound, GoesOn, InBegin, Beginning, Stopping, Ending, Closing, Reports
  <2>7. /\ Set(t, [actives[t] EXCEPT !.lifecycle = "terminating"])
        /\ UNCHANGED <<holder, reserved, workers, terminal, ledger, repairs, fetches>>
    BY <1>2, <2>2 DEF _finish, sessionVars
  <2> QED BY <2>1, <2>2, <2>3, <2>4, <2>5, <2>6, <2>7, EndBegins DEF GoesOn, Stopping, Ending, Closing
<1> QED BY <1>1, <1>2

LEMMA WorkerTerminalStep ==
  ASSUME IInv, NEW p \in Threads, _worker_terminal(p)
  PROVE  IInv'
<1> DEFINE done == ~ Active(p).registered \/ Lifecycle(p) \in {"terminating", "quarantined", "released"}
<1>1. CASE done
  BY <1>1, WorkerTerminalQuiet
<1>2. CASE ~ done
  <2>1. threads[p].pc \in Reports /\ threads[p].pc \notin Free \cup Closing \cup {"retry", "ledger", "store"}
    BY DEF _worker_terminal, Reports, Free, Closing
  <2>2. PICK t \in Tokens : t = T(p)
    BY <2>1, Working
  <2>3. /\ Types /\ Sound(threads[p]) /\ IsVerification(actives[t]) /\ TokenInv(t) /\ threads[p] \in Thread
        /\ ~ threads[p].retries /\ ~ threads[p].broken
    BY <2>1, <2>2, Working DEF IInv
  <2>4. actives[t].lifecycle \in {"pending", "active"}
    BY <1>2, <2>2, <2>3 DEF TokenInv, Shaped, Live
  <2>5. PICK next \in {"quarantine", "stale", "close_lease"}, consumed \in BOOLEAN :
          threads' = [threads EXCEPT ![p].pc = next, ![p].ends = TRUE, ![p].consumed = consumed]
    BY <1>2 DEF _worker_terminal
  <2>6. PICK th : th = [threads[p] EXCEPT !.pc = next, !.ends = TRUE, !.consumed = consumed]
    OBVIOUS
  <2>7. /\ th \in Thread /\ th.pc = next /\ th.token = t /\ th.status = threads[p].status
        /\ ~ th.retries /\ ~ th.broken
    BY <2>2, <2>3, <2>6 DEF Thread, Registered, Ending, Closing
  <2>8. Moves(p, th)
    BY <2>3, <2>5, <2>6, <2>7 DEF Moves, Types
  <2>9. Sound(th)
    BY <2>1, <2>3, <2>7 DEF Sound, InBegin, Beginning, Stopping, Ending, Closing, Reports
  <2>10. /\ Set(t, [actives[t] EXCEPT !.lifecycle = "terminating"])
         /\ UNCHANGED <<holder, reserved, workers, terminal, ledger, repairs, fetches>>
    BY <1>2, <2>2 DEF _worker_terminal, sessionVars
  <2> QED BY <2>1, <2>2, <2>4, <2>7, <2>8, <2>9, <2>10, EndBegins DEF Stopping, Ending, Closing
<1> QED BY <1>1, <1>2

\* The browser or the lease is closed.
LEMMA ClosingStep ==
  ASSUME IInv, NEW p \in Threads, NEW t \in Tokens, t = T(p), threads[p].pc \in Closing,
         NEW pc \in Closing, Goto(p, pc), UNCHANGED <<actives, reserved, terminal, ledger, repairs, fetches>>,
         Typed', Elsewhere(t), Frees, workers'[t] \in {workers[t], "closed"},
         pc = "commit" => \A d \in Domains : holder'[d] # t
  PROVE  IInv'
<1>1. /\ TokenInv(t) /\ ThreadInv(p) /\ Types /\ threads[p] \in Thread /\ IsVerification(actives[t])
      /\ Sound(threads[p]) /\ Fits(threads[p], actives[t])
  BY Working DEF IInv, Free, Closing
<1>2. PICK th : Moves(p, th) /\ GoesOn(th, threads[p], pc)
  BY <1>1, GotoMoves DEF Pcs, Registered, Ending
<1>3. PICK a : a = actives[t]
  OBVIOUS
<1>4. Puts(t, a) /\ actives'[t] = a
  BY <1>3, SamePut
<1>5. threads'[p] = th
  BY <1>2, MoveAlone
<1>6. Works(p, t) /\ \A d \in Domains, u \in Tokens \ {t} : holder'[d] = u => holder[d] = u
  BY Names DEF Works, Frees
<1>7. Respects({p}, t)
  BY <1>3, <1>4, Names DEF Respects, Follows, Frees, NotCompleted
<1>8. LeaseInv'
  <2>1. KeepsLease({p}, t)
    BY <1>3, <1>4 DEF KeepsLease, Closing
  <2> QED BY <1>2, <1>4, <1>6, <2>1, LeaseOne
<1>9. /\ ~ InBegin(th) /\ ~ InBegin(threads[p]) /\ (InEnd(th) <=> InEnd(threads[p]))
      /\ th.pc \in Closing /\ th.token = t /\ ~ ToSettle(threads[p])
  BY <1>2 DEF GoesOn, InBegin, InEnd, ToSettle, Beginning, Ending, Closing
<1>10. CapacityInv'
  BY <1>1, <1>2, <1>3, <1>4, <1>9, CapacityOne DEF TokenInv
<1>11. ThreadInv(p)'
  <2>1. Sound(th) /\ Fits(th, actives'[T(p)'])
    BY <1>1, <1>2, <1>3, <1>4, <1>5, <1>9
      DEF GoesOn, Sound, Fits, InEnd, Registered, Stopping, Ending, Closing, Reports, Free
  <2>2. th.pc = "commit" => \A d \in Domains : holder'[d] # T(p)'
    BY <1>2, <1>5, <1>9 DEF GoesOn
  <2>3. p \in Tokens => workers'[p] \notin {"none", "launching"}
    <3>1. p \in Tokens => workers[p] \notin {"none", "launching"}
      BY <1>1 DEF ThreadInv, Closing
    <3> QED BY <3>1 DEF Elsewhere
  <2> QED BY <1>5, <1>9, <2>1, <2>2, <2>3 DEF ThreadInv, Reports, Closing, Free
<1>12. TokenInv(t)'
  <2>1. actives[t].lifecycle = "terminating" => \E q \in Threads : T(q)' = t /\ InEnd(threads'[q])
    BY <1>1, <1>2, <1>5, <1>9, MoveAlone DEF TokenInv
  <2>2. actives[t].lifecycle \in Live \cup {"released"} /\ actives[t].lifecycle \notin {"pending", "active"}
    BY <1>1 DEF Fits, InEnd, Registered, Ending, Over
  <2>3. BrowserInv(t)'
    BY <1>3, <1>4, <2>2 DEF BrowserInv
  <2>4. LedgerInv(t)'
    BY <1>1, <1>2, <1>3, <1>4, <1>9, MoveAlone DEF TokenInv, LedgerInv, Consumed, NotCompleted
  <2> QED BY <1>1, <1>3, <1>4, <2>1, <2>3, <2>4 DEF TokenInv, OutcomeInv
<1>13. Owns(th) => Owns(threads[p]) /\ T(p) = th.token
  BY <1>9 DEF Owns
<1> QED BY <1>2, <1>4, <1>6, <1>7, <1>8, <1>10, <1>11, <1>12, <1>13, OneStep

LEMMA WorkerClosesStep ==
  ASSUME IInv, NEW p \in Threads, worker_closes(p)
  PROVE  IInv'
<1>1. CASE UNCHANGED workers
  BY <1>1, CloseQuiet
<1>2. ASSUME Serves(T(p)), workers' = [workers EXCEPT ![T(p)] = "closed"], Goto(p, "close_lease")
      PROVE  IInv'
  <2>1. threads[p].pc = "closing"
    BY DEF worker_closes
  <2>2. PICK t \in Tokens : t = T(p)
    BY <2>1, Working DEF Free
  <2>3. Types
    BY DEF IInv
  <2>4. Typed' /\ Elsewhere(t) /\ Frees /\ workers'[t] = "closed"
        /\ UNCHANGED <<actives, reserved, terminal, ledger, repairs, fetches>>
    BY <1>2, <2>2, <2>3 DEF worker_closes, Types, Typed, Elsewhere, Frees
  <2> QED BY <1>2, <2>1, <2>2, <2>4, ClosingStep DEF Closing
<1> QED BY <1>1, <1>2 DEF worker_closes

LEMMA CloseLeaseStep ==
  ASSUME IInv, NEW p \in Threads, close_lease(p)
  PROVE  IInv'
<1>1. CASE UNCHANGED holder /\ (Goto(p, "quarantine") \/ (Goto(p, "commit") /\ holder[Active(p).domain] # T(p)))
  BY <1>1, CloseLeaseQuiet
<1>2. ASSUME close(Active(p).domain, Active(p).session), Goto(p, "commit")
      PROVE  IInv'
  <2>1. threads[p].pc = "close_lease"
    BY DEF close_lease
  <2>2. PICK t \in Tokens : t = T(p)
    BY <2>1, Working DEF Free
  <2>3. Types /\ Fits(threads[p], actives[t])
    BY <2>1, <2>2, Working DEF Free
  <2>4. holder' = [holder EXCEPT ![actives[t].domain] = Nobody]
    BY <1>2, <2>2 DEF close
  <2>5. Typed' /\ Elsewhere(t) /\ Frees /\ workers'[t] = workers[t]
        /\ UNCHANGED <<actives, reserved, terminal, ledger, repairs, fetches>>
    BY <2>2, <2>3, <2>4 DEF close_lease, Types, Typed, Elsewhere, Frees
  <2>6. \A d \in Domains : holder'[d] # t
    <3>1. ASSUME NEW d \in Domains, holder[d] = t PROVE actives[t].domain = d
      BY <3>1 DEF IInv, LeaseInv
    <3> QED BY <2>3, <2>4, <3>1, Names DEF Types
  <2> QED BY <1>2, <2>1, <2>2, <2>5, <2>6, ClosingStep DEF Closing
<1> QED BY <1>1, <1>2 DEF close_lease, close_fails, sessionVars

-----------------------------------------------------------------------------
(* What is remembered of an ending.                                          *)

\* A thread alone with the end of its verification.
LEMMA EndsAlone ==
  ASSUME IInv, NEW p \in Threads, InEnd(threads[p])
  PROVE  /\ T(p) \in Tokens /\ Lifecycle(p) = "terminating" /\ threads[p].status \in Ways
         /\ threads[p].consumed => threads[p].status # "completed"
         /\ Active(p).cleanup_status = NONE /\ terminal[T(p)] = NoOutcome /\ ~ Consumed(T(p))
<1>1. threads[p].pc \notin Free \cup {"retry"} /\ threads[p].pc \in Ending /\ ~ threads[p].retries
  BY DEF InEnd, Ending, Closing, Free
<1>2. /\ T(p) \in Tokens /\ threads[p] \in Thread /\ Sound(threads[p]) /\ Fits(threads[p], Active(p))
      /\ TokenInv(T(p))
  BY <1>1, Working DEF IInv
<1>3. Lifecycle(p) = "terminating" /\ threads[p].status \in Ways
  BY <1>1, <1>2 DEF Fits, Sound, Thread
<1> QED BY <1>1, <1>2, <1>3 DEF TokenInv, Shaped, OutcomeInv, LedgerInv, Over, Sound

LEMMA CommitStep ==
  ASSUME IInv, NEW p \in Threads, commit(p)
  PROVE  IInv'
<1>1. threads[p].pc = "commit"
  BY DEF commit
<1> PICK t \in Tokens : t = T(p)
  BY <1>1, Working DEF Free
<1>2. /\ t = T(p) /\ TokenInv(t) /\ ThreadInv(p) /\ Types /\ threads[p] \in Thread /\ IsVerification(actives[t])
      /\ Sound(threads[p]) /\ Fits(threads[p], actives[t]) /\ ~ threads[p].broken
      /\ \A d \in Domains : holder[d] # t
  BY <1>1, Working DEF IInv, ThreadInv, Free
<1>3. UNCHANGED <<holder, reserved, workers, ledger, repairs, fetches>> /\ Works(p, t) /\ Frees
  BY <1>2 DEF commit, sessionVars, Works, Frees
<1>4. \A d \in Domains, u \in Tokens \ {t} : holder'[d] = u => holder[d] = u
  BY <1>3
<1>5. ASSUME NEW th, NEW a, NEW o, Moves(p, th), Puts(t, a), o \in Told, terminal' = [terminal EXCEPT ![t] = o],
             a.lifecycle = "released", Shaped(a), ~ InBegin(th), ~ InEnd(th), ThreadInv(p)', TokenInv(t)',
             Respects({p}, t)
      PROVE  IInv'
  <2>1. Typed' /\ Elsewhere(t)
    BY <1>2, <1>3, <1>5 DEF Types, Typed, Elsewhere
  <2>2. LeaseInv'
    <3>1. KeepsLease({p}, t)
      BY <1>2, <1>3 DEF KeepsLease
    <3> QED BY <1>3, <1>5, <3>1, LeaseOne
  <2>3. CapacityInv'
    BY <1>1, <1>3, <1>5, CapacityOne DEF InBegin, Beginning, Live
  <2> QED BY <1>3, <1>4, <1>5, <2>1, <2>2, <2>3, OneStep DEF Owns
<1>6. CASE ~ threads[p].retries
  <2>1. InEnd(threads[p])
    BY <1>1, <1>6 DEF InEnd, Ending, Closing
  <2>2. /\ actives[t].lifecycle = "terminating" /\ threads[p].status \in Ways
        /\ threads[p].consumed => threads[p].status # "completed"
        /\ actives[t].cleanup_status = NONE /\ ~ Consumed(t)
    BY <1>2, <2>1, EndsAlone
  <2>3. PICK th : Moves(p, th) /\ GoesOn(th, threads[p], "ledger")
    BY <1>2, <1>6, GotoMoves DEF commit, Pcs
  <2>4. PICK a : a = [actives[t] EXCEPT !.lifecycle = "released", !.registered = FALSE, !.event = TRUE]
    OBVIOUS
  <2>5. /\ IsVerification(a) /\ a.lifecycle = "released" /\ a.cleanup_status = NONE /\ Shaped(a)
    BY <1>2, <2>2, <2>4 DEF IsVerification, TokenInv, Shaped, Lifecycles, Live, Over
  <2>6. Puts(t, a)
    BY <1>2, <1>6, <2>4, <2>5 DEF commit, Puts, Set
  <2>7. PICK o : o = Outcome(threads[p].status, FALSE, threads[p].status = "completed")
    OBVIOUS
  <2>8. o \in Told /\ o.status = threads[p].status /\ terminal' = [terminal EXCEPT ![t] = o]
    BY <1>2, <1>6, <2>2, <2>7 DEF commit, Outcome, Told
  <2>9. threads'[p] = th /\ actives'[t] = a /\ terminal'[t] = o
    BY <1>2, <2>3, <2>6, <2>8, MoveAlone, PutAlone DEF Types
  <2>10. Respects({p}, t)
    BY <1>2, <1>3, <2>1, <2>2, <2>5, <2>9 DEF Respects, Follows, Owner, Owns, Over, Live
  <2>11. ThreadInv(p)'
    <3>1. Sound(th) /\ Fits(th, actives'[T(p)'])
      BY <1>2, <1>6, <2>3, <2>5, <2>9
        DEF GoesOn, Sound, Fits, InBegin, InEnd, Beginning, Registered, Stopping, Ending, Closing, Reports, Free, Over
    <3>2. th.pc = "ledger" /\ th.token = t /\ (th.consumed => NotCompleted(t)')
      BY <1>2, <2>2, <2>3, <2>5, <2>8, <2>9 DEF GoesOn, NotCompleted, NONE
    <3>3. p \in Tokens => workers'[p] \notin {"none", "launching"}
      BY <1>1, <1>2, <1>3 DEF ThreadInv
    <3> QED BY <2>9, <3>1, <3>2, <3>3 DEF ThreadInv, Reports
  <2>12. TokenInv(t)'
    <3>1. T(p)' = t /\ ToSettle(threads'[p])
      BY <1>2, <2>3, <2>9 DEF GoesOn, ToSettle
    <3>2. LedgerInv(t)'
      BY <1>3, <2>2, <2>5, <2>9, <3>1 DEF LedgerInv, Consumed
    <3> QED BY <2>5, <2>9, <3>2 DEF TokenInv, OutcomeInv, BrowserInv, Over, Live
  <2>13. ~ InBegin(th) /\ ~ InEnd(th)
    BY <2>3 DEF GoesOn, InBegin, InEnd, Beginning, Ending, Closing
  <2> QED BY <1>5, <2>3, <2>5, <2>6, <2>8, <2>10, <2>11, <2>12, <2>13
<1>7. CASE threads[p].retries
  <2>1. actives[t].lifecycle \in Over /\ actives[t].cleanup_status # NONE
    BY <1>2, <1>7 DEF Fits
  <2>2. PICK th : Moves(p, th) /\ IdleLike(th)
    BY <1>2, <1>7, ReturnedMoves DEF commit
  <2>3. PICK a : a = [actives[t] EXCEPT !.lifecycle = "released", !.registered = FALSE, !.event = actives[t].event,
                                        !.failed = FALSE, !.lock = Nobody]
    OBVIOUS
  <2>4. /\ IsVerification(a) /\ a.lifecycle = "released" /\ a.cleanup_status = actives[t].cleanup_status
        /\ Shaped(a)
    BY <1>2, <2>1, <2>3 DEF IsVerification, TokenInv, Shaped, Lifecycles, Live, Over
  <2>5. Puts(t, a)
    <3>1. Set(t, a)
      BY <1>2, <1>7, <2>3 DEF commit
    <3> QED BY <2>4, <3>1 DEF Puts, Set
  <2>6. PICK o : o = Outcome(actives[t].cleanup_status, FALSE, threads[p].consumed)
    OBVIOUS
  <2>7. o \in Told /\ o.status = actives[t].cleanup_status /\ terminal' = [terminal EXCEPT ![t] = o]
    BY <1>2, <1>7, <2>6 DEF commit, Outcome, Told, IsVerification, Thread
  <2>8. threads'[p] = th /\ actives'[t] = a /\ terminal'[t] = o
    BY <1>2, <2>2, <2>5, <2>7, MoveAlone, PutAlone DEF Types
  <2>9. NotCompleted(t) => NotCompleted(t)'
    BY <2>4, <2>7, <2>8 DEF NotCompleted
  <2>10. Respects({p}, t)
    BY <1>2, <1>3, <2>1, <2>4, <2>8, <2>9 DEF Respects, Follows, Over, Live
  <2>11. ThreadInv(p)'
    BY <1>1, <1>3, <2>2, LeftInv
  <2>12. TokenInv(t)'
    <3>1. LedgerInv(t)'
      BY <1>1, <1>2, <1>3, <2>1, <2>2, <2>4, <2>8, <2>9, MoveAlone DEF TokenInv, LedgerInv, Consumed, ToSettle, Over
    <3> QED BY <2>4, <2>7, <2>8, <3>1 DEF TokenInv, OutcomeInv, BrowserInv, Over, Live
  <2>13. ~ InBegin(th) /\ ~ InEnd(th)
    BY <2>2 DEF IdleLike, InBegin, InEnd, Free, Beginning, Ending, Closing
  <2> QED BY <1>5, <2>2, <2>4, <2>5, <2>7, <2>10, <2>11, <2>12, <2>13
<1> QED BY <1>6, <1>7

LEMMA QuarantineStep ==
  ASSUME IInv, NEW p \in Threads, _quarantine(p)
  PROVE  IInv'
<1>1. CASE threads[p].retries
  BY <1>1, QuarantineQuiet
<1>2. CASE ~ threads[p].retries
  <2>1. threads[p].pc = "quarantine" /\ InEnd(threads[p])
    BY <1>2 DEF _quarantine, InEnd, Ending, Closing
  <2> PICK t \in Tokens : t = T(p)
    BY <2>1, EndsAlone
  <2>2. /\ t = T(p) /\ TokenInv(t) /\ ThreadInv(p) /\ Types /\ threads[p] \in Thread /\ IsVerification(actives[t])
        /\ Sound(threads[p]) /\ Fits(threads[p], actives[t]) /\ ~ threads[p].broken
    BY <2>1, Working DEF IInv, Free
  <2>3. /\ actives[t].lifecycle = "terminating" /\ threads[p].status \in Ways
        /\ threads[p].consumed => threads[p].status # "completed"
        /\ actives[t].cleanup_status = NONE /\ terminal[t] = NoOutcome /\ ~ Consumed(t)
    BY <2>1, <2>2, EndsAlone
  <2>4. UNCHANGED <<holder, reserved, workers, terminal, ledger, repairs, fetches>> /\ Works(p, t) /\ Frees
    BY <1>2, <2>2 DEF _quarantine, mark_stale, Works, Frees
  <2>5. PICK a : a = [actives[t] EXCEPT !.lifecycle = "quarantined", !.failed = TRUE,
                        !.cleanup_status = threads[p].status, !.resume_ready = threads[p].status = "completed"]
    OBVIOUS
  <2>6. /\ IsVerification(a) /\ a.lifecycle = "quarantined" /\ a.cleanup_status = threads[p].status
        /\ a.domain = actives[t].domain /\ Shaped(a)
    BY <2>2, <2>3, <2>5 DEF IsVerification, TokenInv, Shaped, Lifecycles, Live, Over, Ways, NONE
  <2>7. Puts(t, a)
    <3>1. Set(t, a)
      BY <1>2, <2>2, <2>5 DEF _quarantine
    <3> QED BY <2>6, <3>1 DEF Puts, Set
  <2>8. PICK th : th = [threads[p] EXCEPT !.pc = IF threads[p].ends THEN "store" ELSE "ledger",
                                          !.broken = ~ threads[p].ends]
    OBVIOUS
  <2>9. /\ th \in Thread /\ th.pc = (IF threads[p].ends THEN "store" ELSE "ledger") /\ th.token = t
        /\ th.status = threads[p].status /\ th.consumed = threads[p].consumed /\ ~ th.retries
        /\ th.broken = ~ threads[p].ends /\ th.ends = threads[p].ends
    BY <1>2, <2>2, <2>8 DEF Thread, Registered
  <2>10. Moves(p, th)
    <3>1. threads' = [threads EXCEPT ![p] = th]
      BY <1>2, <2>2, <2>8 DEF _quarantine, Types
    <3> QED BY <2>9, <3>1 DEF Moves
  <2>11. threads'[p] = th /\ actives'[t] = a
    BY <2>2, <2>7, <2>10, MoveAlone, PutAlone
  <2>12. Typed' /\ Elsewhere(t) /\ \A d \in Domains, u \in Tokens \ {t} : holder'[d] = u => holder[d] = u
    BY <2>2, <2>4 DEF Types, Typed, Elsewhere
  <2>13. Respects({p}, t)
    BY <2>1, <2>2, <2>3, <2>4, <2>6, <2>11 DEF Respects, Follows, Owner, Owns, Over, Live
  <2>14. LeaseInv'
    <3>1. KeepsLease({p}, t)
      BY <2>6, <2>11 DEF KeepsLease, Live
    <3> QED BY <2>4, <2>7, <2>10, <3>1, LeaseOne
  <2>15. ~ InBegin(th) /\ ~ InEnd(th) /\ ~ InBegin(threads[p])
    BY <2>1, <2>9 DEF InBegin, InEnd, Beginning, Ending, Closing
  <2>16. CapacityInv'
    BY <2>3, <2>4, <2>6, <2>7, <2>10, <2>15, CapacityOne DEF Live
  <2>17. NotCompleted(t)' \/ ~ th.consumed
    <3>1. terminal'[t].status = NONE
      BY <2>3, <2>4 DEF NoOutcome
    <3> QED BY <2>3, <2>6, <2>9, <2>11, <3>1 DEF NotCompleted, NONE
  <2>18. ThreadInv(p)'
    <3>1. Sound(th)
      BY <2>2, <2>3, <2>9 DEF Sound, InBegin, Beginning, Stopping, Ending, Closing, Reports
    <3>2. Fits(th, a)
      BY <2>3, <2>6, <2>9, <2>15 DEF Fits, Over, Live, Ways, NONE
    <3>3. p \in Tokens => workers'[p] \notin {"none", "launching"}
      BY <2>1, <2>2, <2>4 DEF ThreadInv
    <3> QED BY <2>9, <2>11, <2>17, <3>1, <3>2, <3>3 DEF ThreadInv, Reports
  <2>19. TokenInv(t)'
    <3>1. T(p)' = t /\ ToSettle(threads'[p])
      BY <2>9, <2>11 DEF ToSettle
    <3>2. LedgerInv(t)'
      BY <2>3, <2>4, <2>6, <2>11, <3>1 DEF LedgerInv, Consumed
    <3> QED BY <2>3, <2>4, <2>6, <2>11, <3>2 DEF TokenInv, OutcomeInv, BrowserInv, Over, Live
  <2> QED BY <2>4, <2>7, <2>10, <2>12, <2>13, <2>14, <2>15, <2>16, <2>18, <2>19, OneStep DEF Owns
<1> QED BY <1>1, <1>2

LEMMA StoreStep ==
  ASSUME IInv, NEW p \in Threads, store(p)
  PROVE  IInv'
<1>1. threads[p].pc = "store"
  BY DEF store
<1> PICK t \in Tokens : t = T(p)
  BY <1>1, Working DEF Free
<1>2. /\ t = T(p) /\ TokenInv(t) /\ ThreadInv(p) /\ Types /\ threads[p] \in Thread /\ IsVerification(actives[t])
      /\ Sound(threads[p]) /\ Fits(threads[p], actives[t]) /\ ~ threads[p].retries
      /\ actives[t].lifecycle \in Over /\ actives[t].cleanup_status # NONE
  BY <1>1, Working DEF IInv, Fits, Free, Closing
<1>3. UNCHANGED <<holder, reserved, workers, ledger, repairs, fetches>> /\ Works(p, t) /\ Frees
  BY <1>2 DEF store, sessionVars, Works, Frees
<1>4. PICK o : o = Outcome(actives[t].cleanup_status, TRUE, actives[t].resume_ready)
  OBVIOUS
<1>5. o \in Told /\ o.status = actives[t].cleanup_status /\ terminal' = [terminal EXCEPT ![t] = o]
  BY <1>2, <1>4 DEF store, Outcome, Told, IsVerification
<1>6. PICK b : b = Unlocked(p)
  OBVIOUS
<1>7. IsVerification(b) /\ Alike(actives[t], b) /\ b.lifecycle = actives[t].lifecycle
  BY <1>2, <1>6, UnlockedAlike
<1>8. PICK a \in {[actives[t] EXCEPT !.event = TRUE], [b EXCEPT !.event = TRUE]} : Set(t, a)
  BY <1>2, <1>6 DEF store
<1>9. /\ IsVerification(a) /\ a.lifecycle = actives[t].lifecycle /\ a.cleanup_status = actives[t].cleanup_status
      /\ a.domain = actives[t].domain /\ Shaped(a)
  <2>1. PICK v \in {actives[t], b} : a = [v EXCEPT !.event = TRUE]
    BY <1>8
  <2>2. /\ IsVerification(v) /\ v.lifecycle = actives[t].lifecycle /\ v.registered = actives[t].registered
        /\ v.failed = actives[t].failed /\ v.cleanup_status = actives[t].cleanup_status
        /\ v.domain = actives[t].domain
    BY <1>2, <1>7 DEF Alike
  <2>3. /\ IsVerification(a) /\ a.lifecycle = v.lifecycle /\ a.registered = v.registered
        /\ a.failed = v.failed /\ a.cleanup_status = v.cleanup_status /\ a.domain = v.domain
    BY <2>1, <2>2 DEF IsVerification
  <2> QED BY <1>2, <2>2, <2>3 DEF TokenInv, Shaped
<1>10. Puts(t, a)
  BY <1>8, <1>9 DEF Puts, Set
<1>11. PICK th : Moves(p, th) /\ IF threads[p].ends THEN GoesOn(th, threads[p], "ledger") ELSE IdleLike(th)
  BY <1>2, GotoMoves, ReturnedMoves DEF store, Pcs
<1>12. threads'[p] = th /\ actives'[t] = a /\ terminal'[t] = o
  BY <1>2, <1>5, <1>10, <1>11, MoveAlone, PutAlone DEF Types
<1>13. Typed' /\ Elsewhere(t) /\ \A d \in Domains, u \in Tokens \ {t} : holder'[d] = u => holder[d] = u
  BY <1>2, <1>3, <1>5 DEF Types, Typed, Elsewhere
<1>14. NotCompleted(t) => NotCompleted(t)'
  BY <1>5, <1>9, <1>12 DEF NotCompleted
<1>15. Respects({p}, t)
  BY <1>2, <1>3, <1>9, <1>12, <1>14 DEF Respects, Follows, Over
<1>16. LeaseInv'
  <2>1. KeepsLease({p}, t)
    BY <1>1, <1>9, <1>12 DEF KeepsLease
  <2> QED BY <1>3, <1>10, <1>11, <2>1, LeaseOne
<1>17. ~ InBegin(th) /\ ~ InEnd(th) /\ ~ InBegin(threads[p])
  BY <1>1, <1>11 DEF GoesOn, IdleLike, InBegin, InEnd, Free, Beginning, Ending, Closing
<1>18. CapacityInv'
  BY <1>3, <1>9, <1>10, <1>11, <1>17, CapacityOne
<1>19. ThreadInv(p)'
  <2>1. CASE ~ threads[p].ends
    BY <1>1, <1>3, <1>11, <2>1, LeftInv
  <2>2. CASE threads[p].ends
    <3>1. GoesOn(th, threads[p], "ledger")
      BY <1>11, <2>2
    <3>2. Sound(th)
      BY <1>1, <1>2, <3>1 DEF GoesOn, Sound, InBegin, Beginning, Stopping, Ending, Closing, Reports, Free
    <3>3. Fits(th, a)
      BY <1>2, <1>9, <1>17, <3>1 DEF GoesOn, Fits, Over, Live, Registered, Stopping, Ending, Closing, Reports
    <3>4. p \in Tokens => workers'[p] \notin {"none", "launching"}
      BY <1>1, <1>2, <1>3 DEF ThreadInv
    <3>5. th.consumed => NotCompleted(t)'
      BY <1>1, <1>2, <1>14, <3>1 DEF GoesOn, ThreadInv
    <3>6. th.pc = "ledger" /\ th.token = t
      BY <1>2, <3>1 DEF GoesOn
    <3> QED BY <1>12, <3>2, <3>3, <3>4, <3>5, <3>6 DEF ThreadInv, Reports
  <2> QED BY <2>1, <2>2
<1>20. TokenInv(t)'
  <2>1. ASSUME NEW q \in Threads, T(q) = t, ToSettle(threads[q])
        PROVE  \E r \in Threads : T(r)' = t /\ ToSettle(threads'[r])
    <3>1. CASE q = p
      <4>1. threads[p].ends
        BY <1>1, <2>1, <3>1 DEF ToSettle
      <4>2. T(p)' = t /\ ToSettle(threads'[p])
        BY <1>2, <1>11, <1>12, <4>1 DEF GoesOn, ToSettle
      <4> QED BY <4>2
    <3>2. CASE q # p
      BY <1>11, <2>1, <3>2, MoveAlone
    <3> QED BY <3>1, <3>2
  <2>2. LedgerInv(t)'
    BY <1>2, <1>3, <1>9, <1>12, <1>14, <2>1 DEF TokenInv, LedgerInv, Consumed
  <2> QED BY <1>2, <1>3, <1>5, <1>9, <1>12, <2>2 DEF TokenInv, OutcomeInv, BrowserInv, Over, Live
<1> QED BY <1>3, <1>10, <1>11, <1>13, <1>15, <1>16, <1>17, <1>18, <1>19, <1>20, OneStep DEF Owns

LEMMA FinishLedgerStep ==
  ASSUME IInv, NEW p \in Threads, _finish_ledger(p)
  PROVE  IInv'
<1>1. threads[p].pc = "ledger"
  BY DEF _finish_ledger
<1> PICK t \in Tokens : t = T(p)
  BY <1>1, Working DEF Free
<1>2. /\ t = T(p) /\ TokenInv(t) /\ ThreadInv(p) /\ Types /\ threads[p] \in Thread /\ IsVerification(actives[t])
      /\ Sound(threads[p]) /\ Fits(threads[p], actives[t]) /\ ~ threads[p].retries
      /\ (actives[t].lifecycle \in Over \/ (actives[t].lifecycle = "gone" /\ ~ threads[p].consumed))
      /\ threads[p].consumed => NotCompleted(t)
  BY <1>1, Working DEF IInv, ThreadInv, Fits, Free, Closing
<1>3. UNCHANGED <<holder, reserved, workers, terminal, fetches>> /\ Works(p, t) /\ Frees
  BY <1>2 DEF _finish_ledger, Works, Frees
<1>4. /\ ledger' \in [Tokens -> {"none", "reserved", "used"}] /\ repairs' \in [Tokens -> {"none", "consumed", "given back"}]
      /\ \A u \in Tokens \ {t} : ledger'[u] = ledger[u] /\ repairs'[u] = repairs[u]
      /\ ledger'[t] # "reserved" \/ repairs'[t] # "none"
      /\ ledger'[t] = "used" => ledger[t] = "used" \/ threads[p].consumed
      /\ repairs'[t] = "consumed" => repairs[t] = "consumed" \/ threads[p].consumed
      /\ ledger[t] = "none" => ledger'[t] = "none"
  <2>1. ledger \in [Tokens -> {"none", "reserved", "used"}] /\ repairs \in [Tokens -> {"none", "consumed", "given back"}]
    BY <1>2 DEF Types
  <2>2. CASE /\ ledger' = [ledger EXCEPT ![t] = IF @ = "none" THEN "none"
                                                 ELSE IF threads[p].consumed THEN "used" ELSE "none"]
             /\ UNCHANGED repairs
    BY <2>1, <2>2
  <2>3. CASE /\ repairs' = [repairs EXCEPT ![t] = IF threads[p].consumed THEN "consumed" ELSE "given back"]
             /\ UNCHANGED ledger
    BY <2>1, <2>3
  <2> QED BY <1>2, <2>2, <2>3 DEF _finish_ledger
<1>5. PICK b : b = Unlocked(p)
  OBVIOUS
<1>6. IsVerification(b) /\ Alike(actives[t], b) /\ b.lifecycle = actives[t].lifecycle
  BY <1>2, <1>5, UnlockedAlike
<1>7. PICK a \in {actives[t], b} : Puts(t, a)
  BY <1>2, <1>5, <1>6, SamePut DEF _finish_ledger, Returns, Puts, Set
<1>8. /\ a.lifecycle = actives[t].lifecycle /\ a.cleanup_status = actives[t].cleanup_status
      /\ a.domain = actives[t].domain /\ Shaped(a)
  BY <1>2, <1>6, <1>7 DEF Alike, TokenInv, Shaped
<1>9. PICK th : Moves(p, th) /\ IF threads[p].broken THEN GoesOn(th, threads[p], "store") ELSE IdleLike(th)
  BY <1>2, GotoMoves, ReturnedMoves DEF _finish_ledger, Returns, Pcs, Registered
<1>10. threads'[p] = th /\ actives'[t] = a
  BY <1>2, <1>7, <1>9, MoveAlone, PutAlone
<1>11. Typed' /\ Elsewhere(t) /\ \A d \in Domains, u \in Tokens \ {t} : holder'[d] = u => holder[d] = u
  BY <1>2, <1>3, <1>4 DEF Types, Typed, Elsewhere
<1>12. NotCompleted(t) <=> NotCompleted(t)'
  BY <1>3, <1>8, <1>10 DEF NotCompleted
<1>13. Respects({p}, t)
  BY <1>3, <1>4, <1>8, <1>10, <1>12 DEF Respects, Follows
<1>14. LeaseInv'
  <2>1. KeepsLease({p}, t)
    BY <1>1, <1>8, <1>10 DEF KeepsLease
  <2> QED BY <1>3, <1>7, <1>9, <2>1, LeaseOne
<1>15. ~ InBegin(th) /\ ~ InEnd(th) /\ ~ InBegin(threads[p])
  BY <1>1, <1>9 DEF GoesOn, IdleLike, InBegin, InEnd, Free, Beginning, Ending, Closing
<1>16. CapacityInv'
  BY <1>3, <1>7, <1>8, <1>9, <1>15, CapacityOne
<1>17. ThreadInv(p)'
  <2>1. CASE ~ threads[p].broken
    BY <1>1, <1>3, <1>9, <2>1, LeftInv
  <2>2. CASE threads[p].broken
    <3>1. GoesOn(th, threads[p], "store")
      BY <1>9, <2>2
    <3>2. Sound(th)
      BY <1>1, <1>2, <3>1 DEF GoesOn, Sound, InBegin, Beginning, Stopping, Ending, Closing, Reports, Free
    <3>3. Fits(th, a)
      BY <1>2, <1>8, <1>15, <2>2, <3>1 DEF GoesOn, Fits, Over, Live, Registered, Stopping, Ending, Closing, Reports
    <3>4. p \in Tokens => workers'[p] \notin {"none", "launching"}
      BY <1>1, <1>2, <1>3 DEF ThreadInv
    <3>5. th.pc = "store" /\ th.token = t /\ (th.consumed => NotCompleted(t)')
      BY <1>2, <1>12, <3>1 DEF GoesOn
    <3> QED BY <1>10, <3>2, <3>3, <3>4, <3>5 DEF ThreadInv, Reports
  <2> QED BY <2>1, <2>2
<1>18. TokenInv(t)'
  <2>1. LedgerInv(t)'
    <3>1. Consumed(t)' => Consumed(t) \/ threads[p].consumed
      BY <1>4 DEF Consumed
    <3>2. Consumed(t)' => actives[t].lifecycle \in Over \cup {"lost"} /\ NotCompleted(t)
      BY <1>2, <3>1 DEF TokenInv, LedgerInv, Over
    <3> QED BY <1>2, <1>4, <1>8, <1>10, <1>12, <3>2 DEF LedgerInv, Over
  <2> QED BY <1>2, <1>3, <1>8, <1>10, <2>1 DEF TokenInv, OutcomeInv, BrowserInv, Over, Live
<1> QED BY <1>3, <1>7, <1>9, <1>11, <1>13, <1>14, <1>15, <1>16, <1>17, <1>18, OneStep DEF Owns

\* The repairs are made when a client begins a sweep.
LEMMA RepairsStep ==
  ASSUME IInv, NEW p \in Clients, _retry_ledger_repairs(p)
  PROVE  IInv'
<1>1. p \in Threads /\ p \notin Tokens /\ threads[p].pc = "idle"
  BY CoordinatorAssumption DEF Threads, _retry_ledger_repairs, Starts
<1>2. PICK begins \in BOOLEAN : threads' = [threads EXCEPT ![p] = [Idle EXCEPT !.pc = "list", !.begins = begins]]
  BY DEF _retry_ledger_repairs, Starts
<1>3. PICK th : th = [Idle EXCEPT !.pc = "list", !.begins = begins]
  OBVIOUS
<1>4. Moves(p, th) /\ IdleLike(th) /\ th.pc = "list"
  BY <1>2, <1>3, IdleFacts DEF Moves, Idle, IdleLike, Thread, Free
<1>5. UNCHANGED <<holder, actives, reserved, workers, terminal, fetches>>
  BY DEF _retry_ledger_repairs, sessionVars
<1>6. /\ ledger' \in [Tokens -> {"none", "reserved", "used"}] /\ repairs' \in [Tokens -> {"none", "consumed", "given back"}]
      /\ \A t \in Tokens :
           /\ ledger[t] = "none" => ledger'[t] = "none"
           /\ repairs[t] = "none" => repairs'[t] = "none" /\ ledger'[t] = ledger[t]
           /\ Consumed(t)' => Consumed(t)
           /\ ledger'[t] = "reserved" => ledger[t] = "reserved" /\ repairs'[t] = repairs[t]
  <2>1. ledger \in [Tokens -> {"none", "reserved", "used"}] /\ repairs \in [Tokens -> {"none", "consumed", "given back"}]
    BY DEF IInv, Types
  <2>2. CASE UNCHANGED <<ledger, repairs>>
    BY <2>1, <2>2 DEF Consumed
  <2>3. CASE /\ ledger' = [t \in Tokens |->
                  IF repairs[t] = "none" \/ ledger[t] = "none" THEN ledger[t]
                  ELSE IF repairs[t] = "consumed" THEN "used" ELSE "none"]
             /\ repairs' = [t \in Tokens |-> "none"]
    BY <2>1, <2>3 DEF Consumed
  <2> QED BY <2>2, <2>3 DEF _retry_ledger_repairs
<1>7. threads'[p] = th /\ \A q \in Threads \ {p} : threads'[q] = threads[q]
  BY <1>1, <1>4, MoveAlone
<1>8. Types'
  <2>1. threads' \in [Threads -> Thread]
    BY <1>1, <1>4, ThreadMoves DEF IInv
  <2> QED BY <1>5, <1>6, <2>1 DEF IInv, Types
<1>9. \A q \in Threads : ThreadInv(q)'
  <2>1. ASSUME NEW t \in Tokens PROVE Respects({p}, t)
    BY <1>5, <1>6 DEF Respects, Follows, NotCompleted
  <2>2. ThreadInv(p)'
    BY <1>1, <1>4, LeftInv
  <2> QED BY <1>1, <1>7, <2>1, <2>2, OthersStay
<1>10. ~ Owns(th) /\ ~ InBegin(th) /\ ~ Owns(threads[p]) /\ ~ ToSettle(threads[p])
  BY <1>1, <1>4 DEF Owns, ToSettle, InBegin, InEnd, Beginning, Ending, Closing
<1>11. OneOwner'
  BY <1>1, <1>7, <1>10, OwnersStay
<1>12. LeaseInv'
  <2>1. \A t \in Tokens : KeepsLease({p}, t)
    BY <1>1, <1>5 DEF KeepsLease
  <2>2. \A d \in Domains : holder'[d] = holder[d]
    BY <1>5
  <2> QED BY <1>1, <1>5, <1>7, <2>1, <2>2, LeaseStays
<1>13. CapacityInv'
  <2>1. \A q \in Threads : InBegin(threads'[q]) <=> InBegin(threads[q])
    BY <1>7, <1>10 DEF Owns
  <2> QED BY <1>5, <2>1, CapacityStays DEF IInv, TokenInv
<1>14. ASSUME NEW t \in Tokens PROVE TokenInv(t)'
  <2>1. TokenInv(t) /\ t \in Threads
    BY Names DEF IInv
  <2>2. LedgerInv(t)'
    <3>1. \A q \in Threads : T(q) = t /\ ToSettle(threads[q]) => T(q)' = t /\ ToSettle(threads'[q])
      BY <1>7, <1>10
    <3> QED BY <1>5, <1>6, <2>1, <3>1 DEF TokenInv, LedgerInv, NotCompleted
  <2>3. BrowserInv(t)'
    BY <1>1, <1>5, <1>7, <2>1 DEF TokenInv, BrowserInv
  <2>4. actives'[t].lifecycle = "terminating" => \E q \in Threads : T(q)' = t /\ InEnd(threads'[q])
    BY <1>5, <1>7, <1>10, <2>1 DEF TokenInv, Owns
  <2> QED BY <1>5, <2>1, <2>2, <2>3, <2>4 DEF TokenInv, OutcomeInv
<1> QED BY <1>8, <1>9, <1>11, <1>12, <1>13, <1>14 DEF IInv

-----------------------------------------------------------------------------
(* The browsers' own threads, and time.                                      *)

\* A browser changes, and its thread has something to tell or goes on waiting.
LEMMA BrowserStep ==
  ASSUME IInv, NEW t \in Tokens, threads[t].pc = "idle", workers[t] # "none",
         NEW w \in {"open", "dead", "closed", "partial", "expired", "orphan"}, workers' = [workers EXCEPT ![t] = w],
         UNCHANGED <<actives, holder, reserved, terminal, ledger, repairs, fetches>>,
         \/ UNCHANGED threads /\ (w \in {"open", "dead"} \/ actives[t].lifecycle \notin {"pending", "active"})
         \/ \E pc \in Reports, status \in {"failed", "timed_out"} :
              threads' = [threads EXCEPT ![t] = [Idle EXCEPT !.pc = pc, !.token = t, !.status = status]]
  PROVE  IInv'
<1>1. t \in Threads /\ Types /\ TokenInv(t) /\ ThreadInv(t) /\ threads[t] \in Thread
  BY Names DEF IInv, Types
<1>2. actives[t].lifecycle \in Live \cup {"released"} /\ workers'[t] = w
  BY <1>1 DEF TokenInv, BrowserInv, Types
<1>3. PICK th : /\ Moves(t, th)
                /\ \/ th = threads[t] /\ (w \in {"open", "dead"} \/ actives[t].lifecycle \notin {"pending", "active"})
                   \/ /\ th.pc \in Reports /\ th.token = t /\ th.status \in {"failed", "timed_out"}
                      /\ ~ th.consumed /\ ~ th.retries /\ ~ th.broken
  <2>1. CASE UNCHANGED threads /\ (w \in {"open", "dead"} \/ actives[t].lifecycle \notin {"pending", "active"})
    BY <1>1, <2>1 DEF Moves, Types
  <2>2. ASSUME NEW pc \in Reports, NEW status \in {"failed", "timed_out"},
               threads' = [threads EXCEPT ![t] = [Idle EXCEPT !.pc = pc, !.token = t, !.status = status]]
        PROVE  \E th : /\ Moves(t, th) /\ th.pc \in Reports /\ th.token = t /\ th.status \in {"failed", "timed_out"}
                       /\ ~ th.consumed /\ ~ th.retries /\ ~ th.broken
    <3>1. PICK th : th = [Idle EXCEPT !.pc = pc, !.token = t, !.status = status]
      OBVIOUS
    <3>2. /\ th \in Thread /\ th.pc \in Reports /\ th.token = t /\ th.status \in {"failed", "timed_out"}
          /\ ~ th.consumed /\ ~ th.retries /\ ~ th.broken
      BY <3>1 DEF Idle, Thread, Ways, Registered, Stopping
    <3> QED BY <2>2, <3>1, <3>2 DEF Moves
  <2> QED BY <2>1, <2>2
<1>4. PICK a : a = actives[t]
  OBVIOUS
<1>5. Puts(t, a) /\ actives'[t] = a
  BY <1>4, SamePut
<1>6. threads'[t] = th /\ \A q \in Threads \ {t} : threads'[q] = threads[q]
  BY <1>1, <1>3, MoveAlone
<1>7. /\ Typed' /\ Elsewhere(t) /\ Frees /\ Works(t, t)
      /\ \A d \in Domains, u \in Tokens \ {t} : holder'[d] = u => holder[d] = u
  BY <1>1 DEF Types, Typed, Elsewhere, Frees, Works, Free
<1>8. Respects({t}, t)
  BY <1>2, <1>4, <1>5 DEF Respects, Follows, NotCompleted
<1>9. LeaseInv'
  <2>1. KeepsLease({t}, t)
    BY <1>4, <1>5 DEF KeepsLease
  <2> QED BY <1>1, <1>3, <1>5, <1>7, <2>1, LeaseOne
<1>10. ~ Owns(th) /\ ~ InBegin(th) /\ ~ InBegin(threads[t]) /\ ~ InEnd(threads[t]) /\ ~ ToSettle(threads[t])
  BY <1>3 DEF Owns, InBegin, InEnd, ToSettle, Reports, Beginning, Ending, Closing
<1>11. CapacityInv'
  BY <1>1, <1>3, <1>4, <1>5, <1>10, CapacityOne DEF TokenInv
<1>12. ThreadInv(t)'
  <2>1. CASE th.pc \in Reports /\ th # threads[t]
    <3>1. Sound(th)
      BY <1>3, <2>1 DEF Sound, Reports, Closing, NONE
    <3>2. Fits(th, a)
      BY <1>2, <1>3, <1>4, <1>10, <2>1 DEF Fits, Owns, Reports
    <3> QED BY <1>2, <1>3, <1>5, <1>6, <2>1, <3>1, <3>2 DEF ThreadInv, Reports
  <2>2. CASE th = threads[t]
    BY <1>1, <1>6, <2>2 DEF ThreadInv, Reports, Free
  <2> QED BY <1>3, <2>1, <2>2
<1>13. TokenInv(t)'
  <2>1. LedgerInv(t)'
    <3>1. \A q \in Threads : T(q) = t /\ ToSettle(threads[q]) => T(q)' = t /\ ToSettle(threads'[q])
      BY <1>6, <1>10
    <3> QED BY <1>1, <1>4, <1>5, <3>1 DEF TokenInv, LedgerInv, Consumed, NotCompleted
  <2>2. BrowserInv(t)'
    BY <1>2, <1>3, <1>4, <1>5, <1>6 DEF BrowserInv
  <2>3. actives'[t].lifecycle = "terminating" => \E q \in Threads : T(q)' = t /\ InEnd(threads'[q])
    BY <1>1, <1>4, <1>5, <1>6, <1>10 DEF TokenInv
  <2> QED BY <1>1, <1>4, <1>5, <2>1, <2>2, <2>3 DEF TokenInv, OutcomeInv
<1> QED BY <1>1, <1>3, <1>5, <1>7, <1>8, <1>9, <1>10, <1>11, <1>12, <1>13, OneStep

LEMMA WorkerSteps ==
  ASSUME IInv, NEW t \in Tokens, launch(t) \/ deadline(t) \/ dies(t) \/ notices(t)
  PROVE  IInv'
<1>1. threads[t].pc = "idle"
  BY Names DEF launch, deadline, dies, notices, IInv, ThreadInv
<1>2. UNCHANGED <<actives, holder, reserved, terminal, ledger, repairs, fetches>> /\ workers[t] # "none"
  BY DEF launch, deadline, dies, notices, sessionVars
<1>3. PICK w \in {"open", "dead", "closed", "partial", "expired", "orphan"} : workers' = [workers EXCEPT ![t] = w]
            /\ \/ UNCHANGED threads /\ (w \in {"open", "dead"} \/ workers[t] = "partial")
               \/ \E pc \in Reports, status \in {"failed", "timed_out"} :
                    threads' = [threads EXCEPT ![t] = [Idle EXCEPT !.pc = pc, !.token = t, !.status = status]]
  BY DEF launch, deadline, dies, notices, Calls, Reports
<1>4. workers[t] = "partial" => actives[t].lifecycle \notin {"pending", "active"}
  BY <1>1 DEF IInv, TokenInv, BrowserInv, Reports
<1> QED BY <1>1, <1>2, <1>3, <1>4, BrowserStep

\* A step of no thread, that forgets at most.
LEMMA StillStep ==
  ASSUME IInv, Similar, UNCHANGED <<threads, workers, repairs, holder, fetches, reserved>>,
         terminal' \in [Tokens -> Told], \A t \in Tokens : terminal'[t] \in {terminal[t], NoOutcome},
         ledger' \in [Tokens -> {"none", "reserved", "used"}], \A t \in Tokens : ledger'[t] \in {ledger[t], "none"}
  PROVE  IInv'
<1>1. Types'
  BY DEF IInv, Types, Similar
<1>2. ASSUME NEW t \in Tokens PROVE NotCompleted(t) => NotCompleted(t)'
  BY DEF NotCompleted, Similar, Alike, NoOutcome, NONE
<1>3. ASSUME NEW t \in Tokens PROVE Respects({}, t)
  BY <1>2 DEF Similar, Alike, Respects, Follows, Live, Over
<1>4. \A q \in Threads : ThreadInv(q)'
  BY <1>3, OthersStay
<1>5. OneOwner'
  BY DEF IInv, OneOwner
<1>6. LeaseInv'
  <2>1. \A t \in Tokens : KeepsLease({}, t)
    BY DEF Similar, Alike, KeepsLease, Live
  <2>2. \A d \in Domains : holder'[d] = holder[d]
    OBVIOUS
  <2> QED BY <2>1, <2>2, LeaseStays
<1>7. ASSUME NEW t \in Tokens PROVE TokenInv(t)'
  <2>1. TokenInv(t) /\ Alike(actives[t], actives'[t])
    BY DEF IInv, Similar
  <2>2. Shaped(actives'[t])
    BY <2>1 DEF TokenInv, Alike, Shaped, Live, Over
  <2>3. OutcomeInv(t)'
    BY <2>1 DEF TokenInv, OutcomeInv, Alike, Over
  <2>4. LedgerInv(t)'
    BY <1>2, <2>1 DEF TokenInv, LedgerInv, Alike, Consumed, Over
  <2>5. BrowserInv(t)'
    BY <2>1 DEF TokenInv, BrowserInv, Alike, Live
  <2>6. actives'[t].lifecycle = "terminating" => \E q \in Threads : T(q)' = t /\ InEnd(threads'[q])
    BY <2>1 DEF TokenInv, Alike
  <2> QED BY <2>2, <2>3, <2>4, <2>5, <2>6 DEF TokenInv
<1>8. CapacityInv'
  <2>1. \A t \in Tokens : Shaped(actives'[t])
    BY <1>7 DEF TokenInv
  <2>2. \A t \in Tokens : actives'[t].lifecycle \in Live => actives[t].lifecycle \in Live
    BY DEF Similar, Alike, Live
  <2> QED BY <2>1, <2>2, CapacityStays
<1> QED BY <1>1, <1>4, <1>5, <1>6, <1>7, <1>8 DEF IInv

LEMMA TimeSteps ==
  ASSUME IInv, NEW t \in Tokens, run_out(t) \/ forget(t)
  PROVE  IInv'
<1>1. Types
  BY DEF IInv
<1>2. CASE run_out(t)
  <2>1. PICK a : a = [actives[t] EXCEPT !.due = TRUE]
    OBVIOUS
  <2>2. IsVerification(a) /\ Alike(actives[t], a)
    <3>1. PICK v : v = actives[t] /\ IsVerification(v)
      BY <1>1 DEF Types
    <3>2. a = [v EXCEPT !.due = TRUE]
      BY <2>1, <3>1
    <3>3. /\ IsVerification(a) /\ a.lifecycle = v.lifecycle /\ a.registered = v.registered
          /\ a.failed = v.failed /\ a.cleanup_status = v.cleanup_status /\ a.domain = v.domain
      BY <3>1, <3>2 DEF IsVerification
    <3> QED BY <3>1, <3>3 DEF Alike
  <2>3. Similar
    BY <1>2, <2>1, <2>2, AlikePut DEF run_out
  <2> QED BY <1>1, <1>2, <2>3, StillStep DEF run_out, sessionVars, Types
<1>3. CASE forget(t)
  <2>1. Similar
    BY <1>3, AlikeSame DEF forget
  <2>2. NoOutcome \in Told
    BY DEF NoOutcome, Told
  <2>3. /\ terminal' \in [Tokens -> Told] /\ \A u \in Tokens : terminal'[u] \in {terminal[u], NoOutcome}
        /\ ledger' \in [Tokens -> {"none", "reserved", "used"}] /\ \A u \in Tokens : ledger'[u] \in {ledger[u], "none"}
    BY <1>1, <1>3, <2>2 DEF forget, Types
  <2> QED BY <1>3, <2>1, <2>3, StillStep DEF forget, sessionVars
<1> QED BY <1>2, <1>3

-----------------------------------------------------------------------------
(* The headless reads, the crash, and all of it.                             *)

LEMMA FetchStep ==
  ASSUME IInv, NEW f \in Fetches, NEW r, IsRead(r), fetches' = [fetches EXCEPT ![f] = r],
         UNCHANGED <<actives, reserved, workers, terminal, ledger, repairs, threads>>,
         \A d \in Domains : holder'[d] \in {holder[d], Nobody, f},
         holder' \in [Domains -> Tokens \cup Fetches \cup {Nobody}],
         \A d \in Domains : holder'[d] = f => r.state \in {"reading", "failed"} /\ r.domain = d
  PROVE  IInv'
<1>1. /\ fetches = [g \in Fetches |-> fetches[g]] /\ \A g \in Fetches : IsRead(fetches[g])
  BY DEF IInv, Types
<1>2. fetches' = [g \in Fetches |-> IF g = f THEN r ELSE fetches[g]]
  BY <1>1
<1>3. Types'
  <2>1. fetches' = [g \in Fetches |-> fetches'[g]] /\ \A g \in Fetches : IsRead(fetches'[g])
    BY <1>1, <1>2
  <2> QED BY <2>1 DEF IInv, Types
<1>4. ASSUME NEW t \in Tokens PROVE Respects({}, t)
  BY Names DEF Respects, Follows, NotCompleted
<1>5. \A q \in Threads : ThreadInv(q)'
  BY <1>4, OthersStay
<1>6. OneOwner'
  BY DEF IInv, OneOwner
<1>7. LeaseInv'
  <2>1. SUFFICES ASSUME NEW d \in Domains
                 PROVE  /\ holder'[d] \in Tokens =>
                             /\ actives'[holder'[d]].domain = d
                             /\ \/ actives'[holder'[d]].lifecycle \in Live
                                \/ \E q \in Threads : T(q)' = holder'[d] /\ threads'[q].pc = "register"
                        /\ holder'[d] \in Fetches => fetches'[holder'[d]].state \in {"reading", "failed"}
                                                     /\ fetches'[holder'[d]].domain = d
    BY DEF LeaseInv
  <2>2. CASE holder'[d] = f
    BY <1>2, <2>2, Names
  <2>3. CASE holder'[d] = Nobody
    BY <2>3, Names
  <2>4. CASE holder'[d] = holder[d] /\ holder[d] # f
    <3>1. /\ holder[d] \in Tokens =>
               /\ actives[holder[d]].domain = d
               /\ \/ actives[holder[d]].lifecycle \in Live
                  \/ \E q \in Threads : T(q) = holder[d] /\ threads[q].pc = "register"
          /\ holder[d] \in Fetches => fetches[holder[d]].state \in {"reading", "failed"}
                                      /\ fetches[holder[d]].domain = d
      BY DEF IInv, LeaseInv
    <3>2. holder[d] \in Fetches => fetches'[holder[d]] = fetches[holder[d]]
      BY <1>2, <2>4
    <3>3. (\E q \in Threads : T(q) = holder[d] /\ threads[q].pc = "register") =>
            \E q \in Threads : T(q)' = holder[d] /\ threads'[q].pc = "register"
      OBVIOUS
    <3> QED BY <2>4, <3>1, <3>2, <3>3
  <2> QED BY <2>2, <2>3, <2>4
<1>8. CapacityInv'
  <2>1. Reservers' = Reservers /\ _capacity_used' = _capacity_used
    BY DEF Reservers, _capacity_used
  <2> QED BY <2>1 DEF IInv, CapacityInv
<1>9. ASSUME NEW t \in Tokens PROVE TokenInv(t)'
  <2>1. Untouched(t) /\ ~ Awaited({}, t)
    BY DEF Untouched, Awaited
  <2> QED BY <2>1, TokenStays
<1> QED BY <1>3, <1>5, <1>6, <1>7, <1>8, <1>9 DEF IInv

LEMMA ReadSteps ==
  ASSUME IInv, NEW f \in Fetches, fetch_page(f) \/ fetch_page_closes(f) \/ fetch_retry_cleanup(f)
  PROVE  IInv'
<1>1. IsRead(fetches[f]) /\ fetches = [g \in Fetches |-> fetches[g]]
      /\ holder \in [Domains -> Tokens \cup Fetches \cup {Nobody}]
  BY DEF IInv, Types
<1>2. UNCHANGED <<actives, reserved, workers, terminal, ledger, repairs, threads>>
  BY DEF fetch_page, fetch_page_closes, fetch_retry_cleanup
<1>3. \A d \in Domains : holder[d] = f => fetches[f].state \in {"reading", "failed"} /\ fetches[f].domain = d
  BY DEF IInv, LeaseInv
<1>4. ASSUME NEW state \in {"over", "failed"}, fetches' = [fetches EXCEPT ![f].state = state],
             \/ UNCHANGED holder /\ (fetches[f].state = "unused" \/ state = "failed")
             \/ holder' = [holder EXCEPT ![fetches[f].domain] = Nobody]
      PROVE  IInv'
  <2>1. PICK r : r = [fetches[f] EXCEPT !.state = state]
    OBVIOUS
  <2>2. IsRead(r) /\ r.state = state /\ r.domain = fetches[f].domain
    BY <1>1, <2>1 DEF IsRead
  <2>3. fetches' = [fetches EXCEPT ![f] = r]
    BY <1>1, <1>4, <2>1
  <2>4. CASE UNCHANGED holder /\ (fetches[f].state = "unused" \/ state = "failed")
    BY <1>1, <1>2, <1>3, <2>2, <2>3, <2>4, FetchStep
  <2>5. CASE holder' = [holder EXCEPT ![fetches[f].domain] = Nobody]
    <3>1. \A d \in Domains : holder'[d] \in {holder[d], Nobody} /\ holder'[d] # f
      BY <1>1, <1>3, <2>5, Names
    <3>2. holder' \in [Domains -> Tokens \cup Fetches \cup {Nobody}]
      BY <1>1, <2>5
    <3> QED BY <1>2, <2>2, <2>3, <3>1, <3>2, FetchStep
  <2> QED BY <1>4, <2>4, <2>5
<1>5. CASE fetch_page(f)
  <2>1. fetches[f].state = "unused"
    BY <1>5 DEF fetch_page
  <2>2. CASE fetches' = [fetches EXCEPT ![f].state = "over"] /\ UNCHANGED holder
    BY <1>4, <2>1, <2>2
  <2>3. ASSUME NEW d \in Domains, Acquires(d, f),
               fetches' = [fetches EXCEPT ![f] = [state |-> "reading", domain |-> d, session |-> SessionOf(disk', d)]]
        PROVE  IInv'
    <3>1. PICK r : r = [state |-> "reading", domain |-> d, session |-> SessionOf(disk', d)]
      OBVIOUS
    <3>2. IsRead(r) /\ r.state = "reading" /\ r.domain = d
      BY <3>1 DEF IsRead
    <3>3. holder' = [holder EXCEPT ![d] = f]
      BY <2>3 DEF Acquires
    <3>4. /\ \A e \in Domains : holder'[e] \in {holder[e], f} /\ (holder'[e] = f => e = d)
          /\ holder' \in [Domains -> Tokens \cup Fetches \cup {Nobody}]
      BY <1>1, <1>3, <2>1, <3>3
    <3> QED BY <1>2, <2>3, <3>1, <3>2, <3>4, FetchStep
  <2> QED BY <1>5, <2>2, <2>3 DEF fetch_page, AcquireFails, sessionVars
<1>6. CASE fetch_page_closes(f) \/ fetch_retry_cleanup(f)
  BY <1>4, <1>6 DEF fetch_page_closes, fetch_retry_cleanup, close, close_fails
<1> QED BY <1>5, <1>6

\* Nothing is there: at the start, and after a crash.
NothingLeft ==
  /\ threads = [p \in Threads |-> Idle] /\ reserved = 0 /\ holder = [d \in Domains |-> Nobody]
  /\ workers = [t \in Tokens |-> "none"] /\ terminal = [t \in Tokens |-> NoOutcome]
  /\ repairs = [t \in Tokens |-> "none"] /\ ledger \in [Tokens -> {"none", "reserved", "used"}]
  /\ actives = [t \in Tokens |-> actives[t]]
  /\ \A t \in Tokens : \/ actives[t] = NoActive /\ ledger[t] = "none"
                       \/ actives[t] = [NoActive EXCEPT !.lifecycle = "lost"]
  /\ fetches = [f \in Fetches |-> fetches[f]] /\ \A f \in Fetches : IsRead(fetches[f])

LEMMA NothingThere ==
  ASSUME NothingLeft
  PROVE  IInv
<1> USE DEF NothingLeft
<1>1. ASSUME NEW t \in Tokens
      PROVE  /\ IsVerification(actives[t]) /\ Shaped(actives[t]) /\ actives[t].lifecycle \in {"unused", "lost"}
             /\ actives[t].cleanup_status = NONE /\ (actives[t].lifecycle = "unused" => ledger[t] = "none")
  <2>1. /\ IsVerification(NoActive) /\ Shaped(NoActive) /\ NoActive.lifecycle = "unused"
        /\ NoActive.cleanup_status = NONE
    BY DEF NoActive, IsVerification, Shaped, Lifecycles, Live, Over, Threads
  <2>2. PICK lost : lost = [NoActive EXCEPT !.lifecycle = "lost"]
    OBVIOUS
  <2>3. IsVerification(lost) /\ Shaped(lost) /\ lost.lifecycle = "lost" /\ lost.cleanup_status = NONE
    BY <2>2 DEF NoActive, IsVerification, Shaped, Lifecycles, Live, Over, Threads
  <2> QED BY <2>1, <2>2, <2>3
<1>2. \A p \in Threads : threads[p] = Idle
  OBVIOUS
<1>3. Types
  <2>1. threads \in [Threads -> Thread] /\ terminal \in [Tokens -> Told]
    BY IdleFacts DEF NoOutcome, Told
  <2> QED BY <1>1, <2>1 DEF Types
<1>4. \A p \in Threads : ThreadInv(p)
  BY <1>2, IdleFacts DEF ThreadInv, Sound, IdleLike, InBegin, Free, Beginning, Closing, Stopping, Ending, Reports
<1>5. OneOwner
  BY <1>2, IdleFacts DEF OneOwner, Owns, InBegin, InEnd, Beginning, Ending, Closing
<1>6. LeaseInv
  BY Names DEF LeaseInv
<1>7. CapacityInv
  <2>1. Reservers = {} /\ InUse = {}
    BY <1>1, <1>2, IdleFacts DEF Reservers, InBegin, Beginning, InUse, Live
  <2>2. _capacity_used = Cardinality(InUse)
    BY <1>1, PlacesTaken
  <2>3. MaxActive \in Nat
    BY CoordinatorAssumption
  <2> QED BY <2>1, <2>2, <2>3, FS_EmptySet DEF CapacityInv
<1>8. ASSUME NEW t \in Tokens PROVE TokenInv(t)
  <2>1. terminal[t] = NoOutcome /\ workers[t] = "none" /\ repairs[t] = "none" /\ NoOutcome.status = NONE
    BY DEF NoOutcome
  <2>2. LedgerInv(t)
    BY <1>1, <2>1 DEF LedgerInv, Consumed, NotCompleted, Over, NONE
  <2> QED BY <1>1, <2>1, <2>2 DEF TokenInv, OutcomeInv, BrowserInv
<1> QED BY <1>3, <1>4, <1>5, <1>6, <1>7, <1>8 DEF IInv

LEMMA NothingNow == NothingLeft => IInv
BY NothingThere

LEMMA NothingLater == (NothingLeft => IInv)'
BY NothingNow, PTL

LEMMA CrashStep ==
  ASSUME IInv, crash
  PROVE  IInv'
<1>1. Types /\ \A t \in Tokens : LedgerInv(t)
  BY DEF IInv, TokenInv
<1>2. NothingLeft' => IInv'
  BY NothingLater
<1>3. /\ actives' = [t \in Tokens |-> actives'[t]]
      /\ \A t \in Tokens : \/ actives'[t] = NoActive /\ ledger'[t] = "none"
                           \/ actives'[t] = [NoActive EXCEPT !.lifecycle = "lost"]
  <2>1. actives' = [t \in Tokens |-> IF actives[t].lifecycle = "unused" THEN NoActive
                                     ELSE [NoActive EXCEPT !.lifecycle = "lost"]]
    BY DEF crash
  <2>2. \A t \in Tokens : actives[t].lifecycle = "unused" => ledger'[t] = "none"
    BY <1>1 DEF crash, LedgerInv
  <2> QED BY <2>1, <2>2, Zenon
<1>4. fetches' = [f \in Fetches |-> fetches'[f]] /\ \A f \in Fetches : IsRead(fetches'[f])
  <2>1. fetches' = [f \in Fetches |-> IF fetches[f].state = "unused" THEN NoFetch
                                      ELSE [NoFetch EXCEPT !.state = "over"]]
    BY DEF crash
  <2>2. IsRead(NoFetch) /\ IsRead([NoFetch EXCEPT !.state = "over"])
    BY DEF NoFetch, IsRead
  <2>3. fetches' = [f \in Fetches |-> fetches'[f]]
    BY <2>1, Zenon
  <2> QED BY <2>1, <2>2, <2>3
<1>5. NothingLeft'
  BY <1>1, <1>3, <1>4 DEF NothingLeft, crash, Types
<1> QED BY <1>2, <1>5

LEMMA Initially ==
  ASSUME Init
  PROVE  IInv
<1>1. IsRead(NoFetch)
  BY DEF NoFetch, IsRead
<1>2. NothingLeft
  BY <1>1 DEF Init, NothingLeft
<1> QED BY <1>2, NothingThere

LEMMA Inductive ==
  ASSUME IInv, [Next]_vars
  PROVE  IInv'
<1>1. ASSUME NEW p \in Threads, Goes(p) PROVE IInv'
  <2>1. CASE expire_sweep_lists(p) \/ expire_sweep(p)
    BY <2>1, SweepQuiet
  <2>2. CASE begin(p) \/ reserve(p) \/ begin_acquires(p) \/ register(p)
    BY <2>2, BeginStep, ReserveStep, AcquireStep, RegisterStep
  <2>3. CASE start(p) \/ navigate(p) \/ activate(p) \/ begin_failed(p)
    BY <2>3, StartQuiet, ActivateQuiet, BeginFailedQuiet
  <2>4. CASE _finish(p) \/ wait(p)
    BY <2>4, FinishStep, WaitQuiet
  <2>5. CASE close_worker(p) \/ worker_closes(p) \/ close_lease(p) \/ commit(p)
    BY <2>5, CloseQuiet, WorkerClosesStep, CloseLeaseStep, CommitStep
  <2>6. CASE _quarantine(p) \/ store(p) \/ _finish_ledger(p)
    BY <2>6, QuarantineStep, StoreStep, FinishLedgerStep
  <2>7. CASE look(p) \/ _handle_worker_failure(p) \/ retry_locks(p)
    BY <2>7, LookQuiet, WorkerFailureQuiet, RetryLocksQuiet
  <2>8. CASE _worker_terminal(p) \/ marks_stale(p)
    BY <2>8, WorkerTerminalStep, CloseQuiet
  <2> QED BY <1>1, <2>1, <2>2, <2>3, <2>4, <2>5, <2>6, <2>7, <2>8 DEF Goes
<1>2. ASSUME NEW p \in Clients, _retry_ledger_repairs(p) PROVE IInv'
  BY <1>2, RepairsStep
<1>3. ASSUME NEW p \in Clients, NEW t \in Tokens,
             continue_verification(p, t) \/ cancel(p, t) \/ retry_cleanup(p, t)
      PROVE  IInv'
  BY <1>3, ClientStarts, CleanUpStarts
<1>4. ASSUME NEW t \in Tokens, launch(t) \/ deadline(t) \/ dies(t) \/ notices(t) \/ run_out(t) \/ forget(t)
      PROVE  IInv'
  BY <1>4, WorkerSteps, TimeSteps
<1>5. ASSUME NEW f \in Fetches, fetch_page(f) \/ fetch_page_closes(f) \/ fetch_retry_cleanup(f) PROVE IInv'
  BY <1>5, ReadSteps
<1>6. CASE (\E d \in Domains : administer(d) \/ damaged(d)) \/ opens
  <2>1. UNCHANGED <<coordinatorVars, holder>>
    BY <1>6 DEF administer, damaged, opens, _set_status, clear, damage, open_store
  <2> QED BY <2>1, StoreQuiet
<1>7. CASE crash
  BY <1>7, CrashStep
<1>8. CASE UNCHANGED vars
  BY <1>8, StoreQuiet DEF vars, sessionVars
<1> QED BY <1>1, <1>2, <1>3, <1>4, <1>5, <1>6, <1>7, <1>8 DEF Next

\* What the threads and the verifications agree on, always.
THEOREM InvariantHolds == Spec => []IInv
<1>1. Init => IInv
  BY Initially
<1>2. IInv /\ [Next]_vars => IInv'
  BY Inductive
<1> QED BY <1>1, <1>2, PTL DEF Spec

-----------------------------------------------------------------------------
(* What it means for clients, pages and domains.                             *)

\* max_active is never exceeded, by those being begun and those in quarantine either: a
\* place is reserved with the check and given up when the verification takes it
\* (begin, _capacity_used).
THEOREM PlacesAreNeverExceeded == Spec => []WithinCapacity
<1>1. IInv => WithinCapacity
  BY DEF IInv, CapacityInv, WithinCapacity
<1> QED BY <1>1, InvariantHolds, PTL

LEMMA SomebodyIsBusy ==
  ASSUME IInv, NEW p \in Threads, threads[p].pc \notin Free
  PROVE  T(p) \in Tokens /\ Busy(T(p))
<1>1. Sound(threads[p])
  BY DEF IInv, ThreadInv
<1> QED BY <1>1 DEF Sound, Busy, Free

\* The lock of a domain is never left behind: it belongs to a call that is going on, to a
\* verification that can still be ended or cleaned up, or to a read that is (_release,
\* _quarantine, retry_cleanup, fetch_page).
THEOREM LeasesAreTracked == Spec => []LeaseIsTracked
<1>1. ASSUME IInv, NEW d \in Domains, holder[d] # Nobody
      PROVE  IF holder[d] \in Tokens
             THEN Busy(holder[d]) \/ actives[holder[d]].registered \/ actives[holder[d]].failed
             ELSE fetches[holder[d]].state \in {"reading", "failed"}
  <2>1. holder[d] \in Tokens \cup Fetches
    BY <1>1 DEF IInv, Types
  <2>2. ASSUME NEW t \in Tokens, holder[d] = t
        PROVE  Busy(t) \/ actives[t].registered
    <3>1. Shaped(actives[t])
      BY <1>1 DEF IInv, TokenInv
    <3>2. CASE actives[t].lifecycle \in Live
      BY <3>1, <3>2 DEF Shaped
    <3>3. ASSUME NEW p \in Threads, T(p) = t, threads[p].pc = "register" PROVE Busy(t)
      BY <3>3 DEF Busy
    <3> QED BY <1>1, <2>2, <3>2, <3>3 DEF IInv, LeaseInv
  <2>3. holder[d] \notin Tokens => fetches[holder[d]].state \in {"reading", "failed"}
    BY <1>1, <2>1 DEF IInv, LeaseInv
  <2> QED BY <2>2, <2>3
<1>2. IInv => LeaseIsTracked
  BY <1>1 DEF LeaseIsTracked
<1> QED BY <1>2, InvariantHolds, PTL

\* No attempt is lost between the coordinator and the ledger: once every call has returned it is
\* used, given back or waiting for the next sweep, and one that was completed is not charged
\* (_finish_ledger, _retry_ledger_repairs).
THEOREM AttemptsAreSettled == Spec => []AttemptSettled
<1>1. ASSUME IInv, NEW t \in Tokens
      PROVE  /\ actives[t].lifecycle \in {"quarantined", "released", "gone"} /\ ~ Busy(t)
                  => ledger[t] # "reserved" \/ repairs[t] # "none"
             /\ terminal[t].status = "completed" => ledger[t] # "used" /\ repairs[t] # "consumed"
  <2>1. LedgerInv(t)
    BY <1>1 DEF IInv, TokenInv
  <2>2. ASSUME NEW p \in Threads, T(p) = t, ToSettle(threads[p]) PROVE Busy(t)
    BY <2>2 DEF Busy, ToSettle
  <2> QED BY <2>1, <2>2 DEF LedgerInv, Consumed, NotCompleted, Over
<1>2. IInv => AttemptSettled
  BY <1>1 DEF AttemptSettled
<1> QED BY <1>2, InvariantHolds, PTL

\* A verification that its user is waited for has a browser, unless somebody is about to start or
\* to end it: what the browser's thread has to tell is never lost (_worker_terminal).
THEOREM WaitingHasBrowser == Spec => []HasBrowser
<1>1. ASSUME IInv, NEW t \in Tokens, actives[t].lifecycle \in {"pending", "active", "terminating"}, ~ Busy(t)
      PROVE  workers[t] \in {"open", "dead"}
  <2>1. TokenInv(t)
    BY <1>1 DEF IInv
  <2>2. ASSUME NEW p \in Threads, T(p) = t, InEnd(threads[p]) \/ threads[p].pc = "start" PROVE Busy(t)
    BY <2>2 DEF Busy, InEnd, Ending, Closing
  <2>3. threads[t].pc \in Reports => Busy(t)
    BY <1>1, Names DEF IInv, ThreadInv, Busy, Reports
  <2> QED BY <1>1, <2>1, <2>2, <2>3 DEF TokenInv, BrowserInv
<1>2. IInv => HasBrowser
  BY <1>1 DEF HasBrowser
<1> QED BY <1>2, InvariantHolds, PTL

\* Who comes second is told the same: the one that decides to end a verification commits its
\* outcome before anybody else can, and a later clean-up repeats what was quarantined.
LEMMA OutcomeIsKept ==
  ASSUME IInv, [Next]_vars, NEW t \in Tokens, terminal[t] # NoOutcome, terminal'[t] # NoOutcome
  PROVE  terminal'[t].status = terminal[t].status
<1>1. OutcomeInv(t) /\ terminal \in [Tokens -> Told]
  BY DEF IInv, TokenInv, Types
<1>2. ASSUME NEW p \in Threads, commit(p) PROVE terminal'[t].status = terminal[t].status
  <2>1. PICK s, r : terminal' = [terminal EXCEPT ![T(p)] = Outcome(s, FALSE, r)]
                    /\ (threads[p].retries => s = Active(p).cleanup_status)
    BY <1>2 DEF commit
  <2>2. CASE T(p) # t
    BY <1>1, <2>1, <2>2
  <2>3. CASE T(p) = t
    <3>1. Fits(threads[p], actives[t])
      BY <1>2, <2>3 DEF IInv, ThreadInv, commit, Free
    <3>2. threads[p].retries
      BY <1>1, <1>2, <3>1 DEF Fits, OutcomeInv, InEnd, Ending, Closing, Over, commit
    <3>3. actives[t].cleanup_status # NONE
      BY <3>1, <3>2 DEF Fits
    <3>4. terminal[t].status = actives[t].cleanup_status
      BY <1>1, <3>3 DEF OutcomeInv
    <3> QED BY <1>1, <2>1, <2>3, <3>2, <3>4 DEF Outcome
  <2> QED BY <2>2, <2>3
<1>3. ASSUME NEW p \in Threads, store(p) PROVE terminal'[t].status = terminal[t].status
  <2>1. PICK r : terminal' = [terminal EXCEPT ![T(p)] = Outcome(Active(p).cleanup_status, TRUE, r)]
    BY <1>3 DEF store
  <2>2. CASE T(p) # t
    BY <1>1, <2>1, <2>2
  <2>3. CASE T(p) = t
    <3>1. Fits(threads[p], actives[t])
      BY <1>3, <2>3 DEF IInv, ThreadInv, store, Free
    <3>2. terminal[t].status = actives[t].cleanup_status
      BY <1>1, <1>3, <3>1 DEF Fits, OutcomeInv, store
    <3> QED BY <1>1, <2>1, <2>3, <3>2 DEF Outcome
  <2> QED BY <2>2, <2>3
<1>4. ASSUME NEW p \in Threads, Goes(p) PROVE commit(p) \/ store(p) \/ UNCHANGED terminal
  BY <1>4 DEF Goes, expire_sweep_lists, expire_sweep, begin, reserve, begin_acquires, register, start,
       navigate, activate, begin_failed, _finish, wait, close_worker, worker_closes, close_lease,
       _quarantine, _finish_ledger, look, _handle_worker_failure, retry_locks, _worker_terminal,
       marks_stale
<1>5. ASSUME NEW u \in Tokens, forget(u) PROVE terminal'[t].status = terminal[t].status
  BY <1>1, <1>5 DEF forget
<1>6. CASE crash
  BY <1>6 DEF crash
<1>7. CASE \/ \E p \in Clients : _retry_ledger_repairs(p)
           \/ \E p \in Clients, u \in Tokens :
                continue_verification(p, u) \/ cancel(p, u) \/ retry_cleanup(p, u)
           \/ \E u \in Tokens : launch(u) \/ deadline(u) \/ dies(u) \/ notices(u) \/ run_out(u)
           \/ \E f \in Fetches : fetch_page(f) \/ fetch_page_closes(f) \/ fetch_retry_cleanup(f)
           \/ \E d \in Domains : administer(d) \/ damaged(d)
           \/ opens \/ UNCHANGED vars
  BY <1>7 DEF _retry_ledger_repairs, continue_verification, cancel, retry_cleanup, launch, deadline, dies,
       notices, run_out, fetch_page, fetch_page_closes, fetch_retry_cleanup, administer, damaged, opens,
       vars, coordinatorVars
<1> QED BY <1>2, <1>3, <1>4, <1>5, <1>6, <1>7 DEF Next

\* What clients are told of a verification that has ended does not change, however many of them,
\* and the browser's thread, end it at once (_finish, _worker_terminal, retry_cleanup).
THEOREM OutcomesAreFinal == Spec => OutcomeIsFinal
<1>1. IInv /\ [Next]_vars => [\A t \in Tokens : terminal[t] # NoOutcome /\ terminal'[t] # NoOutcome
                                => terminal'[t].status = terminal[t].status]_vars
  BY OutcomeIsKept
<1> QED BY <1>1, InvariantHolds, PTL DEF Spec, OutcomeIsFinal

=============================================================================
