-------------------------- MODULE WebServer_proofs --------------------------
(***************************************************************************)
(* Proofs about WebServer and ApplicationService, for any number of        *)
(* callers, workers, connections and interrupts, any queue and any set of  *)
(* operations.                                                             *)
(*                                                                         *)
(* The invariant follows a request from its count to its end: whoever is   *)
(* at work has been counted, so that the application is not closed before  *)
(* everybody has finished, unless the user insists.  The part about the    *)
(* permission says what it may find where the operator has set the switch. *)
(***************************************************************************)
EXTENDS WebServer, FiniteSetTheorems, TLAPS
RequestPC == {"none", "accepted", "started", "permitted", "calling", "answered", "released"}
RequestType == [pc : RequestPC, operation : Operations \cup {"none"}, third : BOOLEAN,
                allow : BOOLEAN, saved : SUBSET BOOLEAN,
                answer : {None, "answered", "refused", "denied"}]
CallType == [at : {"none", "called", "submit", "locked", "view", "returned"},
             operation : Operations \cup {"none"}, third : BOOLEAN,
             result : {"none", "answered", "consent"}]
MainType == [pc : {"build", "unbuild", "start", "poll", "acquired", "counted", "drain", "close", "exit"},
             handler : Callers \cup {NoOne}, tries : 0 .. 3]

Types ==
  /\ main \in MainType
  /\ requests \in [Callers -> RequestType]
  /\ calls \in [Callers -> CallType]
  /\ interrupts \in Nat
  /\ operator \in BOOLEAN /\ allowed \in BOOLEAN

\* A call is made inside a request, and so is a permission.
HandlerInv(h) ==
  /\ calls[h].at # "none" => requests[h].pc = "calling"
  /\ calls[h].at # "returned" => calls[h].result = "none"
  /\ requests[h].saved # {} => requests[h].pc = "calling"
  /\ requests[h].pc = "calling" => (requests[h].allow <=> requests[h].saved # {})
  /\ calls[h].at = "locked" => lock = h

HandlersInv == \A h \in Callers : HandlerInv(h)

\* A request at work has been counted; the main thread may be about to start one more.
AtWork == {h \in Callers : requests[h].pc \notin {"none", "accepted"}}
Starting == IF main.pc = "counted" THEN 1 ELSE 0

CountInv ==
  /\ IsFiniteSet(AtWork) /\ active \in Nat
  /\ active >= Cardinality(AtWork) + Starting

MainInv ==
  /\ main.pc \in {"acquired", "counted"} =>
       main.handler \in Callers /\ requests[main.handler].pc = "accepted"
  /\ main.pc \notin {"acquired", "counted"} => main.handler = NoOne
  /\ main.pc \in {"build", "unbuild", "start"} => AtWork = {}
  /\ main.pc = "drain" => interrupts >= 1
  /\ main.pc \in {"close", "exit"} => interrupts > 1 \/ AtWork = {}

\* Nobody is closed before the end, nobody has the lock once closing has begun, and what the
\* executor's threads use is closed when they have ended.
ClosingInv ==
  /\ main.pc \notin {"close", "exit"} => closed = {} /\ state = "open"
  /\ closing # "no" => state # "open"
  /\ state # "open" => \A c \in Callers : calls[c].at # "locked"
  /\ closed # {} => state # "open" \/ (main.pc = "exit" /\ AtWork = {})
  /\ closing \in {"controller", "repository", "crawler"} => Ended
  /\ closed \cap ThreadUses # {} => Ended

\* Where the operator has set the switch it stays set, and so every permission has found it.
ConsentInv ==
  operator =>
    /\ allowed = TRUE
    /\ \A h \in Callers : requests[h].saved \subseteq {TRUE}
    /\ \A h \in Callers : calls[h].result # "consent"

IInv == Types /\ HandlersInv /\ CountInv /\ MainInv /\ ClosingInv /\ ConsentInv

-----------------------------------------------------------------------------

LEMMA Names ==
  /\ NoOne \notin Callers /\ Main \notin Callers
  /\ QueueSize \in Nat
BY ServiceAssumption

LEMMA Empty ==
  /\ NoRequest \in RequestType /\ NoRequest.pc = "none" /\ NoRequest.saved = {}
  /\ NoRequest.answer # "denied" /\ NoRequest.allow = FALSE
  /\ NoCall \in CallType /\ NoCall.at = "none" /\ NoCall.result = "none"
BY DEF NoRequest, RequestType, RequestPC, None, NoCall, CallType

\* What a thread at a request knows.
LEMMA Mine ==
  ASSUME IInv, NEW h \in Callers
  PROVE  /\ requests[h] \in RequestType /\ calls[h] \in CallType /\ HandlerInv(h)
         /\ requests \in [Callers -> RequestType] /\ calls \in [Callers -> CallType]
         /\ requests[h].pc \in {"started", "permitted", "calling", "answered", "released"} => h \in AtWork
         /\ calls[h].at # "none" => requests[h].pc = "calling"
BY DEF IInv, Types, HandlersInv, HandlerInv, AtWork

\* One element more or less.
LEMMA Taken ==
  ASSUME NEW S, IsFiniteSet(S), NEW x \in S
  PROVE  /\ IsFiniteSet(S \ {x}) /\ Cardinality(S \ {x}) \in Nat
         /\ Cardinality(S) = Cardinality(S \ {x}) + 1
<1>1. IsFiniteSet(S \ {x}) /\ Cardinality(S \ {x}) = Cardinality(S) - 1
  BY FS_RemoveElement
<1>2. Cardinality(S) \in Nat /\ Cardinality(S \ {x}) \in Nat
  BY <1>1, FS_CardinalityType
<1> QED BY <1>1, <1>2

LEMMA Added ==
  ASSUME NEW S, IsFiniteSet(S), NEW x, x \notin S
  PROVE  IsFiniteSet(S \cup {x}) /\ Cardinality(S \cup {x}) = Cardinality(S) + 1
BY FS_AddElement

-----------------------------------------------------------------------------
(* A step of a thread at a request. *)

Only(h, r, call) ==
  /\ requests' = [requests EXCEPT ![h] = r]
  /\ calls' = [calls EXCEPT ![h] = call]

LEMMA OnlyOne ==
  ASSUME IInv, NEW h \in Callers, NEW r, NEW call, Only(h, r, call)
  PROVE  /\ requests'[h] = r /\ calls'[h] = call
         /\ \A g \in Callers \ {h} : requests'[g] = requests[g] /\ calls'[g] = calls[g]
BY Mine DEF Only

LEMMA HandlerStep ==
  ASSUME IInv, NEW h \in Callers, h \in AtWork, main.pc # "exit",
         NEW r \in RequestType, NEW call \in CallType, Only(h, r, call), r.pc # "accepted",
         \/ r.pc # "none" /\ active' = active
         \/ r.pc = "none" /\ active' = active - 1,
         UNCHANGED <<mainVars, closed, closing, state, threads>>,
         lock' = lock \/ lock \in {h, NoOne}, call.at = "locked" => state = "open",
         allowed' \in BOOLEAN, HandlerInv(h)', ConsentInv'
  PROVE  IInv'
<1>1. /\ requests'[h] = r /\ calls'[h] = call
      /\ \A g \in Callers \ {h} : requests'[g] = requests[g] /\ calls'[g] = calls[g]
  BY OnlyOne
<1>2. UNCHANGED <<main, interrupts, operator>>
  BY DEF mainVars
<1>3. Types'
  BY <1>2 DEF IInv, Types, Only
<1>4. HandlersInv'
  <2> SUFFICES ASSUME NEW g \in Callers, g # h PROVE HandlerInv(g)'
    BY DEF HandlersInv
  <2>1. HandlerInv(g) /\ requests'[g] = requests[g] /\ calls'[g] = calls[g]
    BY <1>1, Mine
  <2>2. calls[g].at = "locked" => lock' = g
    BY <2>1, Names DEF HandlerInv
  <2> QED BY <2>1, <2>2 DEF HandlerInv
<1>5. IsFiniteSet(AtWork) /\ active \in Nat /\ active >= Cardinality(AtWork) + Starting
  BY DEF IInv, CountInv
<1>6. CountInv'
  <2>1. Starting' = Starting /\ Starting \in {0, 1}
    BY <1>2 DEF Starting
  <2>2. CASE r.pc # "none"
    <3>1. AtWork' = AtWork
      BY <1>1, <2>2 DEF AtWork
    <3> QED BY <1>5, <2>1, <2>2, <3>1 DEF CountInv
  <2>3. CASE r.pc = "none"
    <3>1. AtWork' = AtWork \ {h} /\ active' = active - 1
      BY <1>1, <2>3 DEF AtWork
    <3>2. /\ IsFiniteSet(AtWork \ {h}) /\ Cardinality(AtWork \ {h}) \in Nat
          /\ Cardinality(AtWork) = Cardinality(AtWork \ {h}) + 1
      BY <1>5, Taken
    <3> QED BY <1>5, <2>1, <3>1, <3>2 DEF CountInv
  <2> QED BY <2>2, <2>3
<1>7. MainInv'
  BY <1>1, <1>2 DEF IInv, MainInv, AtWork
<1>8. ClosingInv'
  <2>1. main.pc = "exit" => main'.pc = "exit"
    BY <1>2
  <2>2. \A c \in Callers : calls'[c].at = "locked" => state = "open"
    BY <1>1 DEF IInv, ClosingInv
  <2> QED BY <1>2, <2>2 DEF IInv, ClosingInv, Ended
<1> QED BY <1>3, <1>4, <1>6, <1>7, <1>8 DEF IInv

\* A step of one request that leaves the operator what it set.
LEMMA ConsentKept ==
  ASSUME IInv, NEW h \in Callers, NEW r, NEW call, Only(h, r, call), operator' = operator,
         operator => allowed' = TRUE /\ r.saved \subseteq {TRUE} /\ call.result # "consent"
  PROVE  ConsentInv'
<1>1. /\ requests'[h] = r /\ calls'[h] = call
      /\ \A g \in Callers \ {h} : requests'[g] = requests[g] /\ calls'[g] = calls[g]
  BY OnlyOne
<1> QED BY <1>1 DEF IInv, ConsentInv

\* Only the call goes on: the operation's own steps.
LEMMA CallStep ==
  ASSUME IInv, NEW h \in Callers, main.pc # "exit", calls[h].at # "none",
         NEW call \in CallType, calls' = [calls EXCEPT ![h] = call], UNCHANGED <<mainVars, handlerVars>>,
         UNCHANGED <<state, closing, allowed, closed, threads>>,
         lock' = lock \/ lock \in {h, NoOne}, call.at = "locked" => state = "open" /\ lock' = h,
         call.at # "none", call.at # "returned" => call.result = "none",
         call.result = "consent" => ~allowed
  PROVE  IInv'
<1> DEFINE r == requests[h]
<1>1. /\ r \in RequestType /\ HandlerInv(h) /\ requests \in [Callers -> RequestType]
      /\ h \in AtWork /\ r.pc = "calling" /\ allowed' \in BOOLEAN
  BY Mine DEF IInv, Types
<1>2. Only(h, r, call) /\ UNCHANGED <<requests, active, operator, mainVars>>
  BY <1>1 DEF Only, handlerVars, mainVars
<1>3. requests'[h] = r /\ calls'[h] = call
  BY <1>2, OnlyOne
<1>4. HandlerInv(h)'
  BY <1>1, <1>3 DEF HandlerInv
<1>5. operator => allowed' = TRUE /\ r.saved \subseteq {TRUE} /\ call.result # "consent"
  BY DEF IInv, ConsentInv
<1>6. ConsentInv'
  BY <1>2, <1>5, ConsentKept
<1> HIDE DEF r
<1> QED BY <1>1, <1>2, <1>4, <1>6, HandlerStep

LEMMA EntersStep ==
  ASSUME IInv, NEW h \in Callers, main.pc # "exit", Enter(h), UNCHANGED <<mainVars, handlerVars>>
  PROVE  IInv'
<1>1. /\ calls[h].at # "none" /\ calls[h] \in CallType /\ calls \in [Callers -> CallType]
      /\ UNCHANGED <<state, closing, allowed, closed, threads>>
  BY Mine DEF Enter, _operation, CallIs, partVars
<1>2. CASE state = "open" /\ lock' = h /\ Goes(h, "locked") /\ lock = NoOne
  <2> DEFINE call == [calls[h] EXCEPT !.at = "locked"]
  <2>1. calls' = [calls EXCEPT ![h] = call]
    BY <1>1, <1>2 DEF Goes
  <2>2. call \in CallType /\ call.at = "locked" /\ call.result = calls[h].result
    BY <1>1 DEF CallType
  <2>3. call.result = "none"
    BY <1>1, <2>2, Mine DEF Enter, _operation, CallIs, HandlerInv
  <2> HIDE DEF call
  <2> QED BY <1>1, <1>2, <2>1, <2>2, <2>3, CallStep
<1>3. CASE Returns(h, "answered") /\ UNCHANGED lock
  <2> DEFINE call == [calls[h] EXCEPT !.at = "returned", !.result = "answered"]
  <2>1. calls' = [calls EXCEPT ![h] = call]
    BY <1>1, <1>3 DEF Returns
  <2>2. call \in CallType /\ call.at = "returned" /\ call.result = "answered"
    BY <1>1 DEF CallType
  <2> HIDE DEF call
  <2> QED BY <1>1, <1>3, <2>1, <2>2, CallStep
<1> QED BY <1>2, <1>3 DEF Enter, _ensure_open

\* The call goes on to another place, with the lock or without.
LEMMA GoesStep ==
  ASSUME IInv, NEW h \in Callers, main.pc # "exit", UNCHANGED <<mainVars, handlerVars>>,
         calls[h].at \notin {"none", "returned"}, NEW at \in {"submit", "view"}, Goes(h, at),
         lock' = lock \/ lock = h, UNCHANGED <<state, closing, allowed, closed, threads>>
  PROVE  IInv'
<1> DEFINE call == [calls[h] EXCEPT !.at = at]
<1>1. calls[h] \in CallType /\ calls \in [Callers -> CallType] /\ calls[h].result = "none"
  BY Mine DEF HandlerInv
<1>2. calls' = [calls EXCEPT ![h] = call]
  BY <1>1 DEF Goes
<1>3. call \in CallType /\ call.at = at /\ call.result = "none"
  BY <1>1 DEF CallType
<1> HIDE DEF call
<1> QED BY <1>2, <1>3, CallStep

LEMMA ReturnsStep ==
  ASSUME IInv, NEW h \in Callers, main.pc # "exit", UNCHANGED <<mainVars, handlerVars>>,
         calls[h].at # "none", NEW result \in {"answered", "consent"}, Returns(h, result),
         lock' = lock \/ lock = h, UNCHANGED <<state, closing, allowed, closed, threads>>,
         result = "consent" => ~allowed
  PROVE  IInv'
<1> DEFINE call == [calls[h] EXCEPT !.at = "returned", !.result = result]
<1>1. calls[h] \in CallType /\ calls \in [Callers -> CallType]
  BY Mine
<1>2. calls' = [calls EXCEPT ![h] = call]
  BY <1>1 DEF Returns
<1>3. call \in CallType /\ call.at = "returned" /\ call.result = result
  BY <1>1 DEF CallType
<1> HIDE DEF call
<1> QED BY <1>2, <1>3, CallStep

LEMMA operationStep ==
  ASSUME IInv, NEW h \in Callers, main.pc # "exit", operation_step(h)
  PROVE  IInv'
<1>1. Step(h) /\ UNCHANGED <<mainVars, handlerVars>>
  BY DEF operation_step
<1>2. calls[h].at = "locked" => lock = h
  BY Mine DEF HandlerInv
<1>3. CASE Enter(h)
  BY <1>1, <1>3, EntersStep
<1>4. CASE CheckSource(h)
  <2>1. /\ calls[h].at = "called" /\ UNCHANGED <<lock, state, closing, allowed, closed, threads>>
        /\ Goes(h, "submit") \/ (Returns(h, "consent") /\ ~allowed)
    BY <1>4 DEF CheckSource, CallIs, Allowed, partVars
  <2> QED BY <1>1, <2>1, GoesStep, ReturnsStep
<1>5. CASE task_or_book_operation(h)
  <2>1. /\ calls[h].at = "locked" /\ UNCHANGED <<state, closing, allowed, closed, threads>>
        /\ Returns(h, "answered")
    BY <1>5 DEF task_or_book_operation, Leaves, CallIs, partVars
  <2> QED BY <1>1, <1>2, <2>1, ReturnsStep
<1>6. CASE export_easyvoice(h)
  <2> DEFINE result == IF Allowed(calls[h].third) THEN "answered" ELSE "consent"
  <2>1. /\ calls[h].at = "locked" /\ UNCHANGED <<state, closing, allowed, closed, threads>>
        /\ Returns(h, result)
    BY <1>6 DEF export_easyvoice, Leaves, CallIs, partVars
  <2>2. result \in {"answered", "consent"} /\ (result = "consent" => ~allowed)
    BY DEF Allowed
  <2> HIDE DEF result
  <2> QED BY <1>1, <1>2, <2>1, <2>2, ReturnsStep
<1>7. CASE resume_task(h) \/ create_crawl_task(h)
  <2>1. /\ calls[h].at = "locked" /\ UNCHANGED <<state, closing, allowed, closed, threads>>
        /\ Returns(h, "answered") \/ Goes(h, "view")
    BY <1>7 DEF resume_task, create_crawl_task, Submits, CallIs
  <2> QED BY <1>1, <1>2, <2>1, GoesStep, ReturnsStep
<1>8. CASE task_view(h)
  <2>1. /\ calls[h].at = "view" /\ UNCHANGED <<lock, state, closing, allowed, closed, threads>>
        /\ Returns(h, "answered")
    BY <1>8 DEF task_view, partVars
  <2> QED BY <1>1, <2>1, ReturnsStep
<1> QED BY <1>1, <1>3, <1>4, <1>5, <1>6, <1>7, <1>8 DEF Step

-----------------------------------------------------------------------------
(* The request around the operation. *)

LEMMA AnswerType ==
  ASSUME NEW answer \in {"answered", "refused", "denied"}
  PROVE  LET r == [NoRequest EXCEPT !.pc = "answered", !.answer = answer]
         IN r \in RequestType /\ r.pc = "answered" /\ r.saved = {} /\ r.answer = answer
BY Empty DEF RequestType, RequestPC

\* The request is answered, and has no permission any more.
LEMMA AnswersStep ==
  ASSUME IInv, NEW h \in Callers, h \in AtWork, main.pc # "exit",
         NEW answer \in {"answered", "refused", "denied"}, Answers(h, answer),
         calls' = calls \/ calls' = [calls EXCEPT ![h] = NoCall], calls'[h].at = "none",
         UNCHANGED <<mainVars, active, closed, closing, state, threads, lock>>,
         allowed' \in BOOLEAN, ConsentInv'
  PROVE  IInv'
<1> DEFINE r == [NoRequest EXCEPT !.pc = "answered", !.answer = answer]
           call == calls'[h]
<1>1. r \in RequestType /\ r.pc = "answered" /\ r.saved = {}
  BY AnswerType
<1>2. requests' = [requests EXCEPT ![h] = r]
  BY DEF Answers
<1> HIDE DEF r
<1>3. calls' = [calls EXCEPT ![h] = call] /\ call \in CallType /\ call.result = "none"
  BY Mine, Empty DEF HandlerInv
<1>4. call.at = "none"
  OBVIOUS
<1> HIDE DEF call
<1>5. Only(h, r, call)
  BY <1>2, <1>3 DEF Only
<1>6. requests'[h] = r /\ calls'[h] = call
  BY <1>5, OnlyOne
<1>7. HandlerInv(h)'
  BY <1>1, <1>3, <1>4, <1>6 DEF HandlerInv
<1> QED BY <1>1, <1>3, <1>4, <1>5, <1>7, HandlerStep

LEMMA RequestTypes ==
  ASSUME NEW r \in Request
  PROVE  r \in RequestType /\ r.pc = "permitted" /\ r.saved = {} /\ r.answer = None
BY DEF Request, RequestType, RequestPC

LEMMA getOrPostReads ==
  ASSUME IInv, NEW h \in Callers, main.pc # "exit", do_GET_or_POST(h)
  PROVE  IInv'
<1>1. /\ requests[h].pc = "started" /\ h \in AtWork /\ calls[h].at = "none" /\ requests[h].saved = {}
      /\ calls[h].result = "none" /\ calls[h] \in CallType /\ calls \in [Callers -> CallType]
      /\ requests \in [Callers -> RequestType] /\ allowed \in BOOLEAN
  BY Mine DEF do_GET_or_POST, RequestIs, HandlerInv, IInv, Types
<1>2. /\ UNCHANGED <<calls, active, mainVars, operator, allowed, closed, closing, state, threads, lock>>
      /\ calls'[h].at = "none"
  BY <1>1 DEF do_GET_or_POST, serviceVars, mainVars
<1>3. ASSUME NEW r, r.saved = {}, Only(h, r, calls[h])
      PROVE  ConsentInv'
  BY <1>1, <1>2, <1>3, ConsentKept DEF IInv, ConsentInv
<1>4. ASSUME NEW answer \in {"refused", "denied"}, Answers(h, answer)
      PROVE  IInv'
  <2> DEFINE r == [NoRequest EXCEPT !.pc = "answered", !.answer = answer]
  <2>1. r.saved = {}
    BY AnswerType
  <2>2. requests' = [requests EXCEPT ![h] = r]
    BY <1>4 DEF Answers
  <2> HIDE DEF r
  <2>3. Only(h, r, calls[h])
    BY <1>1, <1>2, <2>2 DEF Only
  <2> QED BY <1>1, <1>2, <1>3, <1>4, <2>1, <2>3, AnswersStep
<1>5. ASSUME NEW r \in Request, requests' = [requests EXCEPT ![h] = r]
      PROVE  IInv'
  <2>1. r \in RequestType /\ r.pc = "permitted" /\ r.saved = {}
    BY RequestTypes
  <2>2. Only(h, r, calls[h])
    BY <1>1, <1>2, <1>5 DEF Only
  <2>3. requests'[h] = r /\ calls'[h] = calls[h]
    BY <2>2, OnlyOne
  <2>4. HandlerInv(h)'
    BY <1>1, <2>1, <2>3 DEF HandlerInv
  <2> QED BY <1>1, <1>2, <1>3, <2>1, <2>2, <2>4, HandlerStep
<1>6. \A r : Refusal(r) \in {"refused", "denied"}
  BY DEF Refusal
<1> QED BY <1>4, <1>5, <1>6 DEF do_GET_or_POST

LEMMA callsStep ==
  ASSUME IInv, NEW h \in Callers, main.pc # "exit", get_or_post(h) \/ permission_begins(h)
  PROVE  IInv'
<1> DEFINE q == requests[h]
           saved == IF q.allow THEN {allowed} ELSE {}
           r == [q EXCEPT !.pc = "calling", !.saved = saved]
           call == [at |-> "called", operation |-> q.operation, third |-> q.third, result |-> "none"]
<1>1. /\ q.pc = "permitted" /\ h \in AtWork /\ q.saved = {} /\ q \in RequestType
      /\ requests \in [Callers -> RequestType]
  BY Mine DEF get_or_post, permission_begins, Chosen, RequestIs, HandlerInv
<1>2. /\ Calls(h) /\ UNCHANGED <<state, lock, closed, closing, threads, mainVars, active, operator>>
  BY DEF get_or_post, permission_begins, Calls, mainVars
<1>3. requests' = [requests EXCEPT ![h].pc = "calling", ![h].saved = saved]
  BY <1>2 DEF Calls
<1>4. calls' = [calls EXCEPT ![h] = call]
  BY <1>2 DEF Calls
<1>5. /\ saved = IF q.allow THEN {allowed} ELSE {}
      /\ allowed \in BOOLEAN /\ allowed' \in BOOLEAN /\ saved \in SUBSET BOOLEAN
  BY DEF IInv, Types, get_or_post, permission_begins
<1> HIDE DEF saved
<1>6. requests' = [requests EXCEPT ![h] = r]
  BY <1>1, <1>3
<1>7. /\ r \in RequestType /\ r.pc = "calling" /\ r.saved = saved /\ r.allow = q.allow
      /\ r.answer = q.answer
  BY <1>1, <1>5 DEF RequestType, RequestPC
<1>8. call \in CallType /\ call.at = "called" /\ call.result = "none"
  BY <1>1 DEF RequestType, CallType
<1> HIDE DEF r, call
<1>9. Only(h, r, call)
  BY <1>4, <1>6 DEF Only
<1>10. /\ requests'[h] = r /\ calls'[h] = call
       /\ \A g \in Callers \ {h} : requests'[g] = requests[g] /\ calls'[g] = calls[g]
  BY <1>9, OnlyOne
<1>11. HandlerInv(h)'
  BY <1>5, <1>7, <1>8, <1>10 DEF HandlerInv
<1>12. ConsentInv'
  <2>1. allowed' = allowed \/ allowed' = TRUE
    BY DEF get_or_post, permission_begins
  <2>2. operator => allowed' = TRUE /\ r.saved \subseteq {TRUE}
    BY <1>5, <1>7, <2>1 DEF IInv, ConsentInv
  <2> QED BY <1>2, <1>8, <1>9, <2>2, ConsentKept
<1> QED BY <1>1, <1>2, <1>5, <1>7, <1>8, <1>9, <1>11, <1>12, HandlerStep

LEMMA exploreStep ==
  ASSUME IInv, NEW h \in Callers, main.pc # "exit", explore_site(h)
  PROVE  IInv'
<1> DEFINE r == [NoRequest EXCEPT !.pc = "answered", !.answer = "answered"]
<1>1. /\ requests[h].pc = "permitted" /\ h \in AtWork /\ calls[h].at = "none" /\ requests[h].saved = {}
      /\ calls[h].result = "none" /\ calls \in [Callers -> CallType] /\ allowed \in BOOLEAN
  BY Mine DEF explore_site, RequestIs, HandlerInv, IInv, Types
<1>2. /\ Answers(h, "answered")
      /\ UNCHANGED <<calls, active, mainVars, operator, allowed, closed, closing, state, threads, lock>>
  BY DEF explore_site, serviceVars, mainVars
<1>3. r.saved = {}
  BY AnswerType
<1>4. requests' = [requests EXCEPT ![h] = r]
  BY <1>2 DEF Answers
<1> HIDE DEF r
<1>5. Only(h, r, calls[h])
  BY <1>1, <1>2, <1>4 DEF Only
<1>6. ConsentInv'
  BY <1>1, <1>2, <1>3, <1>5, ConsentKept DEF IInv, ConsentInv
<1> QED BY <1>1, <1>2, <1>6, AnswersStep

LEMMA RestoredType ==
  ASSUME NEW saved
  PROVE  Restored(saved) \in BOOLEAN
BY DEF Restored

LEMMA RestoredFacts ==
  ASSUME NEW saved \in SUBSET {TRUE}, saved # {}
  PROVE  Restored(saved) = TRUE
<1>1. Restored(saved)
  BY DEF Restored
<1> QED BY <1>1, RestoredType, Zenon

\* The switch goes back to what the permission has found.
LEMMA endsStep ==
  ASSUME IInv, NEW h \in Callers, main.pc # "exit", permission_ends(h)
  PROVE  IInv'
<1> DEFINE q == requests[h]
           answer == IF calls[h].result = "consent" THEN Refusal(q) ELSE "answered"
           r == [NoRequest EXCEPT !.pc = "answered", !.answer = answer]
<1>1. /\ q.pc = "calling" /\ h \in AtWork /\ (q.allow <=> q.saved # {})
      /\ q.saved \in SUBSET BOOLEAN /\ calls \in [Callers -> CallType]
      /\ allowed \in BOOLEAN /\ operator \in BOOLEAN
  BY Mine DEF permission_ends, RequestIs, HandlerInv, RequestType, IInv, Types
<1>2. /\ Answers(h, answer) /\ calls' = [calls EXCEPT ![h] = NoCall]
      /\ UNCHANGED <<active, mainVars, operator, closed, closing, state, threads, lock>>
      /\ allowed' = IF q.saved = {} THEN allowed ELSE Restored(q.saved)
  BY DEF permission_ends, mainVars
<1>3. answer \in {"answered", "refused", "denied"}
  BY DEF Refusal
<1> HIDE DEF answer
<1>4. requests' = [requests EXCEPT ![h] = r]
  BY <1>2 DEF Answers
<1>5. r.saved = {} /\ r.answer = answer
  BY <1>3, AnswerType
<1> HIDE DEF r
<1>6. Only(h, r, NoCall)
  BY <1>2, <1>4 DEF Only
<1>7. /\ requests'[h] = r /\ calls'[h] = NoCall
      /\ \A g \in Callers \ {h} : requests'[g] = requests[g] /\ calls'[g] = calls[g]
  BY <1>6, OnlyOne
<1>8. allowed' \in BOOLEAN
  <2>1. CASE q.saved = {}
    BY <1>1, <1>2, <2>1
  <2>2. CASE q.saved # {}
    <3>1. allowed' = Restored(q.saved)
      BY <1>2, <2>2
    <3> QED BY <3>1, RestoredType, Zenon
  <2> QED BY <2>1, <2>2
<1>9. ConsentInv'
  <2> SUFFICES ASSUME operator PROVE allowed' = TRUE
    BY <1>2, <1>5, <1>6, Empty, ConsentKept
  <2>1. allowed = TRUE /\ q.saved \in SUBSET {TRUE}
    BY DEF IInv, ConsentInv
  <2>2. CASE q.saved = {}
    BY <1>2, <2>1, <2>2
  <2>3. CASE q.saved # {}
    <3>1. allowed' = Restored(q.saved)
      BY <1>2, <2>3
    <3> QED BY <2>1, <2>3, <3>1, RestoredFacts, Zenon
  <2> QED BY <2>2, <2>3
<1>10. calls' = [calls EXCEPT ![h] = NoCall] /\ calls'[h].at = "none"
  BY <1>2, <1>7, Empty
<1>11. UNCHANGED <<mainVars, active, closed, closing, state, threads, lock>>
  BY <1>2
<1>12. PICK a \in {"answered", "refused", "denied"} : a = answer
  BY <1>3
<1>13. Answers(h, a)
  BY <1>2, <1>12
<1> QED BY <1>1, <1>8, <1>9, <1>10, <1>11, <1>13, AnswersStep

LEMMA finishedStep ==
  ASSUME IInv, NEW h \in Callers, main.pc # "exit", handler_finished(h)
  PROVE  IInv'
<1>1. /\ requests[h].pc \in {"answered", "released"} /\ h \in AtWork /\ calls[h].at = "none"
      /\ requests[h].saved = {} /\ calls[h].result = "none" /\ calls \in [Callers -> CallType]
      /\ calls[h] \in CallType /\ allowed \in BOOLEAN
  BY Mine DEF handler_finished, RequestIs, HandlerInv, IInv, Types
<1>2. UNCHANGED <<calls, mainVars, operator, allowed, closed, closing, state, threads, lock>>
  BY DEF handler_finished, serviceVars, mainVars
<1>3. ASSUME NEW r \in RequestType, requests' = [requests EXCEPT ![h] = r], r.pc \in {"released", "none"},
             r.saved = {}, active' = IF r.pc = "none" THEN active - 1 ELSE active
      PROVE  IInv'
  <2>1. Only(h, r, calls[h])
    BY <1>1, <1>2, <1>3 DEF Only
  <2>2. requests'[h] = r /\ calls'[h] = calls[h]
    BY <2>1, OnlyOne
  <2>3. HandlerInv(h)'
    BY <1>1, <1>3, <2>2 DEF HandlerInv
  <2>4. ConsentInv'
    BY <1>1, <1>2, <1>3, <2>1, ConsentKept DEF IInv, ConsentInv
  <2> QED BY <1>1, <1>2, <1>3, <2>1, <2>3, <2>4, HandlerStep
<1>4. CASE requests[h].pc = "answered"
  <2> DEFINE r == [NoRequest EXCEPT !.pc = "released"]
  <2>1. r \in RequestType /\ r.pc = "released" /\ r.saved = {}
    BY Empty DEF RequestType, RequestPC
  <2>2. requests' = [requests EXCEPT ![h] = r] /\ active' = active
    BY <1>4 DEF handler_finished, RequestIs
  <2> HIDE DEF r
  <2> QED BY <1>3, <2>1, <2>2
<1>5. CASE requests[h].pc = "released"
  <2>1. requests' = [requests EXCEPT ![h] = NoRequest] /\ active' = active - 1
    BY <1>5 DEF handler_finished, RequestIs
  <2> QED BY <1>3, <2>1, Empty
<1> QED BY <1>1, <1>4, <1>5

LEMMA HandlersStep ==
  ASSUME IInv, NEW h \in Callers, main.pc # "exit", Handler(h)
  PROVE  IInv'
BY getOrPostReads, callsStep, exploreStep, operationStep, endsStep, finishedStep DEF Handler

-----------------------------------------------------------------------------
(* The executor's threads, which end for good. *)

LEMMA ExecutorKeeps ==
  ASSUME IInv, ExecutorStep, UNCHANGED <<mainVars, handlerVars>>
  PROVE  IInv'
<1>1. UNCHANGED <<state, lock, closed, closing, allowed, calls, main, interrupts, operator, active, requests>>
  BY DEF ExecutorStep, worker, worker_takes, worker_finishes, worker_ends, reconcile_deferred, Unchanged,
     mainVars, handlerVars
<1>2. ~Ended
  <2>1. PICK t \in Threads : threads[t] # "ended"
    BY DEF ExecutorStep, worker, worker_takes, worker_finishes, worker_ends, reconcile_deferred, Threads
  <2> QED BY <2>1 DEF Ended
<1>3. Types' /\ HandlersInv' /\ CountInv'
  BY <1>1 DEF IInv, Types, HandlersInv, HandlerInv, CountInv, AtWork, Starting
<1>4. MainInv' /\ ConsentInv'
  BY <1>1 DEF IInv, MainInv, AtWork, ConsentInv
<1>5. ClosingInv'
  BY <1>1, <1>2 DEF IInv, ClosingInv, AtWork
<1> QED BY <1>3, <1>4, <1>5 DEF IInv

-----------------------------------------------------------------------------
(* The main thread. *)

\* A step of the main thread that leaves the requests alone and starts none.
LEMMA MainStep ==
  ASSUME IInv, UNCHANGED <<requests, calls, active, operator, allowed>>,
         main' \in MainType, interrupts' \in Nat, interrupts' >= interrupts,
         main'.pc \notin {"acquired", "counted"}, main'.handler = NoOne,
         main'.pc \in {"build", "unbuild", "start"} => AtWork = {},
         main'.pc = "drain" => interrupts' >= 1,
         main'.pc \in {"close", "exit"} => interrupts' > 1 \/ AtWork = {},
         \A h \in Callers : calls[h].at = "locked" => lock' = h,
         ClosingInv'
  PROVE  IInv'
<1>1. Types'
  BY DEF IInv, Types
<1>2. HandlersInv'
  BY DEF IInv, HandlersInv, HandlerInv
<1>3. AtWork' = AtWork
  BY DEF AtWork
<1>4. CountInv'
  <2>1. IsFiniteSet(AtWork) /\ active \in Nat /\ active >= Cardinality(AtWork) + Starting
    BY DEF IInv, CountInv
  <2>2. Starting' = 0 /\ Starting \in {0, 1}
    BY DEF Starting
  <2>3. Cardinality(AtWork) \in Nat
    BY <2>1, FS_CardinalityType
  <2> QED BY <1>3, <2>1, <2>2, <2>3 DEF CountInv
<1>5. MainInv'
  BY <1>3 DEF MainInv
<1>6. ConsentInv'
  BY DEF IInv, ConsentInv
<1> QED BY <1>1, <1>2, <1>4, <1>5, <1>6 DEF IInv

LEMMA MainFacts ==
  ASSUME IInv
  PROVE  /\ main \in MainType /\ interrupts \in Nat
         /\ \A h \in Callers : calls[h].at = "locked" => lock = h
         /\ main.pc \notin {"acquired", "counted"} => main.handler = NoOne
         /\ main.pc \in {"build", "unbuild", "start"} => AtWork = {}
         /\ ClosingInv
BY DEF IInv, Types, HandlersInv, HandlerInv, MainInv

LEMMA GoesTo ==
  ASSUME main \in MainType, main.handler = NoOne,
         NEW pc \in {"start", "unbuild", "poll", "drain", "close", "exit"}, MainGoes(pc)
  PROVE  main' \in MainType /\ main'.pc = pc /\ main'.handler = NoOne
BY DEF MainGoes, MainType

LEMMA ClosesTo ==
  ASSUME NEW tries \in {1, 3}, Closes(tries)
  PROVE  main' \in MainType /\ main'.pc = "close" /\ main'.handler = NoOne
BY DEF Closes, MainType

LEMMA beginStep ==
  ASSUME IInv, MainBegins
  PROVE  IInv'
<1>1. /\ main.pc \in {"build", "unbuild", "start"} /\ AtWork = {} /\ main.handler = NoOne
      /\ UNCHANGED <<requests, calls, active, operator, allowed, interrupts>>
      /\ UNCHANGED <<state, lock, closing>>
      /\ interrupts' \in Nat /\ interrupts' >= interrupts
  BY MainFacts DEF MainBegins, build_application, build_fails, create_web_server, handlerVars, serviceVars
<1>2. state = "open" /\ closed = {} /\ closing = "no"
  BY <1>1, MainFacts DEF ClosingInv
<1>3. ASSUME main' \in MainType, main'.handler = NoOne,
             main'.pc \in {"start", "unbuild", "poll", "close", "exit"},
             closed' = {} \/ (main'.pc = "exit" /\ Ended')
      PROVE  IInv'
  <2>1. AtWork' = {}
    BY <1>1 DEF AtWork
  <2>2. ClosingInv'
    BY <1>1, <1>2, <1>3, <2>1, MainFacts DEF ClosingInv
  <2> QED BY <1>1, <1>3, <2>2, MainFacts, MainStep
<1>4. CASE build_application
  <2>1. closed' = {} /\ (MainGoes("start") \/ MainGoes("unbuild"))
    BY <1>2, <1>4 DEF build_application
  <2> QED BY <1>1, <1>3, <2>1, GoesTo, MainFacts
<1>5. CASE build_fails
  <2>1. MainGoes("exit") /\ threads' = threads
    BY <1>5 DEF build_fails
  <2>2. main' \in MainType /\ main'.pc = "exit" /\ main'.handler = NoOne
    BY <1>1, <2>1, GoesTo, MainFacts
  <2>3. closed' = {} \/ Ended'
    BY <1>5, <2>1 DEF build_fails, Ended
  <2> QED BY <1>3, <2>2, <2>3
<1>6. CASE create_web_server
  <2>1. closed' = {} /\ (MainGoes("poll") \/ \E tries \in {1, 3} : Closes(tries))
    BY <1>2, <1>6 DEF create_web_server, serviceVars
  <2>2. CASE MainGoes("poll")
    BY <1>1, <1>3, <2>1, <2>2, GoesTo, MainFacts
  <2>3. ASSUME NEW tries \in {1, 3}, Closes(tries)
        PROVE  IInv'
    BY <1>3, <2>1, <2>3, ClosesTo
  <2> QED BY <2>1, <2>2, <2>3
<1> QED BY <1>4, <1>5, <1>6 DEF MainBegins

LEMMA closeStep ==
  ASSUME IInv, main.pc = "close", close, UNCHANGED <<mainVars, handlerVars>>
  PROVE  IInv'
<1>1. /\ UNCHANGED <<requests, calls, active, operator, allowed, interrupts, main, threads>>
      /\ main'.handler = NoOne /\ main' \in MainType /\ interrupts' \in Nat /\ interrupts' >= interrupts
      /\ interrupts' > 1 \/ AtWork = {}
  BY MainFacts DEF close, close_begins, shutdown, shutdown_returns, close_part, mainVars, handlerVars, IInv, MainInv
<1>2. /\ closing # "no" => state # "open"
      /\ state # "open" => \A h \in Callers : calls[h].at # "locked"
      /\ \A h \in Callers : calls[h].at = "locked" => lock = h
      /\ closed # {} => state # "open"
      /\ closing \in {"controller", "repository", "crawler"} => Ended
      /\ closed \cap ThreadUses # {} => Ended
  BY MainFacts DEF ClosingInv
<1>3. Ended' = Ended
  BY <1>1 DEF Ended
<1>4. ASSUME state' # "open", \A h \in Callers : calls[h].at # "locked",
             closing' \in {"controller", "repository", "crawler"} => Ended,
             closed' \cap ThreadUses # {} => Ended
      PROVE  IInv'
  <2>1. ClosingInv'
    BY <1>1, <1>3, <1>4 DEF ClosingInv
  <2> QED BY <1>1, <1>4, <2>1, MainStep
<1>5. CASE close_begins
  <2>1. \A h \in Callers : calls[h].at # "locked"
    BY <1>2, <1>5, Names DEF close_begins
  <2>2. /\ state' # "open" /\ closed' = closed
        /\ closing' \in {"true", "executor"}
    BY <1>5 DEF close_begins
  <2> QED BY <1>2, <1>4, <2>1, <2>2
<1>6. CASE shutdown
  <2>1. state' # "open" /\ closed' = closed /\ closing' = "join" /\ state # "open"
    BY <1>2, <1>6 DEF shutdown
  <2> QED BY <1>2, <1>4, <2>1
<1>7. CASE shutdown_returns
  <2>1. /\ state' # "open" /\ state # "open"
        /\ closed' = closed \cup {"executor"} \/ closed' = closed
        /\ closing' = "controller" => Ended
        /\ closing' \in {"controller", "false"}
    BY <1>2, <1>7 DEF shutdown_returns, CloseReturns
  <2>2. closed' \cap ThreadUses = closed \cap ThreadUses
    BY <2>1 DEF ThreadUses
  <2> QED BY <1>2, <1>4, <2>1, <2>2
<1>8. CASE close_part
  <2>1. /\ state' # "open" /\ state # "open" /\ Ended
    BY <1>2, <1>8 DEF close_part
  <2> QED BY <1>2, <1>4, <2>1
<1> QED BY <1>5, <1>6, <1>7, <1>8 DEF close

LEMMA endStep ==
  ASSUME IInv, MainEnds
  PROVE  IInv'
<1>1. CASE server_close
  <2>1. PICK tries \in {1, 3} : Closes(tries)
    BY <1>1 DEF server_close
  <2>2. /\ main.pc = "drain" /\ active = 0
        /\ UNCHANGED <<requests, calls, active, operator, allowed, interrupts>>
        /\ UNCHANGED <<state, lock, closing, closed, threads>>
    BY <1>1 DEF server_close, Drained, handlerVars, serviceVars
  <2>3. AtWork = {}
    <3>1. IsFiniteSet(AtWork) /\ active >= Cardinality(AtWork) + Starting /\ Starting = 0
      BY <2>2 DEF IInv, CountInv, Starting
    <3>2. Cardinality(AtWork) \in Nat
      BY <3>1, FS_CardinalityType
    <3>3. Cardinality(AtWork) = 0
      BY <2>2, <3>1, <3>2
    <3> QED BY <3>1, <3>3, FS_EmptySet
  <2>4. main' \in MainType /\ main'.pc = "close" /\ main'.handler = NoOne
    BY <2>1, ClosesTo
  <2>5. ClosingInv'
    BY <2>2, <2>4, MainFacts DEF ClosingInv, Ended
  <2>6. interrupts' \in Nat /\ interrupts' >= interrupts
    BY <2>2, MainFacts
  <2> QED BY <2>2, <2>3, <2>4, <2>5, <2>6, MainFacts, MainStep
<1>2. CASE close_application
  BY <1>2, closeStep DEF close_application
<1>3. CASE _bounded_close
  <2>1. /\ main.pc = "close" /\ closing \in {"true", "false"} /\ closing' = "no" /\ main.handler = NoOne
        /\ UNCHANGED <<requests, calls, active, operator, allowed, interrupts>>
        /\ UNCHANGED <<state, lock, closed, threads>>
        /\ interrupts > 1 \/ AtWork = {}
    BY <1>3, MainFacts DEF _bounded_close, handlerVars, IInv, MainInv
  <2>2. main' \in MainType /\ main'.pc \in {"close", "exit"} /\ main'.handler = NoOne
    <3>1. CASE main' = [main EXCEPT !.tries = @ - 1] /\ main.tries > 1
      BY <2>1, <3>1, MainFacts DEF MainType
    <3>2. CASE main' = [main EXCEPT !.pc = "exit", !.tries = 0]
      <4>1. main' = [pc |-> "exit", handler |-> NoOne, tries |-> 0]
        BY <2>1, <3>2, MainFacts DEF MainType
      <4>2. 0 \in 0 .. 3
        OBVIOUS
      <4> QED BY <4>1, <4>2 DEF MainType
    <3> QED BY <1>3, <3>1, <3>2 DEF _bounded_close
  <2>3. ClosingInv'
    BY <2>1, <2>2, MainFacts DEF ClosingInv, Ended
  <2>4. interrupts' \in Nat /\ interrupts' >= interrupts
    BY <2>1, MainFacts
  <2>5. main'.pc \notin {"acquired", "counted", "build", "unbuild", "start", "drain"}
    BY <2>2
  <2> QED BY <2>1, <2>2, <2>3, <2>4, <2>5, MainFacts, MainStep
<1> QED BY <1>1, <1>2, <1>3 DEF MainEnds

-----------------------------------------------------------------------------
(* Serving: a request is given a slot, counted and started. *)

\* A request that is at nothing yet, or at nothing any more, has no call and no permission.
LEMMA RequestStep ==
  ASSUME IInv, NEW h \in Callers, requests[h].pc \in {"none", "accepted"},
         NEW r \in RequestType, requests' = [requests EXCEPT ![h] = r],
         r.pc \in {"none", "accepted", "started"}, r.saved = {},
         UNCHANGED <<calls, operator, allowed, state, lock, closing, closed, threads>>,
         CountInv', main' \in MainType, interrupts' \in Nat, MainInv',
         main.pc \notin {"close", "exit"}, main'.pc \notin {"close", "exit"}
  PROVE  IInv'
<1>1. /\ calls[h].at = "none" /\ calls[h].result = "none" /\ requests[h].saved = {} /\ calls[h] \in CallType
      /\ requests \in [Callers -> RequestType] /\ calls \in [Callers -> CallType]
  BY Mine DEF HandlerInv
<1>2. requests'[h] = r /\ \A g \in Callers \ {h} : requests'[g] = requests[g]
  BY <1>1
<1>3. Types'
  BY <1>1 DEF IInv, Types
<1>4. HandlersInv'
  <2> SUFFICES ASSUME NEW g \in Callers PROVE HandlerInv(g)'
    BY DEF HandlersInv
  <2>1. CASE g = h
    BY <1>1, <1>2, <2>1 DEF HandlerInv
  <2>2. CASE g # h
    BY <1>2, <2>2, Mine DEF HandlerInv
  <2> QED BY <2>1, <2>2
<1>5. ClosingInv'
  BY DEF IInv, ClosingInv, Ended
<1>6. Only(h, r, calls[h])
  BY <1>1 DEF Only
<1>7. ConsentInv'
  BY <1>1, <1>6, ConsentKept DEF IInv, ConsentInv
<1> QED BY <1>3, <1>4, <1>5, <1>7 DEF IInv

\* Who is at work after such a step.
LEMMA WorkAfter ==
  ASSUME IInv, NEW h \in Callers, requests[h].pc \in {"none", "accepted"},
         NEW r, requests' = [requests EXCEPT ![h] = r]
  PROVE  /\ h \notin AtWork
         /\ r.pc \in {"none", "accepted"} => AtWork' = AtWork
         /\ r.pc = "started" => AtWork' = AtWork \cup {h}
<1>1. requests'[h] = r /\ \A g \in Callers \ {h} : requests'[g] = requests[g]
  BY Mine
<1> QED BY <1>1 DEF AtWork

LEMMA Counted ==
  ASSUME IInv
  PROVE  /\ IsFiniteSet(AtWork) /\ active \in Nat /\ Cardinality(AtWork) \in Nat
         /\ main.pc = "counted" => active >= Cardinality(AtWork) + 1
         /\ active >= Cardinality(AtWork)
BY FS_CardinalityType DEF IInv, CountInv, Starting

LEMMA processStep ==
  ASSUME IInv, NEW h \in Callers, process_request(h)
  PROVE  IInv'
<1> DEFINE r == [requests[h] EXCEPT !.pc = "accepted"]
<1>1. /\ main.pc = "poll" /\ requests[h].pc = "none" /\ main \in MainType /\ interrupts \in Nat
      /\ requests[h] \in RequestType /\ requests \in [Callers -> RequestType] /\ requests[h].saved = {}
  BY Mine, MainFacts DEF process_request, HandlerInv
<1>2. /\ main' = [main EXCEPT !.pc = "acquired", !.handler = h]
      /\ UNCHANGED <<calls, operator, allowed, state, lock, closing, closed, threads>>
      /\ UNCHANGED <<interrupts, active>>
  BY DEF process_request, serviceVars
<1>3. requests' = [requests EXCEPT ![h] = r]
  BY <1>1 DEF process_request
<1>4. r \in RequestType /\ r.pc = "accepted" /\ r.saved = {}
  BY <1>1 DEF RequestType, RequestPC
<1> HIDE DEF r
<1>5. main' \in MainType /\ main'.pc = "acquired" /\ main'.handler = h
  BY <1>1, <1>2 DEF MainType
<1>6. CountInv'
  <2>1. AtWork' = AtWork /\ Starting' = 0
    BY <1>1, <1>3, <1>4, <1>5, WorkAfter DEF Starting
  <2> QED BY <1>2, <2>1, Counted DEF CountInv
<1>7. MainInv'
  BY <1>1, <1>3, <1>4, <1>5 DEF MainInv
<1> QED BY <1>1, <1>2, <1>3, <1>4, <1>5, <1>6, <1>7, RequestStep

LEMMA startStep ==
  ASSUME IInv, start_handler
  PROVE  IInv'
<1> DEFINE h == main.handler
           started == [requests[h] EXCEPT !.pc = "started"]
<1>1. /\ main.pc = "counted" /\ main \in MainType /\ interrupts \in Nat
      /\ h \in Callers /\ requests[h].pc = "accepted"
  BY MainFacts DEF start_handler, IInv, MainInv
<1>2. /\ main' = [main EXCEPT !.pc = "poll", !.handler = NoOne]
      /\ UNCHANGED <<calls, operator, allowed, state, lock, closing, closed, threads, interrupts>>
  BY DEF start_handler, serviceVars
<1>3. PICK g \in Callers : g = h
  BY <1>1
<1>4. /\ requests[g] \in RequestType /\ requests \in [Callers -> RequestType] /\ requests[g].saved = {}
      /\ requests[g].pc = "accepted"
  BY <1>1, <1>3, Mine DEF HandlerInv
<1>5. main' \in MainType /\ main'.pc = "poll" /\ main'.handler = NoOne
  BY <1>1, <1>2 DEF MainType
<1>6. MainInv'
  BY <1>5 DEF MainInv
<1>7. ASSUME NEW r \in RequestType, requests' = [requests EXCEPT ![g] = r], r.pc \in {"none", "started"},
             r.saved = {},
             active' = IF r.pc = "none" THEN active - 1 ELSE active
      PROVE  IInv'
  <2>1. /\ g \notin AtWork
        /\ r.pc = "none" => AtWork' = AtWork
        /\ r.pc = "started" => AtWork' = AtWork \cup {g}
    BY <1>4, <1>7, WorkAfter
  <2>2. /\ IsFiniteSet(AtWork) /\ active \in Nat /\ Cardinality(AtWork) \in Nat
        /\ active >= Cardinality(AtWork) + 1
    BY <1>1, Counted
  <2>3. IsFiniteSet(AtWork \cup {g}) /\ Cardinality(AtWork \cup {g}) = Cardinality(AtWork) + 1
    BY <2>1, <2>2, Added
  <2>4. Starting' = 0
    BY <1>5 DEF Starting
  <2>5. CountInv'
    <3>1. CASE r.pc = "none"
      BY <1>7, <2>1, <2>2, <2>4, <3>1 DEF CountInv
    <3>2. CASE r.pc = "started"
      <4>1. AtWork' = AtWork \cup {g} /\ active' = active
        BY <1>7, <2>1, <3>2
      <4>2. IsFiniteSet(AtWork)' /\ Cardinality(AtWork)' = Cardinality(AtWork) + 1
        BY <2>3, <4>1
      <4> QED BY <2>2, <2>4, <4>1, <4>2 DEF CountInv
    <3> QED BY <1>7, <3>1, <3>2
  <2>6. interrupts' \in Nat /\ main.pc \notin {"close", "exit"} /\ main'.pc \notin {"close", "exit"}
    BY <1>1, <1>2, <1>5
  <2> QED BY <1>2, <1>4, <1>5, <1>6, <1>7, <2>5, <2>6, RequestStep
<1>8. CASE requests' = [requests EXCEPT ![h].pc = "started"] /\ active' = active
  <2>1. requests' = [requests EXCEPT ![g] = started]
    BY <1>3, <1>4, <1>8
  <2>2. started \in RequestType /\ started.pc = "started" /\ started.saved = {}
    BY <1>3, <1>4 DEF RequestType, RequestPC
  <2> HIDE DEF started
  <2> QED BY <1>7, <1>8, <2>1, <2>2
<1>9. CASE requests' = [requests EXCEPT ![h] = NoRequest] /\ active' = active - 1
  BY <1>3, <1>7, <1>9, Empty
<1> QED BY <1>8, <1>9 DEF start_handler, Uncounted

LEMMA countStep ==
  ASSUME IInv, count_handler
  PROVE  IInv'
<1>1. /\ main.pc = "acquired" /\ main \in MainType /\ main.handler \in Callers
      /\ requests[main.handler].pc = "accepted"
  BY MainFacts DEF count_handler, IInv, MainInv
<1>2. /\ main' = [main EXCEPT !.pc = "counted"] /\ active' = active + 1
      /\ UNCHANGED <<calls, requests, operator, allowed, state, lock, closing, closed, threads>>
      /\ UNCHANGED interrupts
  BY DEF count_handler, MainGoes, serviceVars
<1>3. main' \in MainType /\ main'.pc = "counted" /\ main'.handler = main.handler
  BY <1>1, <1>2 DEF MainType
<1>4. Types' /\ HandlersInv' /\ ConsentInv' /\ MainInv'
  BY <1>1, <1>2, <1>3 DEF IInv, Types, HandlersInv, HandlerInv, ConsentInv, MainInv
<1>5. AtWork' = AtWork /\ Starting' = 1
  BY <1>2, <1>3 DEF AtWork, Starting
<1>6. CountInv'
  BY <1>2, <1>5, Counted DEF CountInv
<1>7. ClosingInv'
  BY <1>1, <1>2, <1>3 DEF IInv, ClosingInv, Ended
<1> QED BY <1>4, <1>6, <1>7 DEF IInv

LEMMA servesStep ==
  ASSUME IInv, MainServes
  PROVE  IInv'
<1>1. CASE answer_busy
  BY <1>1 DEF answer_busy, vars, serviceVars, mainVars, handlerVars, IInv, Types, HandlersInv, HandlerInv,
     CountInv, AtWork, Starting, MainInv, ClosingInv, Ended, ConsentInv
<1> QED BY <1>1, processStep, countStep, startStep DEF MainServes

LEMMA interruptStep ==
  ASSUME IInv, KeyboardInterrupt
  PROVE  IInv'
<1>1. /\ interrupts' = interrupts + 1 /\ interrupts \in Nat /\ main \in MainType
      /\ UNCHANGED <<operator, active>>
  BY MainFacts DEF KeyboardInterrupt
<1>2. CASE /\ main.pc \in {"poll", "acquired", "counted"}
           /\ main' = [main EXCEPT !.pc = "drain", !.handler = NoOne]
           /\ requests' = IF main.handler = NoOne THEN requests ELSE [requests EXCEPT ![main.handler] = NoRequest]
           /\ UNCHANGED serviceVars
  <2>1. /\ main' \in MainType /\ main'.pc = "drain" /\ main'.handler = NoOne
        /\ interrupts' \in Nat /\ interrupts' >= interrupts /\ interrupts' >= 1
    <3>1. main' \in MainType /\ main'.pc = "drain" /\ main'.handler = NoOne
      BY <1>1, <1>2 DEF MainType
    <3>2. interrupts' \in Nat /\ interrupts' >= interrupts /\ interrupts' >= 1
      BY <1>1
    <3> QED BY <3>1, <3>2
  <2>2. UNCHANGED <<calls, allowed, state, lock, closing, closed, threads>>
    BY <1>2 DEF serviceVars
  <2>3. ClosingInv'
    BY <1>2, <2>1, <2>2, MainFacts DEF ClosingInv, Ended
  <2>4. CASE main.handler = NoOne
    <3>1. requests' = requests
      BY <1>2, <2>4
    <3> QED BY <1>1, <2>1, <2>2, <2>3, <3>1, MainFacts, MainStep
  <2>5. CASE main.handler # NoOne
    <3>1. main.handler \in Callers /\ requests[main.handler].pc = "accepted"
      BY <1>2, <2>5, MainFacts DEF IInv, MainInv
    <3>2. PICK h \in Callers : h = main.handler
      BY <3>1
    <3>3. requests[h].pc = "accepted" /\ requests' = [requests EXCEPT ![h] = NoRequest]
      BY <1>2, <2>5, <3>1, <3>2
    <3>4. AtWork' = AtWork /\ Starting' = 0
      BY <2>1, <3>3, Empty, WorkAfter DEF Starting
    <3>5. CountInv'
      BY <1>1, <3>4, Counted DEF CountInv
    <3>6. MainInv'
      BY <2>1 DEF MainInv
    <3>7. main.pc \notin {"close", "exit"} /\ main'.pc \notin {"close", "exit"}
      BY <1>2, <2>1
    <3> QED BY <1>1, <2>1, <2>2, <3>3, <3>5, <3>6, <3>7, Empty, RequestStep
  <2> QED BY <2>4, <2>5
<1>3. CASE /\ main.pc = "drain" /\ (MainGoes("exit") \/ Closes(1))
           /\ UNCHANGED <<serviceVars, requests>>
  <2>1. main' \in MainType /\ main'.pc \in {"close", "exit"} /\ main'.handler = NoOne
    BY <1>1, <1>3, GoesTo, ClosesTo, MainFacts
  <2>2. UNCHANGED <<calls, allowed, state, lock, closing, closed, threads>>
    BY <1>3 DEF serviceVars
  <2>3. interrupts' \in Nat /\ interrupts' >= interrupts /\ interrupts' > 1
    BY <1>1, <1>3 DEF IInv, MainInv
  <2>4. ClosingInv'
    BY <1>3, <2>1, <2>2, MainFacts DEF ClosingInv, Ended
  <2>5. main'.pc \notin {"acquired", "counted", "build", "unbuild", "start", "drain"}
    BY <2>1
  <2> QED BY <1>1, <1>3, <2>1, <2>2, <2>3, <2>4, <2>5, MainFacts, MainStep
<1>4. CASE main.pc = "close" /\ MainGoes("exit") /\ close_interrupted /\ UNCHANGED requests
  <2>1. main' \in MainType /\ main'.pc = "exit" /\ main'.handler = NoOne
    BY <1>1, <1>4, GoesTo, MainFacts
  <2>2. /\ UNCHANGED <<calls, allowed, state, closed, threads>> /\ closing' = "no"
        /\ lock' = IF lock = Main THEN NoOne ELSE lock
    BY <1>4 DEF close_interrupted
  <2>3. interrupts' \in Nat /\ interrupts' >= interrupts /\ (interrupts' > 1 \/ AtWork = {})
    BY <1>1, <1>4 DEF IInv, MainInv
  <2>4. ClosingInv'
    BY <1>4, <2>1, <2>2, MainFacts DEF ClosingInv, Ended
  <2>5. \A h \in Callers : calls[h].at = "locked" => lock' = h
    BY <2>2, MainFacts, Names
  <2> QED BY <1>1, <1>4, <2>1, <2>2, <2>3, <2>4, <2>5, MainStep
<1> QED BY <1>2, <1>3, <1>4 DEF KeyboardInterrupt

-----------------------------------------------------------------------------
(* The invariant. *)

LEMMA InitInv ==
  ASSUME Init
  PROVE  IInv
<1>1. Types
  BY Empty DEF Init, InitService, Types, MainType
<1>2. HandlersInv
  BY Empty DEF Init, InitService, HandlersInv, HandlerInv
<1>3. AtWork = {} /\ Starting = 0
  BY Empty DEF Init, AtWork, Starting
<1>4. CountInv
  BY <1>3, FS_EmptySet DEF Init, CountInv
<1>5. MainInv
  BY <1>3 DEF Init, MainInv
<1>6. ClosingInv
  BY Empty DEF Init, InitService, ClosingInv
<1>7. ConsentInv
  BY Empty DEF Init, InitService, ConsentInv
<1> QED BY <1>1, <1>2, <1>4, <1>5, <1>6, <1>7 DEF IInv

LEMMA NextInv ==
  ASSUME IInv, [Next]_vars
  PROVE  IInv'
<1>1. CASE UNCHANGED vars
  BY <1>1 DEF vars, serviceVars, mainVars, handlerVars, IInv, Types, HandlersInv, HandlerInv,
     CountInv, AtWork, Starting, MainInv, ClosingInv, Ended, ConsentInv
<1>2. CASE main.pc # "exit" /\ \E h \in Callers : Handler(h)
  BY <1>2, HandlersStep
<1>3. CASE ExecutorStep /\ UNCHANGED <<mainVars, handlerVars>>
  BY <1>3, ExecutorKeeps
<1> QED BY <1>1, <1>2, <1>3, beginStep, servesStep, interruptStep, endStep DEF Next

LEMMA SpecInv == Spec => []IInv
<1>1. Init => IInv
  BY InitInv
<1>2. IInv /\ [Next]_vars => IInv'
  BY NextInv
<1> QED BY <1>1, <1>2, PTL DEF Spec

\* No part of the application is closed under a thread that uses it (ApplicationService.close and
\* its callers, _bounded_close and server_close): while an operation has the lock it is not closed,
\* the executor's threads have ended before what they read is, and as long as the user presses
\* Control-C once at most, every request at work has ended before anything is closed.
THEOREM PartsInUseStayOpen == Spec => []NothingUsesClosed
<1>1. ASSUME IInv PROVE NothingUsesClosed
  <2>1. (\E t \in Threads : threads[t] # "ended") => closed \cap ThreadUses = {}
    BY <1>1 DEF IInv, ClosingInv, Ended
  <2>2. ASSUME NEW c \in Callers, calls[c].at # "none"
        PROVE  c \in AtWork
    BY <1>1, <2>2, Mine
  <2>3. ASSUME NEW c \in Callers, calls[c].at = "locked"
        PROVE  closed = {}
    BY <1>1, <2>2, <2>3 DEF IInv, ClosingInv
  <2>4. \A c \in Callers : calls[c].at = "locked" => InUse(c) \cap closed = {}
    BY <2>3
  <2>5. ASSUME ~(interrupts > 1), NEW c \in Callers
        PROVE  InUse(c) \cap closed = {} /\ (calls[c].at # "none" => state = "open")
    <3>1. CASE calls[c].at = "none"
      BY <3>1 DEF InUse
    <3>2. CASE calls[c].at # "none"
      <4>1. main.pc \notin {"close", "exit"}
        BY <1>1, <2>2, <2>5, <3>2 DEF IInv, MainInv
      <4> QED BY <1>1, <4>1 DEF IInv, ClosingInv
    <3> QED BY <3>1, <3>2
  <2> QED BY <2>1, <2>4, <2>5 DEF NothingUsesClosed
<1> QED BY <1>1, SpecInv, PTL

\* However many permissions overlap (_temporary_third_party_access), they leave the switch as it is
\* where the operator has set it, and the service refuses nothing for want of consent.
THEOREM OperatorsSwitchStays == Spec => []OperatorSwitchStays
<1>1. ASSUME IInv PROVE OperatorSwitchStays
  BY <1>1 DEF IInv, ConsentInv, OperatorSwitchStays
<1> QED BY <1>1, SpecInv, PTL
=============================================================================
