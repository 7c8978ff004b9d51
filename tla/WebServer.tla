------------------------------ MODULE WebServer ------------------------------
(***************************************************************************)
(* The web server (web/server.py) over ApplicationService: a thread for     *)
(* each request, a semaphore that bounds them, the permission a request     *)
(* gives for a third-party site, and the end of the program by Control-C.   *)
(*                                                                         *)
(* The main thread builds the application (application/composition.py) or   *)
(* has it from the command line (cli.py), serves, and after Control-C       *)
(* waits for the requests at work and closes the application.  Whether a    *)
(* request's Host, session, CSRF token, path and body are in order is left  *)
(* to chance; a browser that stops sending is cut off by the read timeout.  *)
(***************************************************************************)
EXTENDS ApplicationService

CONSTANTS
  MaxConnections,
  MaxInterrupts    \* bound on the times the user presses Control-C

ASSUME WebAssumption == MaxConnections \in Nat \ {0} /\ MaxInterrupts \in Nat

VARIABLES
  main,        \* what the main thread is at
  slots,       \* what is left of the semaphore _capacity
  active,      \* _active_handlers
  requests,    \* the request each handler's thread is at
  interrupts,  \* how often the user has pressed Control-C
  lost,        \* it came between the count of a request and the start of its thread
  operator     \* the operator set the switch before the program started

mainVars == <<main, interrupts, lost, operator>>
handlerVars == <<slots, active, requests>>
vars == <<serviceVars, mainVars, handlerVars>>

None == "none"
NoRequest == [pc |-> "none", operation |-> "none", third |-> FALSE, allow |-> FALSE,
              saved |-> {}, answer |-> None]

NeedsConsent == {"create_crawl_task", "explore_site"}

\* Only an operation on a site has one that may be a third party, and a permission for it.
Request ==
  {r \in [pc : {"permitted"}, operation : Operations, third : BOOLEAN, allow : BOOLEAN,
          saved : {{}}, answer : {None}] :
     r.operation \notin Exports \cup NeedsConsent => ~r.third /\ ~r.allow}

WebTypeOK ==
  /\ TypeOK
  /\ main \in [pc : {"build", "unbuild", "start", "poll", "acquired", "counted", "drain", "close", "exit"},
               handler : Callers \cup {NoOne}, tries : 0..3]
  /\ slots \in 0..MaxConnections /\ active \in 0..MaxConnections + 1
  /\ requests \in [Callers ->
       [pc : {"none", "accepted", "started", "permitted", "calling", "answered", "released"},
        operation : Operations \cup {"none"}, third : BOOLEAN, allow : BOOLEAN,
        saved : SUBSET BOOLEAN,
        answer : {None, "answered", "refused", "denied"}]]
  /\ interrupts \in 0..MaxInterrupts
  /\ lost \in BOOLEAN /\ operator \in BOOLEAN

Init ==
  /\ InitService
  /\ operator = allowed
  /\ main = [pc |-> "build", handler |-> NoOne, tries |-> 0]
  /\ slots = MaxConnections /\ active = 0
  /\ requests = [h \in Callers |-> NoRequest]
  /\ interrupts = 0 /\ lost = FALSE

------------------------------------------------------------------------------
(* The main thread: building and serving.                                   *)

MainGoes(pc) == main' = [main EXCEPT !.pc = pc]

\* The server of an application of its own tries three times to close it, the command line once.
\* Which of the two the program is shows here only.
Closes(tries) == main' = [pc |-> "close", handler |-> NoOne, tries |-> tries]

\* The executor's threads run from here on, and recovery fills its queue; or something fails, before
\* the executor is there or after.
build_application ==
  /\ main.pc = "build"
  /\ \/ MainGoes("start") /\ queued' \in 0..QueueSize /\ UNCHANGED <<stopping, threads>>
     \/ MainGoes("unbuild") /\ queued' \in 0..QueueSize /\ stopping' = TRUE /\ UNCHANGED threads
     \/ MainGoes("unbuild") /\ threads' = [t \in Threads |-> "ended"] /\ UNCHANGED <<queued, stopping>>
  /\ UNCHANGED <<state, lock, closed, closing, allowed, calls, interrupts, lost, operator, handlerVars>>

\* What was built is closed, each part whether or not the others could be; nothing if the
\* executor did not stop in time.
build_fails ==
  /\ main.pc = "unbuild"
  /\ MainGoes("exit")
  /\ closed' \in (IF Ended THEN {{"executor"} \cup ps : ps \in SUBSET (Parts \ {"executor"})} ELSE {{}})
  /\ UNCHANGED <<state, lock, closing, threads, stopping, queued, allowed, calls,
                 interrupts, lost, operator, handlerVars>>

create_web_server ==
  /\ main.pc = "start"
  /\ MainGoes("poll") \/ (\E tries \in {1, 3} : Closes(tries))
  /\ UNCHANGED <<serviceVars, interrupts, lost, operator, handlerVars>>

\* A request that finds no slot is answered 503 by the main thread.
answer_busy ==
  /\ main.pc = "poll" /\ slots = 0
  /\ UNCHANGED vars

process_request(h) ==
  /\ main.pc = "poll" /\ slots > 0 /\ requests[h].pc = "none"
  /\ slots' = slots - 1
  /\ main' = [main EXCEPT !.pc = "acquired", !.handler = h]
  /\ requests' = [requests EXCEPT ![h].pc = "accepted"]
  /\ UNCHANGED <<serviceVars, interrupts, lost, operator, active>>

count_handler ==
  /\ main.pc = "acquired"
  /\ MainGoes("counted") /\ active' = active + 1
  /\ UNCHANGED <<serviceVars, interrupts, lost, operator, slots, requests>>

\* Mutant: the slot is given back, and the count is not.
Uncounted_not == active
\* The end of a handler that could not be started: slot and count.
Uncounted == active - 1

\* The thread starts, or cannot be started.
start_handler ==
  /\ main.pc = "counted"
  /\ main' = [main EXCEPT !.pc = "poll", !.handler = NoOne]
  /\ \/ /\ requests' = [requests EXCEPT ![main.handler].pc = "started"]
        /\ UNCHANGED <<slots, active>>
     \/ /\ requests' = [requests EXCEPT ![main.handler] = NoRequest]
        /\ slots' = slots + 1 /\ active' = Uncounted
  /\ UNCHANGED <<serviceVars, interrupts, lost, operator>>

------------------------------------------------------------------------------
(* A handler's thread.                                                      *)

RequestIs(h, pc) == requests[h].pc = pc

\* What the request is answered; "denied" is a refusal for want of the permission it gives.
Answers(h, answer) == requests' = [requests EXCEPT ![h] = [NoRequest EXCEPT !.pc = "answered", !.answer = answer]]
Refusal(r) == IF r.allow THEN "denied" ELSE "refused"

\* _require_authorized: a switch that is on already is an answer it does not expect.
Authorized(r) == r.third /\ r.operation \in NeedsConsent => r.allow /\ ~allowed

\* The request as it is read, or why it is refused.
do_GET_or_POST(h) ==
  /\ RequestIs(h, "started")
  /\ \/ Answers(h, "refused")
     \/ \E r \in Request :
          IF Authorized(r) THEN requests' = [requests EXCEPT ![h] = r] ELSE Answers(h, Refusal(r))
  /\ UNCHANGED <<serviceVars, mainVars, slots, active>>

\* The operation that is called, inside the permission where the request gives one.
Chosen(h) == RequestIs(h, "permitted") /\ requests[h].operation # "explore_site"

Calls(h) ==
  /\ requests' = [requests EXCEPT ![h].pc = "calling", ![h].saved = IF requests[h].allow THEN {allowed} ELSE {}]
  /\ calls' = [calls EXCEPT ![h] = [at |-> "called", operation |-> requests[h].operation,
                                    third |-> requests[h].third, result |-> "none"]]
  /\ UNCHANGED <<state, lock, closed, closing, threads, stopping, queued, mainVars, slots, active>>

get_or_post(h) ==
  /\ Chosen(h) /\ ~requests[h].allow
  /\ Calls(h)
  /\ UNCHANGED allowed

\* __enter__ of _temporary_third_party_access, before the call.
permission_begins(h) ==
  /\ Chosen(h) /\ requests[h].allow
  /\ allowed' = TRUE
  /\ Calls(h)

explore_site(h) ==
  /\ RequestIs(h, "permitted") /\ requests[h].operation = "explore_site"
  /\ Answers(h, "answered")
  /\ UNCHANGED <<serviceVars, mainVars, slots, active>>

operation_step(h) ==
  /\ Step(h)
  /\ UNCHANGED <<mainVars, handlerVars>>

\* Mutant: the switch is off afterwards.
Restored_off(saved) == FALSE
\* The switch as it was when the permission began.
Restored(saved) == TRUE \in saved

permission_ends(h) ==
  /\ RequestIs(h, "calling") /\ calls[h].at = "returned"
  /\ Answers(h, IF calls[h].result = "consent" THEN Refusal(requests[h]) ELSE "answered")
  /\ calls' = [calls EXCEPT ![h] = NoCall]
  /\ allowed' = IF requests[h].saved = {} THEN allowed ELSE Restored(requests[h].saved)
  /\ UNCHANGED <<state, lock, closed, closing, threads, stopping, queued, mainVars, slots, active>>

\* _handler_finished: the slot first, then the count.
handler_finished(h) ==
  \/ /\ RequestIs(h, "answered")
     /\ requests' = [requests EXCEPT ![h] = [NoRequest EXCEPT !.pc = "released"]]
     /\ slots' = slots + 1
     /\ UNCHANGED <<serviceVars, mainVars, active>>
  \/ /\ RequestIs(h, "released")
     /\ requests' = [requests EXCEPT ![h] = NoRequest] /\ active' = active - 1
     /\ UNCHANGED <<serviceVars, mainVars, slots>>

Handler(h) ==
  \/ do_GET_or_POST(h) \/ get_or_post(h) \/ explore_site(h) \/ permission_begins(h)
  \/ operation_step(h) \/ permission_ends(h) \/ handler_finished(h)

------------------------------------------------------------------------------
(* The main thread: the end.  The handlers' threads and the executor's are   *)
(* daemons: they end with the main thread.                                  *)

\* The first one ends serve_forever; one that comes while the handlers are waited for leaves
\* that loop, and only the command line still closes the application; one that comes while the
\* application is closed ends the program.
KeyboardInterrupt ==
  /\ interrupts < MaxInterrupts /\ interrupts' = interrupts + 1
  /\ \/ /\ main.pc \in {"poll", "acquired", "counted"}
        /\ main' = [main EXCEPT !.pc = "drain", !.handler = NoOne]
        /\ lost' = (main.pc = "counted")
        /\ requests' = IF main.handler = NoOne THEN requests
                       ELSE [requests EXCEPT ![main.handler] = NoRequest]
        /\ UNCHANGED serviceVars
     \/ /\ main.pc = "drain"
        /\ MainGoes("exit") \/ Closes(1)
        /\ UNCHANGED <<serviceVars, lost, requests>>
     \/ /\ main.pc = "close"
        /\ MainGoes("exit") /\ close_interrupted
        /\ UNCHANGED <<lost, requests>>
  /\ UNCHANGED <<operator, slots, active>>

\* The wait starts again at its timeout, as often as it takes.
Drained == active = 0

server_close ==
  /\ main.pc = "drain" /\ Drained
  /\ \E tries \in {1, 3} : Closes(tries)
  /\ UNCHANGED <<serviceVars, interrupts, lost, operator, handlerVars>>

close_application ==
  /\ main.pc = "close"
  /\ close
  /\ UNCHANGED <<mainVars, handlerVars>>

_bounded_close ==
  /\ main.pc = "close" /\ closing \in {"true", "false"}
  /\ closing' = "no"
  /\ main' = IF closing = "false" /\ main.tries > 1 THEN [main EXCEPT !.tries = @ - 1]
             ELSE [main EXCEPT !.pc = "exit", !.tries = 0]
  /\ UNCHANGED <<state, lock, closed, threads, stopping, queued, allowed, calls,
                 interrupts, lost, operator, handlerVars>>

MainBegins == build_application \/ build_fails \/ create_web_server
MainServes == answer_busy \/ (\E h \in Callers : process_request(h)) \/ count_handler \/ start_handler
MainEnds == server_close \/ close_application \/ _bounded_close

ExecutorStep == (\E t \in Workers : worker(t)) \/ reconcile_deferred

Next ==
  \/ MainBegins \/ MainServes \/ KeyboardInterrupt \/ MainEnds
  \/ /\ main.pc # "exit"
     /\ \/ \E h \in Callers : Handler(h)
        \/ ExecutorStep /\ UNCHANGED <<mainVars, handlerVars>>

Spec == Init /\ [][Next]_vars

\* Every operation ends, and the main thread goes on.
FairSpec ==
  /\ Spec
  /\ WF_vars(MainEnds)
  /\ \A h \in Callers : WF_vars(main.pc # "exit" /\ Handler(h))

------------------------------------------------------------------------------
(* Properties.                                                              *)

InUse(c) ==
  IF calls[c].at = "locked" THEN Uses(calls[c].operation)
  ELSE IF calls[c].at = "view" THEN ViewUses ELSE {}

\* No part is closed under whoever uses it: not under a thread of the executor, which reads the
\* repository until it ends, not under an operation, and not under the answer create_crawl_task
\* reads without the lock, unless the user presses Control-C again while the handlers are waited
\* for.  Until then the application is not even closing while a request is at work.
NothingUsesClosed ==
  /\ (\E t \in Threads : threads[t] # "ended") => closed \cap ThreadUses = {}
  /\ \A c \in Callers : calls[c].at = "locked" => InUse(c) \cap closed = {}
  /\ \/ interrupts > 1
     \/ \A c \in Callers : InUse(c) \cap closed = {} /\ (calls[c].at # "none" => state = "open")

\* What the operator allowed the permissions of requests never take away: however they overlap,
\* each puts back a switch that is set, and the service refuses nothing for want of consent.  (With
\* the switch off they do come into each other's way: one may take the other's permission, be
\* refused because of it, or leave it on.)
OperatorSwitchStays ==
  operator => allowed /\ \A c \in Callers : calls[c].result # "consent"

\* After Control-C the program ends, however the requests at work and the parts behave, but for
\* a Control-C between the count of a request and the start of its thread: nobody takes the count
\* back, and the handlers are waited for until the user presses again.
ServerEnds == main.pc \in {"drain", "close"} ~> main.pc = "exit" \/ lost
=============================================================================
