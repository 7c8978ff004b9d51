--------------------------- MODULE AdaptiveService ---------------------------
(***************************************************************************)
(* What AdaptiveTaskController asks for a task's configuration:            *)
(* adaptation/static_service.py and browser/adaptive.py.  The service      *)
(* hands out private handles: a ticket for a page that waits for a person, *)
(* a token for a configuration that waits for confirmation, a token for    *)
(* browser resources that could not be given back.  An operation is a set: *)
(* every answer it may give, each with the service's sessions after it; a  *)
(* context's own lock makes it one step.                                   *)
(*                                                                         *)
(* A task has one URL, so that the task is the request's key.  What pages, *)
(* browser and registry do is one outcome, chosen freely; a closed         *)
(* handle's answer is remembered for a while.                              *)
(***************************************************************************)
EXTENDS Naturals, FiniteSets

CONSTANTS
  Tasks,
  Handles,  \* tickets and tokens
  Wirings   \* which services may be wired, by the kinds of handle they give out

\* The kinds of AdaptiveBrowserService and of StaticAdaptiveService, the one composition.py wires.
Browser == {"confirmation", "verification", "cleanup"}
Static == {"confirmation"}

ASSUME ServiceAssumption ==
  /\ Tasks \subseteq Nat \ {0} /\ Handles \subseteq Nat \ {0}
  /\ Wirings \subseteq {Browser, Static}

VARIABLE wiring  \* the service the controller was given; it stays the same

\* ResolutionKind: REUSED and REGISTERED are found, TIMED_OUT and the transient ones failed.
\* "raised" stands for an exception in place of an answer.
Kind == {"found", "rejected", "failed", "cancelled", "confirmation", "verification", "cleanup",
         "raised"}

Answer == [kind : Kind, handle : Handles \cup {0}]
For(kind, h) == [kind |-> kind, handle |-> h]
A(kind) == For(kind, 0)

\* A handle is open, held (a ticket whose browser waits for the cleanup it answers with) or
\* closed with an answer.  A cleanup knows what follows it, and for which ticket.
Session == [kind : {"none", "confirmation", "verification", "cleanup"}, task : Tasks \cup {0},
            state : {"unused", "open", "held", "closed"}, answer : Answer,
            then : {"none", "resolve", "fail", "resume", "end"}, ticket : Handles \cup {0}]

Unopened == [kind |-> "none", task |-> 0, state |-> "unused", answer |-> A("failed"),
             then |-> "none", ticket |-> 0]

NoSessions == [h \in Handles |-> Unopened]

-----------------------------------------------------------------------------
\* An outcome: the answer and the sessions after it.
Out(a, s) == [answer |-> a, sessions |-> s]
Same(s, answers) == {Out(a, s) : a \in answers}

\* The next handle; when the bound is reached there is none.
NextHandle(s) == LET free == {h \in Handles : s[h].state = "unused"} IN
                 {h \in free : \A g \in free : h <= g}

\* A handle of this kind is given out, if the service has such handles.
Opens(s, kind, session) ==
  {Out(For(kind, h), [s EXCEPT ![h] = [session EXCEPT !.kind = kind, !.state = "open"]]) :
     h \in IF kind \in wiring THEN NextHandle(s) ELSE {}}

Of(t) == [Unopened EXCEPT !.task = t]

Closed(s, h, a) == [s EXCEPT ![h] = [Unopened EXCEPT !.kind = s[h].kind, !.task = s[h].task,
                                                     !.state = "closed", !.answer = a]]

\* _finish: the ticket is closed with the outcome's answer.
_finish(h, outs) == {Out(o.answer, Closed(o.sessions, h, o.answer)) : o \in outs}

\* _terminal_result: an old handle's answer, as long as it is remembered.
_terminal_result(s, h) == Same(s, {s[h].answer, A("failed")})

-----------------------------------------------------------------------------
(* ConfigManager, as ConfigManager.tla has it. *)

resolve_config(s, t) ==
  Same(s, {A(k) : k \in {"found", "rejected", "failed"}}) \cup Opens(s, "confirmation", Of(t))

\* A confirmation that fails may leave its token; one that meets another configuration
\* resolves the URL instead.
confirm_config(s, k) ==
  Same(s, {A("rejected"), A("failed")}) \cup
  IF s[k].state = "open" THEN _finish(k, resolve_config(s, s[k].task)) ELSE {}

\* An absent token is no error.
cancel_config(s, k) ==
  {Out(A("cancelled"), IF s[k].state = "open" THEN Closed(s, k, A("cancelled")) ELSE s)}

-----------------------------------------------------------------------------
(* AdaptiveBrowserService. *)

\* A ticket's browser could not be closed: the ticket answers with a cleanup from now on.
_hold_cleanup(s, h, then, a) ==
  {Out(o.answer, [o.sessions EXCEPT ![h].state = "held"]) :
     o \in Opens(s, "cleanup", [Of(s[h].task) EXCEPT !.then = then, !.ticket = h, !.answer = a])}

\* A page asks for a person, or its browser could not be closed or not be started.
capture_acquisition_signal(s, t) ==
  Opens(s, "verification", Of(t))
    \cup Opens(s, "cleanup", [Of(t) EXCEPT !.then = "resolve"])
    \cup Opens(s, "cleanup", [Of(t) EXCEPT !.then = "fail"])

\* The request's own cleanup, or its ticket, comes first.
resolve(s, t) ==
  LET mine == {h \in Handles : s[h].task = t /\ s[h].state \in {"open", "held"}}
      cleanups == {c \in mine : s[c].kind = "cleanup" /\ s[c].then \in {"resolve", "fail"}}
      tickets == {v \in mine : s[v].kind = "verification"}
      answering == {c \in mine : s[c].kind = "cleanup" /\ s[c].ticket \in tickets} IN
  IF cleanups # {} THEN Same(s, {For("cleanup", c) : c \in cleanups})
  ELSE IF answering # {} THEN Same(s, {For("cleanup", c) : c \in answering})
  ELSE IF tickets # {} THEN Same(s, {For("verification", v) : v \in tickets})
  ELSE resolve_config(s, t) \cup capture_acquisition_signal(s, t)

\* With the verified profile the request is resolved again; the profile, or another browser,
\* may have to be cleaned up first.
_resume_verified(s, h) ==
  LET outs == resolve_config(s, s[h].task) IN
  _finish(h, outs)
    \cup _hold_cleanup(s, h, "resume", A("failed"))
    \cup UNION {_hold_cleanup(o.sessions, h, "end", o.answer) : o \in outs}

\* What a held ticket answers with.
Held(s, h) == Same(s, {For("cleanup", c) : c \in {c \in Handles : s[c].state = "open" /\ s[c].ticket = h}})

continue_verification(s, h) ==
  CASE s[h].state = "closed" -> _terminal_result(s, h)
    [] s[h].state = "held" -> Held(s, h)
    [] s[h].state = "open" ->
         Same(s, {For("verification", h)})
           \cup _finish(h, Same(s, {A("failed"), A("cancelled")}))
           \cup _hold_cleanup(s, h, "resume", A("failed"))
           \cup _hold_cleanup(s, h, "end", A("failed"))
           \cup _resume_verified(s, h)

cancel(s, h) ==
  CASE s[h].state = "closed" -> _terminal_result(s, h)
    [] s[h].state = "held" -> Held(s, h)
    [] s[h].state = "open" ->
         _finish(h, Same(s, {A("failed"), A("cancelled")})) \cup _hold_cleanup(s, h, "end", A("cancelled"))

\* What follows a cleanup that has worked.
AfterCleanup(s, c) ==
  LET done == Closed(s, c, A("failed"))
      v == s[c].ticket IN
  CASE s[c].then = "resolve" -> resolve(done, s[c].task)
    [] s[c].then = "fail" -> Same(done, {A("failed")})
    [] s[c].then = "end" -> _finish(v, Same(done, {s[c].answer}))
    [] s[c].then = "resume" -> _resume_verified(done, v)

retry_cleanup(s, c) ==
  IF s[c].state = "closed" THEN _terminal_result(s, c)
  ELSE Same(s, {For("cleanup", c)})
         \cup {Out(o.answer, [o.sessions EXCEPT ![c].answer = o.answer]) : o \in AfterCleanup(s, c)}

\* Tickets that have run out are continued once more, which ends them.
expire_sweep(s) ==
  {s} \cup {Closed(s, h, A("failed")) : h \in {h \in Handles : s[h].kind = "verification" /\ s[h].state = "open"}}
      \cup UNION {{o.sessions : o \in _hold_cleanup(s, h, "end", A("failed"))} :
                    h \in {h \in Handles : s[h].kind = "verification" /\ s[h].state = "open"}}
=============================================================================
