---------------------------- MODULE ConfigHistory ----------------------------
(***************************************************************************)
(* What adaptation/registry.py promises of a configuration: its revisions  *)
(* form one history that only grows, along the table of the transitions,   *)
(* and that is lost as a whole or not at all.  A crash, a failed write or  *)
(* a second process changes nothing of that.                               *)
(***************************************************************************)
EXTENDS Naturals, Sequences

CONSTANT Configs

VARIABLE history  \* configuration -> the statuses of its revisions, oldest first

ConfigStatus == {"active", "stale", "invalid", "revoked"}

Init == history = [c \in Configs |-> <<>>]

CanFollow(s) == CASE s \in {"active", "stale"} -> ConfigStatus
                  [] s = "invalid"             -> {"invalid", "revoked"}
                  [] s = "revoked"             -> {"stale"}

Register(c) ==
  /\ history[c] = <<>>
  /\ history' = [history EXCEPT ![c] = <<"active">>]

Transition(c, s) ==
  /\ history[c] # <<>>
  /\ s \in CanFollow(history[c][Len(history[c])])
  /\ history' = [history EXCEPT ![c] = Append(@, s)]

\* A damaged history is given up whole: no prefix of it comes back.
GiveUp(c) == history' = [history EXCEPT ![c] = <<>>]

Next == \E c \in Configs :
          Register(c) \/ (\E s \in ConfigStatus : Transition(c, s)) \/ GiveUp(c)

Spec == Init /\ [][Next]_history
=============================================================================
