------------------------ MODULE MCAdaptiveController ------------------------
(* A small instance of AdaptiveController, with both services. *)
EXTENDS AdaptiveController

BothServices == {Static, Browser}

NotWaiting == TaskStatus \ {"waiting_for_user"}

\* Every step of the browser service's cleanups is reached with three operations.
FiveOrThree == [w \in Wirings |-> IF w = Static THEN 5 ELSE 3]
=============================================================================
