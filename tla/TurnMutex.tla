----------------------------- MODULE TurnMutex -----------------------------
(***************************************************************************)
(* What the session lock promises a conversation: at any time at most one  *)
(* turn of a session is between entering `async with ahold_session` and    *)
(* leaving it.  The docstring of AsyncSessionLock: mutual exclusion by     *)
(* thread_id over the whole turn.                                          *)
(***************************************************************************)
CONSTANT Turn, NoTurn

VARIABLE inside    \* the turn inside the critical section, or NoTurn

Init == inside = NoTurn

Enter(t) == inside = NoTurn /\ inside' = t

Leave(t) == inside = t /\ inside' = NoTurn

Next == \E t \in Turn : Enter(t) \/ Leave(t)

Spec == Init /\ [][Next]_inside
=============================================================================
