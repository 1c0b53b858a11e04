--------------------------- MODULE MCSessionTurn ---------------------------
(* Three turns of one session. *)
EXTENDS SessionTurn
=============================================================================
