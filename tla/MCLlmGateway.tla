---------------------------- MODULE MCLlmGateway ----------------------------
(* Call slots c1 and c2 of one tenant, c3 of another. *)
EXTENDS LlmGateway, TLC

CONSTANTS c1, c2, c3, ta, tb

MCTenantOf == c1 :> ta @@ c2 :> ta @@ c3 :> tb
=============================================================================
