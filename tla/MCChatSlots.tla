---------------------------- MODULE MCChatSlots ----------------------------
(* Small instances of ChatSlots: four requests of three tenants, so that   *)
(* the cluster limit and a tenant's limit can each be the one that bites.  *)
EXTENDS ChatSlots, TLC

CONSTANTS r1, r2, r3, r4, ta, tb, tc, w1, w2

MCRequest == {r1, r2, r3, r4}
MCTenantOf == r1 :> ta @@ r2 :> ta @@ r3 :> tb @@ r4 :> tc
MCWorkerOf == r1 :> w1 @@ r2 :> w2 @@ r3 :> w2 @@ r4 :> w2
=============================================================================
