------------------------------ MODULE MCWorker ------------------------------
(* One worker process: its model calls, and its callers of an order pool   *)
(* with one worker thread.  Gateway and pool share no variable, so each is *)
(* checked while the other rests, as it was at the start.                  *)
EXTENDS MCLlmGateway, OrderPool

WorkerVars == <<vars, poolVars>>

CallsRest ==
    /\ \A c \in Call : pc[c] = "idle" /\ kind[c] = CHOOSE k \in Kinds : TRUE
    /\ breaker = FreshBreaker /\ cache = {} /\ \A t \in Tenant : used[t] = 0

PoolRests ==
    /\ ~warm /\ pool = None /\ sem = None /\ down = "no"
    /\ \A c \in Caller : stage[c] = "idle" /\ job[c] = "none"

WorkerInit == Init /\ PoolInit

WorkerNext ==
    \/ PoolRests /\ Next /\ UNCHANGED poolVars
    \/ CallsRest /\ PoolNext /\ UNCHANGED vars

WorkerSpec == WorkerInit /\ [][WorkerNext]_WorkerVars /\ Fairness /\ PoolFairness
=============================================================================
