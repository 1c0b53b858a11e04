----------------------------- MODULE ChatSlots -----------------------------
(***************************************************************************)
(* Cluster-wide conversation slots: app/chat_slots.py and the callers in   *)
(* app/concurrency.py.  A chat request takes a lease in two sorted sets, a *)
(* global one and its tenant's, runs its turn, and gives the lease back.   *)
(* Leases expire ttl seconds after the clock reading of the acquirer and   *)
(* are never renewed.  Expired leases leave the sets only when somebody    *)
(* acquires or counts.                                                     *)
(*                                                                         *)
(* Redis evaluates one Lua script at a time, so a script is one action.    *)
(* The script gets "now" from the caller, who read its own worker's        *)
(* time.time() before sending: the reading is a step of its own (Begin),   *)
(* it may be up to MaxSkew away from the reference clock, and it may be    *)
(* old when the script runs.  A degraded deployment is one process, whose  *)
(* MemoryChatSlotStore has both dictionaries behind a threading.Lock.      *)
(***************************************************************************)
EXTENDS Integers, FiniteSets

CONSTANTS
    Request,      \* chat requests; a request's uuid token is the request
    Tenant,       \* tenants
    Worker,       \* serving processes
    TenantOf,     \* TenantOf[r], the normalised tenant of a request
    WorkerOf,     \* WorkerOf[r], the process that serves it
    GlobalLimit,  \* chat_concurrency
    TenantLimit,  \* chat_tenant_concurrency after _slot_limits
    Ttl,          \* chat_slot_ttl_seconds
    MaxSkew,      \* distance of a worker's time.time() from the clock
    MaxClock      \* bound on the modelled time

ASSUME RequestsAssumption ==
    /\ IsFiniteSet(Request)
    /\ TenantOf \in [Request -> Tenant]
    /\ WorkerOf \in [Request -> Worker]

(* _slot_limits: both limits at least 1, the tenant's capped by the global *)
(* one, and a lease of at least one second.                                *)
ASSUME LimitsAssumption ==
    /\ GlobalLimit \in Nat /\ TenantLimit \in 1..GlobalLimit
    /\ Ttl \in Nat \ {0}

ASSUME ClockAssumption ==
    /\ MaxSkew \in Nat
    /\ MaxClock \in Nat

VARIABLES
    degraded,\* no REDIS_URL: one process with a MemoryChatSlotStore
    clock,   \* reference time
    pc,      \* where each request is
    now,     \* the worker's clock reading the request sends to the store
    glob,    \* score of the request's token in the global set, 0 if absent
    tens     \* score of its token in its tenant's set, 0 if absent

vars == <<degraded, clock, pc, now, glob, tens>>

PC == {"idle", "acquiring", "running", "releasing",
       "busy_cluster", "busy_tenant", "lost", "gone"}

(* A worker's clock reading.  Time starts at MaxSkew so readings are >= 0. *)
Reading == (clock - MaxSkew)..(clock + MaxSkew)

ExpireAt(r) == now[r] + Ttl

(* The reading is a local of the call: it dies with the request.           *)
Forget(S) == now' = [r \in Request |-> IF r \in S THEN 0 ELSE now[r]]

Members(set) == {r \in Request : set[r] > 0}

TenantMembers(set, t) == {r \in Members(set) : TenantOf[r] = t}

Init ==
    /\ degraded \in BOOLEAN
    /\ clock = MaxSkew
    /\ pc = [r \in Request |-> "idle"]
    /\ now = [r \in Request |-> 0]
    /\ glob = [r \in Request |-> 0]
    /\ tens = [r \in Request |-> 0]

-----------------------------------------------------------------------------
(* ZREMRANGEBYSCORE set -inf n.                                            *)
Unexpired(set, n) == [r \in Request |-> IF set[r] <= n THEN 0 ELSE set[r]]

PurgedGlobal(n) == Unexpired(glob, n)

Bug_PurgedTenants(t, n) == tens

(* The Lua script purges only the acquiring tenant's set; the in-process   *)
(* store drops the tokens it purges globally from every tenant.            *)
PurgedTenants(t, n) ==
    IF degraded
    THEN [r \in Request |-> IF glob[r] > 0 /\ glob[r] <= n THEN 0 ELSE tens[r]]
    ELSE [r \in Request |-> IF TenantOf[r] = t /\ tens[r] <= n THEN 0 ELSE tens[r]]

Bug_GlobalFull(r) == Cardinality(Members(PurgedGlobal(now[r]))) > GlobalLimit

GlobalFull(r) == Cardinality(Members(PurgedGlobal(now[r]))) >= GlobalLimit

Bug_TenantFull(r) == FALSE

TenantFull(r) ==
    LET t == TenantOf[r]
    IN  Cardinality(TenantMembers(PurgedTenants(t, now[r]), t)) >= TenantLimit

(* What the acquire script leaves behind: the purged sets, with the new    *)
(* token in both when there is room.                                       *)
StoreAfterAcquire(r) ==
    LET added == ~GlobalFull(r) /\ ~TenantFull(r)
        g == PurgedGlobal(now[r])
        h == PurgedTenants(TenantOf[r], now[r])
    IN  /\ glob' = IF added THEN [g EXCEPT ![r] = ExpireAt(r)] ELSE g
        /\ tens' = IF added THEN [h EXCEPT ![r] = ExpireAt(r)] ELSE h

-----------------------------------------------------------------------------
(* _acquire_chat_slot, _occupy and the first line of store.acquire.        *)
Begin(r) ==
    /\ pc[r] = "idle"
    /\ \E n \in Reading : now' = [now EXCEPT ![r] = n]
    /\ pc' = [pc EXCEPT ![r] = "acquiring"]
    /\ UNCHANGED <<degraded, clock, glob, tens>>

(* The acquire script, answered: the turn starts or a busy error is raised *)
(* (HTTP 429), "cluster" before "tenant".                                  *)
Acquire(r) ==
    /\ pc[r] = "acquiring"
    /\ StoreAfterAcquire(r)
    /\ pc' = [pc EXCEPT ![r] = IF GlobalFull(r) THEN "busy_cluster"
                               ELSE IF TenantFull(r) THEN "busy_tenant"
                               ELSE "running"]
    /\ Forget(IF GlobalFull(r) \/ TenantFull(r) THEN {r} ELSE {})
    /\ UNCHANGED <<degraded, clock>>

(* The script runs but nobody receives its token: the awaiting coroutine   *)
(* was cancelled while asyncio.to_thread ran, or Redis' answer was lost.   *)
(* No finally clause knows the token.                                      *)
AcquireLost(r) ==
    /\ ~degraded
    /\ pc[r] = "acquiring"
    /\ StoreAfterAcquire(r)
    /\ pc' = [pc EXCEPT ![r] = IF GlobalFull(r) \/ TenantFull(r) THEN "gone" ELSE "lost"]
    /\ Forget(IF GlobalFull(r) \/ TenantFull(r) THEN {r} ELSE {})
    /\ UNCHANGED <<degraded, clock>>

(* The script never runs: connection refused, or cancelled while queued.   *)
AcquireAborted(r) ==
    /\ ~degraded
    /\ pc[r] = "acquiring"
    /\ pc' = [pc EXCEPT ![r] = "gone"]
    /\ Forget({r})
    /\ UNCHANGED <<degraded, clock, glob, tens>>

(* The turn ends, fails, or its client disconnects: the finally clause.    *)
Finish(r) ==
    /\ pc[r] = "running"
    /\ pc' = [pc EXCEPT ![r] = "releasing"]
    /\ UNCHANGED <<degraded, clock, now, glob, tens>>

Bug_Release(r) ==
    /\ pc[r] = "releasing"
    /\ glob' = [glob EXCEPT ![r] = 0]
    /\ pc' = [pc EXCEPT ![r] = "gone"]
    /\ Forget({r})
    /\ UNCHANGED <<degraded, clock, tens>>

(* The release script: the token leaves both sets.                         *)
Release(r) ==
    /\ pc[r] = "releasing"
    /\ glob' = [glob EXCEPT ![r] = 0]
    /\ tens' = [tens EXCEPT ![r] = 0]
    /\ pc' = [pc EXCEPT ![r] = "gone"]
    /\ Forget({r})
    /\ UNCHANGED <<degraded, clock>>

(* release() swallows every exception, and a second cancellation while     *)
(* to_thread(_vacate) is queued drops the call.                            *)
ReleaseLost(r) ==
    /\ ~degraded
    /\ pc[r] = "releasing"
    /\ pc' = [pc EXCEPT ![r] = "lost"]
    /\ UNCHANGED <<degraded, clock, now, glob, tens>>

(* in_flight(), for /metrics, sampled by some worker.                      *)
InFlight ==
    \E n \in Reading :
        /\ glob' = PurgedGlobal(n)
        /\ tens' = IF degraded
                   THEN [r \in Request |-> IF glob[r] > 0 /\ glob[r] <= n THEN 0 ELSE tens[r]]
                   ELSE tens
        /\ UNCHANGED <<degraded, clock, pc, now>>

(* A worker dies: its requests end with no finally clause run.  Leases in  *)
(* Redis stay, an in-process store dies with the process.                  *)
Crash(w) ==
    LET mine == {r \in Request : degraded \/ WorkerOf[r] = w}
        held == {"running", "releasing"}
    IN  /\ \E r \in mine : pc[r] \in held \union {"acquiring"}
        /\ pc' = [r \in Request |->
                    IF r \notin mine THEN pc[r]
                    ELSE IF pc[r] \in held THEN (IF degraded THEN "gone" ELSE "lost")
                    ELSE IF pc[r] = "acquiring" THEN "gone"
                    ELSE pc[r]]
        /\ glob' = IF degraded THEN [r \in Request |-> 0] ELSE glob
        /\ tens' = IF degraded THEN [r \in Request |-> 0] ELSE tens
        /\ Forget({r \in mine : pc'[r] = "gone"})
        /\ UNCHANGED <<degraded, clock>>

Tick ==
    /\ clock < MaxClock
    /\ clock' = clock + 1
    /\ UNCHANGED <<degraded, pc, now, glob, tens>>

Next ==
    \/ \E r \in Request : Begin(r)
    \/ \E r \in Request : Acquire(r)
    \/ \E r \in Request : AcquireLost(r)
    \/ \E r \in Request : AcquireAborted(r)
    \/ \E r \in Request : Finish(r)
    \/ \E r \in Request : Release(r)
    \/ \E r \in Request : ReleaseLost(r)
    \/ \E w \in Worker : Crash(w)
    \/ InFlight
    \/ Tick

Spec == Init /\ [][Next]_vars

-----------------------------------------------------------------------------
TypeOK ==
    /\ degraded \in BOOLEAN
    /\ clock \in Nat /\ clock >= MaxSkew
    /\ pc \in [Request -> PC]
    /\ now \in [Request -> Nat]
    /\ glob \in [Request -> Nat]
    /\ tens \in [Request -> Nat]

(* Turns that hold a slot and whose lease every worker's clock still shows *)
(* as valid.  ("releasing" still occupies the event loop.)                 *)
Leased == {r \in Request : pc[r] \in {"running", "releasing"} /\ ExpireAt(r) > clock + MaxSkew}

(* Turns running on a lease no worker can have purged never exceed the     *)
(* cluster limit, however clock readings, lost tokens, crashes and lazy    *)
(* purges interleave.  chat_slots.py, acquire of both stores.              *)
LeasedWithinGlobalLimit == Cardinality(Leased) <= GlobalLimit

(* The same for each tenant and its own limit.                             *)
LeasedWithinTenantLimit ==
    \A t \in Tenant : Cardinality({r \in Leased : TenantOf[r] = t}) <= TenantLimit

(* A token stays in a set only while its request runs, or when the release *)
(* was really lost: no finished turn leaves half a lease behind.           *)
SlotsOwned ==
    \A r \in Request :
        (glob[r] > 0 \/ tens[r] > 0) => pc[r] \in {"running", "releasing", "lost"}

(* Requests whose lease is unexpired on the clock of r.                    *)
Blocking(r) == {q \in Request : ExpireAt(q) > now[r] /\ pc[q] \in {"running", "releasing", "lost"}}

(* A request is turned away only by leases that are unexpired on its own   *)
(* clock: dead workers' leases never keep a tenant out for longer than ttl *)
(* (the docstring of RedisChatSlotStore).                                  *)
RejectedByLiveLeases ==
    [][\A r \in Request : pc[r] = "acquiring" =>
        /\ pc'[r] = "busy_cluster" => Cardinality(Blocking(r)) >= GlobalLimit
        /\ pc'[r] = "busy_tenant" =>
             Cardinality({q \in Blocking(r) : TenantOf[q] = TenantOf[r]}) >= TenantLimit]_vars
=============================================================================
