----------------------------- MODULE LlmGateway -----------------------------
(***************************************************************************)
(* Concurrent model calls through GatewayChatModel of one worker process:  *)
(* app/llm_gateway/gateway.py with its quota and cache store.  A call      *)
(* checks the tenant's daily quota, looks into the response cache, passes  *)
(* the breaker, calls upstream with retries, records the outcome with the  *)
(* breaker, charges the quota and writes the cache.                        *)
(*                                                                         *)
(* Kinds of call: "invoke" runs in a thread and cannot be cancelled;       *)
(* "ainvoke" and "react" are coroutines, the latter uncached; "astream" is *)
(* a generator without retries that its consumer may abandon.              *)
(***************************************************************************)
EXTENDS CircuitBreaker, FiniteSets

CONSTANTS
    Call,      \* call slots, used again and again
    Tenant,    \* tenants
    TenantOf,  \* TenantOf[c]
    Kinds,     \* the kinds of call in this instance
    Retries,   \* llm_max_retries
    Limit,     \* llm_daily_token_limit
    MaxUse     \* bound on the tokens of one call

AllKinds == {"invoke", "ainvoke", "react", "astream"}

ASSUME CallAssumption ==
    /\ IsFiniteSet(Call)
    /\ TenantOf \in [Call -> Tenant]
    /\ Kinds \subseteq AllKinds /\ Kinds # {}
    /\ Retries \in Nat

ASSUME QuotaAssumption == Limit \in Nat \ {0} /\ MaxUse \in Nat

VARIABLES
    pc,        \* where each call is
    kind,      \* its kind
    tries,     \* retries made
    asProbe,   \* the guard let it through as the probe
    breaker,   \* circuit._STATE
    orphaned,  \* history: the probe was cancelled, its flag was left set
    used,      \* used[t]: tokens of the tenant today
    cache      \* tenants whose prompt has a cached answer

vars == <<pc, kind, tries, asProbe, breaker, orphaned, used, cache>>

Returned == {"quota", "cached", "open", "error", "gone", "ok"}
PC == {"idle", "lookup", "guard", "calling", "commit"} \union Returned

(* Calls that passed the quota check and may still be charged.             *)
Admitted == {c \in Call : pc[c] \in {"lookup", "guard", "calling", "commit"}}

CacheOn(k) == k \in {"invoke", "ainvoke"}
Retrying(k) == k # "astream"
Cancellable(k) == k # "invoke"

Init ==
    /\ pc = [c \in Call |-> "idle"]
    /\ kind \in [Call -> {CHOOSE k \in Kinds : TRUE}]
    /\ tries = [c \in Call |-> 0]
    /\ asProbe = [c \in Call |-> FALSE]
    /\ breaker = FreshBreaker
    /\ orphaned = FALSE
    /\ used = [t \in Tenant |-> 0]
    /\ cache = {}

Goto(c, there) == pc' = [pc EXCEPT ![c] = there]

(* The upstream call is over: its loop variable and its role end with it.  *)
Hangup(c) ==
    /\ tries' = [tries EXCEPT ![c] = 0]
    /\ asProbe' = [asProbe EXCEPT ![c] = FALSE]

-----------------------------------------------------------------------------
Bug_OverQuota(c) == used[TenantOf[c]] > Limit + MaxUse

OverQuota(c) == used[TenantOf[c]] >= Limit

(* _assert_quota; a stream goes on to the breaker, and so does a call      *)
(* whose policy has no cache.                                              *)
Start(c) ==
    /\ pc[c] = "idle"
    /\ \E k \in Kinds :
        /\ kind' = [kind EXCEPT ![c] = k]
        /\ Goto(c, IF OverQuota(c) THEN "quota" ELSE IF CacheOn(k) THEN "lookup" ELSE "guard")
    /\ UNCHANGED <<tries, asProbe, breaker, orphaned, used, cache>>

(* _read_llm_cache; the key carries the tenant.  A hit charges nothing.    *)
Lookup(c) ==
    /\ pc[c] = "lookup"
    /\ Goto(c, IF TenantOf[c] \in cache THEN "cached" ELSE "guard")
    /\ UNCHANGED <<kind, tries, asProbe, breaker, orphaned, used, cache>>

(* guard_llm_circuit                                                       *)
Guard(c) ==
    /\ pc[c] = "guard"
    /\ \/ /\ AdmitsCall(breaker)
          /\ Goto(c, "calling")
          /\ UNCHANGED <<asProbe, breaker>>
       \/ /\ AdmitsProbe(breaker)
          /\ Goto(c, "calling")
          /\ asProbe' = [asProbe EXCEPT ![c] = TRUE]
          /\ breaker' = ProbeStarted(breaker)
       \/ /\ Rejects(breaker)
          /\ Goto(c, "open")
          /\ UNCHANGED <<asProbe, breaker>>
    /\ UNCHANGED <<kind, tries, orphaned, used, cache>>

(* A transient upstream error with attempts left.                          *)
Retry(c) ==
    /\ pc[c] = "calling"
    /\ Retrying(kind[c]) /\ tries[c] < Retries
    /\ tries' = [tries EXCEPT ![c] = @ + 1]
    /\ UNCHANGED <<pc, kind, asProbe, breaker, orphaned, used, cache>>

(* The last attempt failed, or the error is not transient: one failure for *)
(* the whole call.  Nothing is charged.                                    *)
Fail(c) ==
    /\ pc[c] = "calling"
    /\ breaker' = RecordFailure(breaker)
    /\ orphaned' = FALSE
    /\ Goto(c, "error")
    /\ Hangup(c)
    /\ UNCHANGED <<kind, used, cache>>

Succeed(c) ==
    /\ pc[c] = "calling"
    /\ breaker' = RecordSuccess(breaker)
    /\ orphaned' = FALSE
    /\ Goto(c, "commit")
    /\ Hangup(c)
    /\ UNCHANGED <<kind, used, cache>>

(* The awaiting task is cancelled, or the stream's consumer closes it:     *)
(* CancelledError and GeneratorExit are not Exceptions, so neither outcome *)
(* is recorded and nothing is charged.                                     *)
Cancel(c) ==
    /\ pc[c] = "calling"
    /\ Cancellable(kind[c])
    /\ orphaned' = (orphaned \/ asProbe[c])
    /\ Goto(c, "gone")
    /\ Hangup(c)
    /\ UNCHANGED <<kind, breaker, used, cache>>

(* _commit, then the cache write if the answer is small enough.            *)
Commit(c) ==
    /\ pc[c] = "commit"
    /\ \E u \in 0..MaxUse : used' = [used EXCEPT ![TenantOf[c]] = @ + u]
    /\ \/ CacheOn(kind[c]) /\ cache' = cache \union {TenantOf[c]}
       \/ UNCHANGED cache
    /\ Goto(c, "ok")
    /\ UNCHANGED <<kind, tries, asProbe, breaker, orphaned>>

(* The caller has its answer or its exception; the slot is free again.     *)
Return(c) ==
    /\ pc[c] \in Returned
    /\ Goto(c, "idle")
    /\ kind' = [kind EXCEPT ![c] = CHOOSE k \in Kinds : TRUE]
    /\ UNCHANGED <<tries, asProbe, breaker, orphaned, used, cache>>

(* llm_cache_ttl_seconds have passed.                                      *)
CacheExpire ==
    /\ \E t \in cache : cache' = cache \ {t}
    /\ UNCHANGED <<pc, kind, tries, asProbe, breaker, orphaned, used>>

(* The quota key names the day: at midnight every tenant starts at zero,   *)
(* while calls admitted yesterday are still running.                       *)
NewDay ==
    /\ \E t \in Tenant : used[t] > 0
    /\ used' = [t \in Tenant |-> 0]
    /\ UNCHANGED <<pc, kind, tries, asProbe, breaker, orphaned, cache>>

Tick ==
    /\ breaker.wait > 0
    /\ breaker' = Cooled(breaker)
    /\ UNCHANGED <<pc, kind, tries, asProbe, orphaned, used, cache>>

Next ==
    \/ \E c \in Call : Start(c)
    \/ \E c \in Call : Lookup(c)
    \/ \E c \in Call : Guard(c)
    \/ \E c \in Call : Retry(c)
    \/ \E c \in Call : Fail(c)
    \/ \E c \in Call : Succeed(c)
    \/ \E c \in Call : Cancel(c)
    \/ \E c \in Call : Commit(c)
    \/ \E c \in Call : Return(c)
    \/ CacheExpire
    \/ NewDay
    \/ Tick

Spec == Init /\ [][Next]_vars

(* llm_timeout_seconds bounds every attempt, so a call in progress ends;   *)
(* time passes.  Nothing makes anybody start a call or cancel one.         *)
Fairness ==
    /\ \A c \in Call : WF_vars(Lookup(c) \/ Guard(c) \/ Commit(c) \/ Return(c))
    /\ \A c \in Call : WF_vars(Fail(c) \/ Succeed(c))
    /\ WF_vars(Tick)

FairSpec == Spec /\ Fairness

-----------------------------------------------------------------------------
TypeOK ==
    /\ pc \in [Call -> PC]
    /\ kind \in [Call -> Kinds]
    /\ tries \in [Call -> 0..Retries]
    /\ asProbe \in [Call -> BOOLEAN]
    /\ breaker \in Breaker
    /\ orphaned \in BOOLEAN
    /\ used \in [Tenant -> Nat]
    /\ cache \subseteq Tenant

CallsOf(t) == {c \in Call : TenantOf[c] = t}

(* The quota is checked before a call and charged after it, so concurrent  *)
(* calls overshoot the daily limit; they do so by no more than one call's  *)
(* tokens for each call that can be in flight, across midnight too.        *)
QuotaOvershootBounded ==
    \A t \in Tenant : used[t] < Limit + MaxUse * Cardinality(CallsOf(t))

(* The breaker's fields agree with one another however records of probes   *)
(* and of calls admitted before it opened interleave: it is open exactly   *)
(* at the threshold, and only an open breaker cools or has a probe.        *)
BreakerConsistent ==
    Threshold > 0 =>
        /\ breaker.open <=> breaker.failures = Threshold
        /\ (breaker.wait > 0 \/ breaker.probe) => breaker.open

(* probe_in_flight is set only while a call let through as the probe is    *)
(* really upstream, or when that call was cancelled: no late record and no *)
(* other call's outcome leaves it set.                                     *)
ProbeFlagHasOwner ==
    breaker.probe /\ ~orphaned => \E c \in Call : asProbe[c] /\ pc[c] = "calling"

AwaitingProbe == breaker.open /\ breaker.wait = 0 /\ breaker.probe

(* A breaker that waits for a probe that is not cancelled does not wait    *)
(* for ever: the probe ends, and the breaker closes or cools down again.   *)
ProbeResolves == AwaitingProbe ~> ~AwaitingProbe \/ orphaned

(* The same without the exception.  circuit.py:62: once the cooldown is    *)
(* over a probe is let through.                                            *)
ProbeAlwaysResolves == AwaitingProbe ~> ~AwaitingProbe

=============================================================================
