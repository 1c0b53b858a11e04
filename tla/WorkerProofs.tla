---------------------------- MODULE WorkerProofs ----------------------------
(***************************************************************************)
(* Proofs about what the threads of one worker process share: the gateway  *)
(* to the model (LlmGateway with CircuitBreaker) and the pool of the order *)
(* tool (OrderPool), each for every value of its constants.                *)
(***************************************************************************)
EXTENDS LlmGateway, OrderPool, FiniteSetTheorems, TLAPS

LEMMA AKind == (CHOOSE k \in Kinds : TRUE) \in Kinds
    BY CallAssumption

(* The breaker's functions return breakers.                                *)
LEMMA BreakerTypes ==
    ASSUME NEW b \in Breaker
    PROVE  /\ FreshBreaker \in Breaker
           /\ ProbeStarted(b) \in Breaker
           /\ RecordSuccess(b) \in Breaker
           /\ RecordFailure(b) \in Breaker
           /\ Cooled(b) \in Breaker
<1> USE BreakerAssumption DEF Breaker
<1>1. FreshBreaker \in Breaker
    BY DEF FreshBreaker
<1>2. ProbeStarted(b) \in Breaker
    BY DEF ProbeStarted
<1>3. RecordFailure(b) \in Breaker
    <2>1. CASE Threshold = 0
        BY <2>1 DEF RecordFailure
    <2>2. CASE Threshold # 0 /\ b.failures + 1 >= Threshold
        BY <2>2 DEF RecordFailure
    <2>3. CASE Threshold # 0 /\ ~(b.failures + 1 >= Threshold)
        <3>1. RecordFailure(b) = [b EXCEPT !.failures = @ + 1, !.probe = FALSE]
            BY <2>3 DEF RecordFailure
        <3>2. b.failures + 1 \in 0..Threshold
            BY <2>3
        <3> QED
            BY <3>1, <3>2
    <2> QED
        BY <2>1, <2>2, <2>3
<1>4. Cooled(b) \in Breaker
    <2>1. b.wait \in 0..Cooldown /\ (IF b.wait > 0 THEN b.wait - 1 ELSE 0) \in 0..Cooldown
        OBVIOUS
    <2> QED
        BY <2>1 DEF Cooled
<1> QED
    BY <1>1, <1>2, <1>3, <1>4 DEF RecordSuccess

LEMMA InitType == Init => TypeOK
<1> SUFFICES ASSUME Init PROVE TypeOK
    OBVIOUS
<1>1. FreshBreaker \in Breaker
    BY BreakerAssumption DEF FreshBreaker, Breaker
<1>2. kind \in [Call -> Kinds]
    BY AKind DEF Init
<1>3. tries \in [Call -> 0..Retries]
    BY CallAssumption DEF Init
<1> QED
    BY <1>1, <1>2, <1>3 DEF Init, TypeOK, PC

LEMMA NextType == TypeOK /\ [Next]_vars => TypeOK'
<1> SUFFICES ASSUME TypeOK, [Next]_vars PROVE TypeOK'
    OBVIOUS
<1> USE CallAssumption, QuotaAssumption DEF TypeOK, Goto, Hangup
<1>1. ASSUME NEW c \in Call, Start(c) \/ Lookup(c) PROVE TypeOK'
    BY <1>1 DEF Start, Lookup, PC, Returned
<1>2. ASSUME NEW c \in Call, Guard(c) PROVE TypeOK'
    BY <1>2, BreakerTypes DEF Guard, PC, Returned
<1>3. ASSUME NEW c \in Call, Retry(c) PROVE TypeOK'
    BY <1>3 DEF Retry
<1>4. ASSUME NEW c \in Call, Fail(c) \/ Succeed(c) \/ Cancel(c) PROVE TypeOK'
    <2>1. breaker' \in Breaker
        BY <1>4, BreakerTypes DEF Fail, Succeed, Cancel
    <2>2. tries' \in [Call -> 0..Retries]
        BY <1>4 DEF Fail, Succeed, Cancel
    <2>3. asProbe' \in [Call -> BOOLEAN]
        BY <1>4 DEF Fail, Succeed, Cancel
    <2>4. pc' \in [Call -> PC]
        BY <1>4 DEF Fail, Succeed, Cancel, PC, Returned
    <2> QED
        BY <1>4, <2>1, <2>2, <2>3, <2>4 DEF Fail, Succeed, Cancel
<1>5. ASSUME NEW c \in Call, Commit(c) PROVE TypeOK'
    BY <1>5 DEF Commit, PC, Returned
<1>6. ASSUME NEW c \in Call, Return(c) PROVE TypeOK'
    BY <1>6, AKind DEF Return, PC
<1>7. CASE CacheExpire \/ NewDay
    BY <1>7 DEF CacheExpire, NewDay
<1>8. CASE Tick
    BY <1>8, BreakerTypes DEF Tick
<1>9. CASE UNCHANGED vars
    BY <1>9 DEF vars
<1> QED
    BY <1>1, <1>2, <1>3, <1>4, <1>5, <1>6, <1>7, <1>8, <1>9 DEF Next

(* Types of the gateway's calls, quota, cache and breaker.                 *)
THEOREM TypeCorrect == Spec => []TypeOK
    BY InitType, NextType, PTL DEF Spec

-----------------------------------------------------------------------------
LEMMA NextConsistent == TypeOK /\ BreakerConsistent /\ [Next]_vars => BreakerConsistent'
<1> SUFFICES ASSUME TypeOK, BreakerConsistent, [Next]_vars PROVE BreakerConsistent'
    OBVIOUS
<1> USE BreakerAssumption DEF TypeOK, BreakerConsistent, Breaker
<1>1. ASSUME NEW c \in Call, Guard(c) PROVE BreakerConsistent'
    BY <1>1 DEF Guard, AdmitsProbe, ProbeStarted
<1>2. ASSUME NEW c \in Call, Fail(c) PROVE BreakerConsistent'
    BY <1>2 DEF Fail, RecordFailure
<1>3. ASSUME NEW c \in Call, Succeed(c) PROVE BreakerConsistent'
    BY <1>3 DEF Succeed, RecordSuccess, FreshBreaker
<1>4. CASE Tick
    BY <1>4 DEF Tick, Cooled
<1>5. ASSUME NEW c \in Call,
             Start(c) \/ Lookup(c) \/ Retry(c) \/ Cancel(c) \/ Commit(c) \/ Return(c)
      PROVE  BreakerConsistent'
    BY <1>5 DEF Start, Lookup, Retry, Cancel, Commit, Return
<1>6. CASE CacheExpire \/ NewDay \/ UNCHANGED vars
    BY <1>6 DEF CacheExpire, NewDay, vars
<1> QED
    BY <1>1, <1>2, <1>3, <1>4, <1>5, <1>6 DEF Next

(* However outcomes of probes and of calls admitted before the breaker     *)
(* opened interleave, it is open exactly at the threshold, and only an     *)
(* open breaker cools down or has a probe out (circuit.py).                *)
THEOREM BreakerStaysConsistent == Spec => []BreakerConsistent
<1>1. Init => BreakerConsistent
    BY BreakerAssumption DEF Init, FreshBreaker, BreakerConsistent
<1> QED
    BY <1>1, TypeCorrect, NextConsistent, PTL DEF Spec

-----------------------------------------------------------------------------
(* Every call clears the flag it set, or marks it as orphaned.             *)
LEMMA NextOwned ==
    ASSUME TypeOK, ProbeFlagHasOwner, [Next]_vars
    PROVE  ProbeFlagHasOwner'
<1> USE DEF TypeOK, ProbeFlagHasOwner, Breaker, Goto, Hangup
<1>1. ASSUME NEW c \in Call, Guard(c) PROVE ProbeFlagHasOwner'
    BY <1>1 DEF Guard, ProbeStarted
<1>2. ASSUME NEW c \in Call, Fail(c) \/ Succeed(c) PROVE ProbeFlagHasOwner'
    <2>1. RecordFailure(breaker).probe = FALSE
        BY DEF RecordFailure
    <2>2. RecordSuccess(breaker).probe = FALSE
        BY DEF RecordSuccess, FreshBreaker
    <2> QED
        BY <1>2, <2>1, <2>2 DEF Fail, Succeed
<1>3. ASSUME NEW c \in Call, Cancel(c) PROVE ProbeFlagHasOwner'
    BY <1>3 DEF Cancel
<1>4. CASE Tick
    BY <1>4 DEF Tick, Cooled
<1>5. ASSUME NEW c \in Call, Start(c) \/ Lookup(c) \/ Retry(c) \/ Commit(c) \/ Return(c)
      PROVE  ProbeFlagHasOwner'
    BY <1>5 DEF Start, Lookup, Retry, Commit, Return, Returned
<1>6. CASE CacheExpire \/ NewDay \/ UNCHANGED vars
    BY <1>6 DEF CacheExpire, NewDay, vars
<1> QED
    BY <1>1, <1>2, <1>3, <1>4, <1>5, <1>6 DEF Next

(* probe_in_flight is set only while a probe is upstream, or after the     *)
(* probe was cancelled, which gateway.py does not record.                  *)
THEOREM ProbeFlagOwned == Spec => []ProbeFlagHasOwner
<1>1. Init => ProbeFlagHasOwner
    BY DEF Init, FreshBreaker, ProbeFlagHasOwner
<1>2. TypeOK /\ ProbeFlagHasOwner /\ [Next]_vars => ProbeFlagHasOwner'
    BY NextOwned
<1> QED
    BY <1>1, <1>2, TypeCorrect, PTL DEF Spec

-----------------------------------------------------------------------------
(* Why the overshoot is bounded: the tokens still to be charged by calls   *)
(* in flight are part of the account.                                      *)
InFlightOf(t) == {c \in Admitted : TenantOf[c] = t}

AccountInv ==
    \A t \in Tenant :
        used[t] + MaxUse * Cardinality(InFlightOf(t)) < Limit + MaxUse * Cardinality(CallsOf(t))

LEMMA Calls ==
    ASSUME NEW t, NEW S \in SUBSET CallsOf(t)
    PROVE  /\ IsFiniteSet(S) /\ Cardinality(S) \in Nat
           /\ Cardinality(CallsOf(t)) \in Nat /\ Cardinality(S) <= Cardinality(CallsOf(t))
<1>1. IsFiniteSet(CallsOf(t))
    BY CallAssumption, FS_Subset DEF CallsOf
<1> QED
    BY <1>1, FS_Subset, FS_CardinalityType

LEMMA Times ==
    ASSUME NEW m \in Nat, NEW a \in Nat, NEW b \in Nat
    PROVE  /\ m * a \in Nat
           /\ a <= b => m * a <= m * b
           /\ a + 1 = b => m * a + m = m * b
<1>1. m * a \in Nat
    OBVIOUS
<1>2. ASSUME a <= b PROVE m * a <= m * b
    <2>1. m * b = m * a + m * (b - a) /\ m * (b - a) >= 0
        BY <1>2
    <2> QED
        BY <1>1, <2>1
<1>3. ASSUME a + 1 = b PROVE m * a + m = m * b
    BY <1>3
<1> QED
    BY <1>1, <1>2, <1>3

(* A tenant under the limit keeps its account whatever is in flight.       *)
LEMMA UnderLimit ==
    ASSUME NEW t \in Tenant, NEW u \in Nat, u < Limit, NEW n \in Nat,
           n <= Cardinality(CallsOf(t))
    PROVE  u + MaxUse * n < Limit + MaxUse * Cardinality(CallsOf(t))
<1>1. /\ MaxUse * n <= MaxUse * Cardinality(CallsOf(t))
      /\ MaxUse * n \in Nat /\ MaxUse * Cardinality(CallsOf(t)) \in Nat
    BY Calls, Times, QuotaAssumption
<1> QED
    BY <1>1, QuotaAssumption

(* A call of the tenant ends without being charged, or nothing happens.    *)
LEMMA FewerInFlight ==
    ASSUME NEW t \in Tenant, NEW u \in Nat, NEW S \in SUBSET CallsOf(t), NEW T \in SUBSET S,
           u + MaxUse * Cardinality(S) < Limit + MaxUse * Cardinality(CallsOf(t))
    PROVE  u + MaxUse * Cardinality(T) < Limit + MaxUse * Cardinality(CallsOf(t))
<1>1. IsFiniteSet(S) /\ Cardinality(S) \in Nat /\ Cardinality(T) \in Nat
      /\ Cardinality(CallsOf(t)) \in Nat
    BY Calls
<1>2. Cardinality(T) <= Cardinality(S)
    BY <1>1, FS_Subset
<1>3. /\ MaxUse * Cardinality(T) <= MaxUse * Cardinality(S)
      /\ MaxUse * Cardinality(T) \in Nat /\ MaxUse * Cardinality(S) \in Nat
      /\ MaxUse * Cardinality(CallsOf(t)) \in Nat
    BY <1>1, <1>2, Times, QuotaAssumption
<1> QED
    BY <1>3, QuotaAssumption

(* A call of the tenant is charged.                                        *)
LEMMA Charged ==
    ASSUME NEW t \in Tenant, NEW u \in Nat, NEW S \in SUBSET CallsOf(t), NEW c \in S,
           NEW x \in 0..MaxUse,
           u + MaxUse * Cardinality(S) < Limit + MaxUse * Cardinality(CallsOf(t))
    PROVE  (u + x) + MaxUse * Cardinality(S \ {c}) < Limit + MaxUse * Cardinality(CallsOf(t))
<1>1. /\ IsFiniteSet(S) /\ Cardinality(S) \in Nat /\ Cardinality(S \ {c}) \in Nat
      /\ Cardinality(CallsOf(t)) \in Nat
    BY Calls
<1>2. Cardinality(S \ {c}) + 1 = Cardinality(S)
    <2>1. Cardinality(S \ {c}) = Cardinality(S) - 1
        BY <1>1, FS_RemoveElement, Zenon
    <2> QED
        BY <1>1, <2>1
<1>3. /\ MaxUse * Cardinality(S \ {c}) + MaxUse = MaxUse * Cardinality(S)
      /\ MaxUse * Cardinality(S \ {c}) \in Nat /\ MaxUse * Cardinality(S) \in Nat
      /\ MaxUse * Cardinality(CallsOf(t)) \in Nat
    BY <1>1, <1>2, Times, QuotaAssumption
<1> QED
    BY <1>3, QuotaAssumption

LEMMA NextAccount == TypeOK /\ AccountInv /\ [Next]_vars => AccountInv'
<1> SUFFICES ASSUME TypeOK, AccountInv, [Next]_vars, NEW t \in Tenant
             PROVE  used'[t] + MaxUse * Cardinality(InFlightOf(t)')
                        < Limit + MaxUse * Cardinality(CallsOf(t))
    BY DEF AccountInv
<1> DEFINE S == InFlightOf(t)
           T == InFlightOf(t)'
           Goal == used'[t] + MaxUse * Cardinality(T) < Limit + MaxUse * Cardinality(CallsOf(t))
<1>0. /\ S \in SUBSET CallsOf(t) /\ T \in SUBSET CallsOf(t) /\ used[t] \in Nat
      /\ used[t] + MaxUse * Cardinality(S) < Limit + MaxUse * Cardinality(CallsOf(t))
    BY DEF InFlightOf, CallsOf, Admitted, TypeOK, AccountInv
<1>1. ASSUME T \subseteq S, used'[t] = used[t] PROVE Goal
    <2> HIDE DEF S, T
    <2> QED
        BY <1>0, <1>1, FewerInFlight
<1>2. ASSUME used'[t] \in Nat, used'[t] < Limit PROVE Goal
    <2> HIDE DEF T
    <2>1. Cardinality(T) \in Nat /\ Cardinality(T) <= Cardinality(CallsOf(t))
        BY <1>0, Calls
    <2> QED
        BY <1>2, <2>1, UnderLimit
<1>3. ASSUME NEW c \in Call, Start(c) PROVE Goal
    <2>1. used' = used
        BY <1>3 DEF Start
    <2>2. CASE OverQuota(c) \/ TenantOf[c] # t
        <3>1. T \subseteq S
            BY <1>3, <2>2 DEF Start, Goto, InFlightOf, Admitted, TypeOK
        <3> QED
            BY <1>1, <2>1, <3>1
    <2>3. CASE ~OverQuota(c) /\ TenantOf[c] = t
        BY <1>0, <1>2, <2>1, <2>3, QuotaAssumption DEF OverQuota
    <2> QED
        BY <2>2, <2>3
<1>4. ASSUME NEW c \in Call, Commit(c) PROVE Goal
    <2>1. CASE TenantOf[c] # t
        <3>1. T \subseteq S /\ used'[t] = used[t]
            BY <1>4, <2>1 DEF Commit, Goto, InFlightOf, Admitted, TypeOK
        <3> QED
            BY <1>1, <3>1
    <2>2. CASE TenantOf[c] = t
        <3>1. c \in S /\ T = S \ {c}
            BY <1>4, <2>2 DEF Commit, Goto, InFlightOf, Admitted, TypeOK
        <3>2. PICK x \in 0..MaxUse : used'[t] = used[t] + x
            BY <1>4, <2>2 DEF Commit, TypeOK
        <3> HIDE DEF S, T
        <3> QED
            BY <1>0, <3>1, <3>2, Charged
    <2> QED
        BY <2>1, <2>2
<1>5. ASSUME NEW c \in Call,
             Lookup(c) \/ Guard(c) \/ Retry(c) \/ Fail(c) \/ Succeed(c) \/ Cancel(c) \/ Return(c)
      PROVE  Goal
    <2>1. T \subseteq S /\ used' = used
        BY <1>5 DEF Lookup, Guard, Retry, Fail, Succeed, Cancel, Return, Returned, Goto,
                    InFlightOf, Admitted, TypeOK
    <2> QED
        BY <1>1, <2>1
<1>6. CASE NewDay
    <2>1. used'[t] = 0
        BY <1>6 DEF NewDay
    <2> QED
        BY <1>2, <2>1, QuotaAssumption
<1>7. CASE CacheExpire \/ Tick \/ UNCHANGED vars
    <2>1. T \subseteq S /\ used' = used
        BY <1>7 DEF CacheExpire, Tick, vars, InFlightOf, Admitted
    <2> QED
        BY <1>1, <2>1
<1> QED
    BY <1>3, <1>4, <1>5, <1>6, <1>7 DEF Next

(* Calls that were admitted under the limit overshoot it together by less  *)
(* than one call's tokens per call slot of the tenant, for any number of   *)
(* concurrent calls and across midnight (_assert_quota and _commit).       *)
THEOREM OvershootBounded == Spec => []QuotaOvershootBounded
<1>1. Init => AccountInv
    <2> SUFFICES ASSUME Init, NEW t \in Tenant
                 PROVE  used[t] + MaxUse * Cardinality(InFlightOf(t))
                            < Limit + MaxUse * Cardinality(CallsOf(t))
        BY DEF AccountInv
    <2>1. InFlightOf(t) \in SUBSET CallsOf(t) /\ used[t] = 0
        BY DEF Init, InFlightOf, CallsOf, Admitted
    <2>2. Cardinality(InFlightOf(t)) \in Nat /\ Cardinality(InFlightOf(t)) <= Cardinality(CallsOf(t))
        BY <2>1, Calls
    <2>3. 0 \in Nat /\ 0 < Limit
        BY QuotaAssumption
    <2>4. 0 + MaxUse * Cardinality(InFlightOf(t)) < Limit + MaxUse * Cardinality(CallsOf(t))
        BY <2>2, <2>3, UnderLimit
    <2> QED
        BY <2>1, <2>4
<1>2. TypeOK /\ AccountInv => QuotaOvershootBounded
    <2> SUFFICES ASSUME TypeOK, AccountInv, NEW t \in Tenant
                 PROVE  used[t] < Limit + MaxUse * Cardinality(CallsOf(t))
        BY DEF QuotaOvershootBounded
    <2>1. InFlightOf(t) \in SUBSET CallsOf(t) /\ used[t] \in Nat
        BY DEF InFlightOf, CallsOf, Admitted, TypeOK
    <2>2. MaxUse * Cardinality(InFlightOf(t)) \in Nat /\ MaxUse * Cardinality(CallsOf(t)) \in Nat
        BY <2>1, Calls, Times, QuotaAssumption
    <2>3. used[t] + MaxUse * Cardinality(InFlightOf(t)) < Limit + MaxUse * Cardinality(CallsOf(t))
        BY DEF AccountInv
    <2> QED
        BY <2>1, <2>2, <2>3, QuotaAssumption
<1> QED
    BY <1>1, <1>2, NextAccount, TypeCorrect, PTL DEF Spec

-----------------------------------------------------------------------------
(* The pool of the order tool: OrderPool *)

Before == {"idle", "create", "createSem", "fetch", "acquire", "submit"}

(* A caller has no future before it submits, and a caller that waits at a  *)
(* semaphore has been given one.                                           *)
FutureInv ==
    \A c \in Caller :
        /\ stage[c] \in Before => job[c] = "none"
        /\ stage[c] = "acquire" => mySem[c] \in Caller

PoolInv == PoolTypeOK /\ FutureInv

-----------------------------------------------------------------------------
LEMMA CapacityType == Capacity \in Nat \ {0}
    BY PoolAssumption DEF Capacity

LEMMA InitPool == PoolInit => PoolInv
<1> SUFFICES ASSUME PoolInit PROVE PoolInv
    OBVIOUS
<1>1. Creator \in Caller
    BY PoolAssumption DEF Creator
<1> QED
    BY <1>1, CapacityType DEF PoolInit, PoolInv, PoolTypeOK, FutureInv, Before, STAGE, JOB

LEMMA NextPool == PoolInv /\ [PoolNext]_poolVars => PoolInv'
<1> SUFFICES ASSUME PoolInv, [PoolNext]_poolVars PROVE PoolInv'
    OBVIOUS
<1> USE PoolAssumption DEF PoolInv, PoolTypeOK, FutureInv, Before, Moves, Released
<1>1. ASSUME NEW c \in Caller, CheckPool(c) \/ CreatePool(c) \/ CreateSem(c) PROVE PoolInv'
    BY <1>1 DEF CheckPool, CreatePool, CreateSem, STAGE
<1>2. ASSUME NEW c \in Caller, FetchPool(c) PROVE PoolInv'
    BY <1>2 DEF FetchPool, STAGE, Answered
<1>3. ASSUME NEW c \in Caller, Acquire(c) \/ QueueFull(c) PROVE PoolInv'
    BY <1>3 DEF Acquire, QueueFull, STAGE, Answered
<1>4. ASSUME NEW c \in Caller, Submit(c) \/ SubmitRejected(c) PROVE PoolInv'
    BY <1>4 DEF Submit, SubmitRejected, STAGE, JOB, Answered
<1>5. ASSUME NEW c \in Caller, StartJob(c) \/ FinishJob(c) PROVE PoolInv'
    BY <1>5 DEF StartJob, FinishJob, JOB
<1>6. ASSUME NEW c \in Caller, DoneCallback(c) PROVE PoolInv'
    BY <1>6 DEF DoneCallback, JOB
<1>7. ASSUME NEW c \in Caller, Result(c) \/ ResultTimeout(c) PROVE PoolInv'
    BY <1>7 DEF Result, ResultTimeout, STAGE, JOB, Answered
<1>8. ASSUME NEW c \in Caller, CallOver(c) PROVE PoolInv'
    BY <1>8 DEF CallOver, STAGE, Answered
<1>9. CASE Shutdown \/ ShutdownDone
    BY <1>9 DEF Shutdown, ShutdownDone
<1>10. CASE UNCHANGED poolVars
    BY <1>10 DEF poolVars
<1> QED
    BY <1>1, <1>2, <1>3, <1>4, <1>5, <1>6, <1>7, <1>8, <1>9, <1>10 DEF PoolNext

LEMMA PoolInvariant == PoolSpec => []PoolInv
    BY InitPool, NextPool, PTL DEF PoolSpec

(* Types of the order pool and its callers: executors.py.                  *)
THEOREM PoolTypeCorrect == PoolSpec => []PoolTypeOK
<1>1. PoolInv => PoolTypeOK
    BY DEF PoolInv
<1> QED
    BY <1>1, PoolInvariant, PTL

-----------------------------------------------------------------------------
LEMMA HoldersFinite ==
    ASSUME NEW s
    PROVE  IsFiniteSet(Holders(s)) /\ Cardinality(Holders(s)) \in Nat
<1>1. Holders(s) \in SUBSET Caller
    BY DEF Holders
<1> QED
    BY <1>1, PoolAssumption, FS_Subset, FS_CardinalityType

(* One caller takes a slot of its semaphore, gives one back, or neither.   *)
LEMMA SlotTaken ==
    ASSUME PoolInv, SlotsConserved, NEW c \in Caller, NEW k \in Caller,
           value[k] > 0, value' = [value EXCEPT ![k] = @ - 1],
           c \notin Holders(k), Holders(k)' = Holders(k) \union {c},
           \A s \in Caller \ {k} : Holders(s)' = Holders(s)
    PROVE  SlotsConserved'
<1> SUFFICES ASSUME NEW s \in Caller PROVE value'[s] + Cardinality(Holders(s)') = Capacity
    BY DEF SlotsConserved
<1>1. CASE s = k
    <2>1. Cardinality(Holders(k)') = Cardinality(Holders(k)) + 1
        BY HoldersFinite, FS_AddElement
    <2>2. value[k] + Cardinality(Holders(k)) = Capacity /\ value'[k] = value[k] - 1 /\ value[k] \in Nat
        BY DEF SlotsConserved, PoolInv, PoolTypeOK
    <2>3. Cardinality(Holders(k)) \in Nat
        BY HoldersFinite
    <2>4. value'[k] + Cardinality(Holders(k)') = Capacity
        BY <2>1, <2>2, <2>3
    <2> QED
        BY <1>1, <2>4
<1>2. CASE s # k
    BY <1>2 DEF SlotsConserved, PoolInv, PoolTypeOK
<1> QED
    BY <1>1, <1>2

LEMMA SlotGivenBack ==
    ASSUME PoolInv, SlotsConserved, NEW c \in Caller, NEW k \in Caller \union {None},
           Released(k),
           k \in Caller => c \in Holders(k) /\ Holders(k)' = Holders(k) \ {c},
           \A s \in Caller \ {k} : Holders(s)' = Holders(s)
    PROVE  SlotsConserved'
<1> SUFFICES ASSUME NEW s \in Caller PROVE value'[s] + Cardinality(Holders(s)') = Capacity
    BY DEF SlotsConserved
<1>1. CASE s = k
    <2>1. Cardinality(Holders(k)') = Cardinality(Holders(k)) - 1
        BY <1>1, HoldersFinite, FS_RemoveElement
    <2>2. value[k] + Cardinality(Holders(k)) = Capacity /\ value'[k] = value[k] + 1 /\ value[k] \in Nat
        BY <1>1, PoolAssumption DEF SlotsConserved, PoolInv, PoolTypeOK, Released
    <2>3. Cardinality(Holders(k)) \in Nat
        BY HoldersFinite
    <2>4. value'[k] + Cardinality(Holders(k)') = Capacity
        BY <2>1, <2>2, <2>3
    <2> QED
        BY <1>1, <2>4
<1>2. CASE s # k
    BY <1>2 DEF SlotsConserved, PoolInv, PoolTypeOK, Released
<1> QED
    BY <1>1, <1>2

LEMMA SlotsUntouched ==
    ASSUME SlotsConserved, value' = value, \A s \in Caller : Holders(s)' = Holders(s)
    PROVE  SlotsConserved'
    BY DEF SlotsConserved

LEMMA NextConserved == PoolInv /\ SlotsConserved /\ [PoolNext]_poolVars => SlotsConserved'
<1> SUFFICES ASSUME PoolInv, SlotsConserved, [PoolNext]_poolVars PROVE SlotsConserved'
    OBVIOUS
<1> USE DEF Moves, Before, Pending, Holders, HoldsSlot
<1>1. ASSUME NEW c \in Caller, CheckPool(c) \/ CreatePool(c) \/ CreateSem(c) PROVE SlotsConserved'
    <2>1. value' = value /\ \A s \in Caller : Holders(s)' = Holders(s)
        BY <1>1 DEF CheckPool, CreatePool, CreateSem, PoolInv, PoolTypeOK
    <2> QED
        BY <2>1, SlotsUntouched
<1>2. ASSUME NEW c \in Caller, FetchPool(c) PROVE SlotsConserved'
    <2>1. CASE pool # None /\ sem = None
        <3>1. value' = value /\ \A s \in Caller : Holders(s)' = Holders(s)
            BY <1>2, <2>1, PoolAssumption DEF FetchPool, PoolInv, PoolTypeOK, FutureInv
        <3> QED
            BY <3>1, SlotsUntouched
    <2>2. CASE ~(pool # None /\ sem = None)
        <3>1. value' = value /\ \A s \in Caller : Holders(s)' = Holders(s)
            BY <1>2, <2>2 DEF FetchPool, PoolInv, PoolTypeOK, FutureInv
        <3> QED
            BY <3>1, SlotsUntouched
    <2> QED
        BY <2>1, <2>2
<1>3. ASSUME NEW c \in Caller, Acquire(c) PROVE SlotsConserved'
    <2>1. job[c] = "none" /\ stage[c] = "acquire" /\ mySem[c] \in Caller
        BY <1>3 DEF Acquire, PoolInv, FutureInv
    <2> PICK k \in Caller : k = mySem[c]
        BY <2>1
    <2>2. c \notin Holders(k) /\ Holders(k)' = Holders(k) \union {c}
        BY <1>3, <2>1 DEF Acquire, PoolInv, PoolTypeOK
    <2>3. \A s \in Caller \ {k} : Holders(s)' = Holders(s)
        BY <1>3, <2>1 DEF Acquire, PoolInv, PoolTypeOK
    <2>4. value[k] > 0 /\ value' = [value EXCEPT ![k] = @ - 1]
        BY <1>3 DEF Acquire
    <2> HIDE DEF Holders
    <2> QED
        BY <2>2, <2>3, <2>4, SlotTaken
<1>4. ASSUME NEW c \in Caller, QueueFull(c) \/ Submit(c) PROVE SlotsConserved'
    <2>1. value' = value /\ \A s \in Caller : Holders(s)' = Holders(s)
        BY <1>4 DEF QueueFull, Submit, PoolInv, PoolTypeOK, FutureInv
    <2> QED
        BY <2>1, SlotsUntouched
<1>5. ASSUME NEW c \in Caller, SubmitRejected(c) \/ DoneCallback(c) PROVE SlotsConserved'
    <2> PICK k \in Caller \union {None} : k = mySem[c]
        BY DEF PoolInv, PoolTypeOK
    <2>1. Released(k)
        BY <1>5 DEF SubmitRejected, DoneCallback
    <2>2. k \in Caller => c \in Holders(k) /\ Holders(k)' = Holders(k) \ {c}
        BY <1>5 DEF SubmitRejected, DoneCallback, PoolInv, PoolTypeOK, FutureInv
    <2>3. \A s \in Caller \ {k} : Holders(s)' = Holders(s)
        BY <1>5 DEF SubmitRejected, DoneCallback, PoolInv, PoolTypeOK
    <2> HIDE DEF Holders
    <2> QED
        BY <2>1, <2>2, <2>3, SlotGivenBack
<1>6. ASSUME NEW c \in Caller, StartJob(c) \/ FinishJob(c) PROVE SlotsConserved'
    <2>1. value' = value /\ \A s \in Caller : Holders(s)' = Holders(s)
        BY <1>6 DEF StartJob, FinishJob, PoolInv, PoolTypeOK
    <2> QED
        BY <2>1, SlotsUntouched
<1>7. ASSUME NEW c \in Caller, Result(c) \/ ResultTimeout(c) PROVE SlotsConserved'
    <2>1. value' = value /\ \A s \in Caller : Holders(s)' = Holders(s)
        BY <1>7 DEF Result, ResultTimeout, PoolInv, PoolTypeOK
    <2> QED
        BY <2>1, SlotsUntouched
<1>8. ASSUME NEW c \in Caller, CallOver(c) PROVE SlotsConserved'
    <2>1. value' = value /\ \A s \in Caller : Holders(s)' = Holders(s)
        BY <1>8, PoolAssumption DEF CallOver, Answered, PoolInv, PoolTypeOK
    <2> QED
        BY <2>1, SlotsUntouched
<1>9. CASE Shutdown \/ ShutdownDone \/ UNCHANGED poolVars
    BY <1>9, SlotsUntouched DEF Shutdown, ShutdownDone, poolVars
<1> QED
    BY <1>1, <1>2, <1>3, <1>4, <1>5, <1>6, <1>7, <1>8, <1>9 DEF PoolNext

LEMMA InitConserved == PoolInit => SlotsConserved
<1> SUFFICES ASSUME PoolInit, NEW s \in Caller PROVE value[s] + Cardinality(Holders(s)) = Capacity
    BY DEF SlotsConserved
<1>1. Holders(s) = {}
    BY DEF PoolInit, Holders, HoldsSlot, Pending
<1> QED
    BY <1>1, FS_EmptySet, CapacityType DEF PoolInit

(* Every path of _submit gives its slot back exactly once, for any number  *)
(* of callers and however pools were created or shut down.                 *)
THEOREM SlotsAreConserved == PoolSpec => []SlotsConserved
    BY InitConserved, NextConserved, PoolInvariant, PTL DEF PoolSpec

-----------------------------------------------------------------------------
(* Once one lone call has created the pool, everybody uses its semaphore.  *)
WarmInv ==
    warm =>
    /\ <<pool, sem>> \in {<<Creator, Creator>>, <<None, None>>}
    /\ down = "no" => pool # None
    /\ \A c \in Caller :
        /\ stage[c] \notin {"create", "createSem"}
        /\ HoldsSlot(c) \/ stage[c] = "acquire" => mySem[c] = Creator

LEMMA NextWarm == PoolInv /\ WarmInv /\ [PoolNext]_poolVars => WarmInv'
<1> SUFFICES ASSUME PoolInv, WarmInv, [PoolNext]_poolVars PROVE WarmInv'
    OBVIOUS
<1> USE PoolAssumption DEF WarmInv, PoolInv, PoolTypeOK, FutureInv, Before, Moves, HoldsSlot, Pending
<1>1. ASSUME NEW c \in Caller, CheckPool(c) \/ CreatePool(c) \/ CreateSem(c) PROVE WarmInv'
    BY <1>1 DEF CheckPool, CreatePool, CreateSem
<1>2. ASSUME NEW c \in Caller, FetchPool(c) PROVE WarmInv'
    BY <1>2 DEF FetchPool
<1>3. ASSUME NEW c \in Caller, Acquire(c) \/ QueueFull(c) PROVE WarmInv'
    BY <1>3 DEF Acquire, QueueFull
<1>4. ASSUME NEW c \in Caller, Submit(c) \/ SubmitRejected(c) PROVE WarmInv'
    BY <1>4 DEF Submit, SubmitRejected
<1>5. ASSUME NEW c \in Caller, StartJob(c) \/ FinishJob(c) \/ DoneCallback(c) PROVE WarmInv'
    BY <1>5 DEF StartJob, FinishJob, DoneCallback
<1>6. ASSUME NEW c \in Caller, Result(c) \/ ResultTimeout(c) PROVE WarmInv'
    BY <1>6 DEF Result, ResultTimeout
<1>7. ASSUME NEW c \in Caller, CallOver(c) PROVE WarmInv'
    BY <1>7 DEF CallOver, Answered
<1>8. CASE Shutdown \/ ShutdownDone
    BY <1>8 DEF Shutdown, ShutdownDone
<1>9. CASE UNCHANGED poolVars
    BY <1>9 DEF poolVars
<1> QED
    BY <1>1, <1>2, <1>3, <1>4, <1>5, <1>6, <1>7, <1>8, <1>9 DEF PoolNext

(* With the pool created before calls overlap, the queue is bounded as     *)
(* executors.py:1 says: at most workers x queue_factor jobs are queued or  *)
(* running, abandoned ones included.                                       *)
THEOREM QueueBoundedOnceWarm == PoolSpec => []WarmQueueBounded
<1>0. Creator \in Caller
    BY PoolAssumption DEF Creator
<1>1. PoolInit => WarmInv
    BY <1>0, PoolAssumption DEF PoolInit, WarmInv, HoldsSlot, Pending
<1>2. PoolInv /\ WarmInv /\ [PoolNext]_poolVars => WarmInv'
    BY NextWarm
<1>3. PoolInv /\ WarmInv /\ SlotsConserved => WarmQueueBounded
    <2> SUFFICES ASSUME PoolInv, WarmInv, SlotsConserved, warm PROVE QueueBounded
        BY DEF WarmQueueBounded
    <2>1. Waiting \subseteq Holders(Creator)
        BY DEF WarmInv, Waiting, Holders, HoldsSlot, Pending
    <2>2. Cardinality(Waiting) <= Cardinality(Holders(Creator)) /\ IsFiniteSet(Waiting)
        BY <2>1, HoldersFinite, FS_Subset
    <2>3. Cardinality(Waiting) \in Nat /\ Cardinality(Holders(Creator)) \in Nat
        BY <2>2, HoldersFinite, FS_CardinalityType
    <2>4. value[Creator] + Cardinality(Holders(Creator)) = Capacity /\ value[Creator] \in Nat
        BY <1>0 DEF SlotsConserved, PoolInv, PoolTypeOK
    <2> QED
        BY <2>2, <2>3, <2>4 DEF QueueBounded
<1> QED
    BY <1>1, <1>2, <1>3, PoolInvariant, SlotsAreConserved, PTL DEF PoolSpec
=============================================================================
