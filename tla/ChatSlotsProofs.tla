-------------------------- MODULE ChatSlotsProofs --------------------------
(***************************************************************************)
(* Proofs about ChatSlots: both stores, any number of requests, tenants    *)
(* and workers, any limits, ttl and clock skew.                            *)
(***************************************************************************)
EXTENDS ChatSlots, FiniteSetTheorems, TLAPS

(* A score is the expiry its request computed.                             *)
Scored ==
    \A r \in Request :
        /\ glob[r] > 0 => glob[r] = ExpireAt(r)
        /\ tens[r] > 0 => tens[r] = ExpireAt(r)

(* The in-process store keeps its dictionaries in step.                    *)
InStep == degraded => tens = glob

(* A clock reading, however old, is not ahead of every worker's clock.     *)
ReadingsPast == \A r \in Request : pc[r] = "acquiring" => now[r] <= clock + MaxSkew

(* A turn on a lease that no clock shows as expired is in both sets.       *)
LeaseKept == \A r \in Leased : glob[r] > 0 /\ tens[r] > 0

StoreInv == TypeOK /\ SlotsOwned /\ Scored /\ InStep /\ ReadingsPast /\ LeaseKept

-----------------------------------------------------------------------------
LEMMA InitStore == Init => StoreInv
    BY ClockAssumption, LimitsAssumption
    DEF Init, StoreInv, TypeOK, SlotsOwned, Scored, InStep, ReadingsPast, LeaseKept, Leased, PC

(* What a purge at reading n leaves: members are unexpired members of      *)
(* before, with their scores.                                              *)
LEMMA Purge ==
    ASSUME StoreInv, NEW n \in Nat, NEW t, NEW r \in Request
    PROVE  /\ PurgedGlobal(n)[r] = IF glob[r] > n THEN glob[r] ELSE 0
           /\ PurgedTenants(t, n)[r] \in {0, tens[r]}
           /\ tens[r] > n => PurgedTenants(t, n)[r] = tens[r]
           /\ TenantOf[r] = t /\ PurgedTenants(t, n)[r] > 0 => tens[r] > n
           /\ degraded => PurgedTenants(t, n)[r] = PurgedGlobal(n)[r]
<1> USE DEF StoreInv, TypeOK, InStep
<1>1. PurgedGlobal(n)[r] = IF glob[r] > n THEN glob[r] ELSE 0
    BY DEF PurgedGlobal, Unexpired
<1>2. CASE degraded
    BY <1>1, <1>2 DEF PurgedTenants
<1>3. CASE ~degraded
    BY <1>1, <1>3 DEF PurgedTenants
<1> QED
    BY <1>1, <1>2, <1>3

(* A purge keeps both sets functions from requests to scores.              *)
LEMMA PurgeType ==
    ASSUME StoreInv, NEW n \in Nat, NEW t
    PROVE  PurgedGlobal(n) \in [Request -> Nat] /\ PurgedTenants(t, n) \in [Request -> Nat]
    BY DEF StoreInv, TypeOK, PurgedGlobal, PurgedTenants, Unexpired

Added(r) == ~GlobalFull(r) /\ ~TenantFull(r)

(* The acquire script, seen from one request's scores.                     *)
LEMMA AcquireStore ==
    ASSUME StoreInv, NEW r \in Request, pc[r] = "acquiring", StoreAfterAcquire(r)
    PROVE  /\ glob' \in [Request -> Nat] /\ tens' \in [Request -> Nat]
           /\ degraded => tens' = glob'
           /\ \A q \in Request \ {r} :
                /\ glob'[q] \in {0, glob[q]} /\ tens'[q] \in {0, tens[q]}
                /\ glob[q] > now[r] => glob'[q] = glob[q]
                /\ tens[q] > now[r] => tens'[q] = tens[q]
           /\ Added(r) => glob'[r] = ExpireAt(r) /\ tens'[r] = ExpireAt(r)
           /\ ~Added(r) => glob'[r] = 0 /\ tens'[r] = 0
<1> DEFINE g == PurgedGlobal(now[r])
           h == PurgedTenants(TenantOf[r], now[r])
<1>1. now[r] \in Nat /\ ExpireAt(r) \in Nat /\ ExpireAt(r) > 0
    BY LimitsAssumption DEF StoreInv, TypeOK, ExpireAt
<1>2. g \in [Request -> Nat] /\ h \in [Request -> Nat]
    BY <1>1, PurgeType
<1>3. \A q \in Request : /\ g[q] \in {0, glob[q]} /\ h[q] \in {0, tens[q]}
                         /\ glob[q] > now[r] => g[q] = glob[q]
                         /\ tens[q] > now[r] => h[q] = tens[q]
                         /\ degraded => h[q] = g[q]
    BY <1>1, Purge
<1>4. glob[r] = 0 /\ tens[r] = 0
    BY DEF StoreInv, TypeOK, SlotsOwned
<1>5. /\ glob' = IF Added(r) THEN [g EXCEPT ![r] = ExpireAt(r)] ELSE g
      /\ tens' = IF Added(r) THEN [h EXCEPT ![r] = ExpireAt(r)] ELSE h
    BY DEF StoreAfterAcquire, Added
<1>6. degraded => h = g
    BY <1>2, <1>3
<1> HIDE DEF g, h, Added, ExpireAt
<1> QED
    BY <1>1, <1>2, <1>3, <1>4, <1>5, <1>6

LEMMA NextStore == StoreInv /\ [Next]_vars => StoreInv'
<1> SUFFICES ASSUME StoreInv, [Next]_vars PROVE StoreInv'
    OBVIOUS
<1> USE ClockAssumption, LimitsAssumption, RequestsAssumption
<1> USE DEF StoreInv, TypeOK, SlotsOwned, Scored, InStep, ReadingsPast, LeaseKept, Leased,
            ExpireAt, Forget
<1>1. ASSUME NEW r \in Request, Begin(r) PROVE StoreInv'
    <2>1. PICK n \in Reading : now' = [now EXCEPT ![r] = n]
        BY <1>1 DEF Begin
    <2>2. n \in Nat /\ n <= clock + MaxSkew
        BY DEF Reading
    <2>3. glob[r] = 0 /\ tens[r] = 0
        BY <1>1 DEF Begin
    <2> QED
        BY <1>1, <2>1, <2>2, <2>3 DEF Begin, PC
<1>2. ASSUME NEW r \in Request, Acquire(r) \/ AcquireLost(r) PROVE StoreInv'
    <2>1. pc[r] = "acquiring" /\ StoreAfterAcquire(r) /\ degraded' = degraded /\ clock' = clock
        BY <1>2 DEF Acquire, AcquireLost
    <2>2. \A q \in Request \ {r} : pc'[q] = pc[q] /\ now'[q] = now[q]
        BY <1>2 DEF Acquire, AcquireLost
    <2>3. /\ Added(r) => pc'[r] \in {"running", "lost"} /\ now'[r] = now[r]
          /\ ~Added(r) => pc'[r] \in {"busy_cluster", "busy_tenant", "gone"}
          /\ now'[r] \in Nat /\ now' \in [Request -> Nat] /\ pc' \in [Request -> PC]
        BY <1>2 DEF Acquire, AcquireLost, Added, PC
    <2>4. \A q \in Leased : q # r => glob[q] > now[r] /\ tens[q] > now[r]
        BY <2>1
    <2> HIDE DEF Added
    <2> QED
        BY <2>1, <2>2, <2>3, <2>4, AcquireStore
<1>3. ASSUME NEW r \in Request, AcquireAborted(r) PROVE StoreInv'
    BY <1>3 DEF AcquireAborted, PC
<1>4. ASSUME NEW r \in Request, Finish(r) PROVE StoreInv'
    BY <1>4 DEF Finish, PC
<1>5. ASSUME NEW r \in Request, Release(r) PROVE StoreInv'
    <2>1. /\ glob'[r] = 0 /\ tens'[r] = 0 /\ pc'[r] = "gone"
          /\ \A q \in Request \ {r} : /\ glob'[q] = glob[q] /\ tens'[q] = tens[q]
                                     /\ pc'[q] = pc[q] /\ now'[q] = now[q]
        BY <1>5 DEF Release
    <2>2. TypeOK' /\ InStep' /\ degraded' = degraded /\ clock' = clock
        BY <1>5 DEF Release, PC
    <2> QED
        BY <2>1, <2>2
<1>6. ASSUME NEW r \in Request, ReleaseLost(r) PROVE StoreInv'
    BY <1>6 DEF ReleaseLost, PC
<1>7. ASSUME NEW w \in Worker, Crash(w) PROVE StoreInv'
    <2>1. CASE degraded
        BY <1>7, <2>1 DEF Crash, PC
    <2>2. CASE ~degraded
        BY <1>7, <2>2 DEF Crash, PC
    <2> QED
        BY <2>1, <2>2
<1>8. CASE InFlight
    <2>1. PICK n \in Reading : /\ glob' = PurgedGlobal(n)
                              /\ tens' = IF degraded
                                         THEN [r \in Request |-> IF glob[r] > 0 /\ glob[r] <= n THEN 0 ELSE tens[r]]
                                         ELSE tens
        BY <1>8 DEF InFlight
    <2>2. n \in Nat /\ n <= clock + MaxSkew
        BY DEF Reading
    <2>3. UNCHANGED <<degraded, clock, pc, now>>
        BY <1>8 DEF InFlight
    <2> QED
        BY <2>1, <2>2, <2>3 DEF PurgedGlobal, Unexpired
<1>9. CASE Tick
    BY <1>9 DEF Tick
<1>10. CASE UNCHANGED vars
    BY <1>10 DEF vars
<1> QED
    BY <1>1, <1>2, <1>3, <1>4, <1>5, <1>6, <1>7, <1>8, <1>9, <1>10 DEF Next

LEMMA StoreInvariant == Spec => []StoreInv
    BY InitStore, NextStore, PTL DEF Spec

(* Types of the slot stores and their callers: chat_slots.py.              *)
THEOREM TypeCorrect == Spec => []TypeOK
<1>1. StoreInv => TypeOK
    BY DEF StoreInv
<1> QED
    BY <1>1, StoreInvariant, PTL

(* No finished turn leaves half a lease behind, in either store, whatever  *)
(* is lost or crashes.                                                     *)
THEOREM NoOrphanSlots == Spec => []SlotsOwned
<1>1. StoreInv => SlotsOwned
    BY DEF StoreInv
<1> QED
    BY <1>1, StoreInvariant, PTL

-----------------------------------------------------------------------------
(* The sets themselves never outgrow their limits.                         *)
SetsBounded ==
    /\ Cardinality(Members(glob)) <= GlobalLimit
    /\ \A t \in Tenant : Cardinality(TenantMembers(tens, t)) <= TenantLimit

(* Subsets of the requests are finite and counted monotonically.           *)
LEMMA Counting ==
    /\ \A S \in SUBSET Request : IsFiniteSet(S) /\ Cardinality(S) \in Nat
    /\ \A S, T \in SUBSET Request : S \subseteq T => Cardinality(S) <= Cardinality(T)
    /\ \A S, T \in SUBSET Request : \A x : S \subseteq T \union {x} => Cardinality(S) <= Cardinality(T) + 1
<1>1. ASSUME NEW S \in SUBSET Request PROVE IsFiniteSet(S) /\ Cardinality(S) \in Nat
    BY RequestsAssumption, FS_Subset, FS_CardinalityType
<1>2. ASSUME NEW S \in SUBSET Request, NEW T \in SUBSET Request, S \subseteq T
      PROVE  Cardinality(S) <= Cardinality(T)
    BY <1>1, <1>2, FS_Subset
<1>3. ASSUME NEW S \in SUBSET Request, NEW T \in SUBSET Request, NEW x, S \subseteq T \union {x}
      PROVE  Cardinality(S) <= Cardinality(T) + 1
    <2>1. IsFiniteSet(T \union {x}) /\ Cardinality(T \union {x}) <= Cardinality(T) + 1
        BY <1>1, FS_AddElement
    <2>2. Cardinality(S) <= Cardinality(T \union {x})
        BY <1>3, <2>1, FS_Subset
    <2>3. Cardinality(T \union {x}) \in Nat
        BY <2>1, FS_CardinalityType
    <2> QED
        BY <1>1, <2>1, <2>2, <2>3
<1> QED
    BY <1>1, <1>2, <1>3

(* Steps that only remove tokens keep the bounds.                          *)
LEMMA Shrinking ==
    ASSUME SetsBounded,
           \A r \in Request : (glob'[r] > 0 => glob[r] > 0) /\ (tens'[r] > 0 => tens[r] > 0)
    PROVE  SetsBounded'
<1>1. Members(glob') \subseteq Members(glob)
    BY DEF Members
<1>2. \A t \in Tenant : TenantMembers(tens', t) \subseteq TenantMembers(tens, t)
    BY DEF Members, TenantMembers
<1>3. Members(glob) \in SUBSET Request /\ Members(glob') \in SUBSET Request
    BY DEF Members
<1>4. \A t \in Tenant : TenantMembers(tens, t) \in SUBSET Request
                        /\ TenantMembers(tens', t) \in SUBSET Request
    BY DEF Members, TenantMembers
<1>5. Cardinality(Members(glob')) <= GlobalLimit
    BY <1>1, <1>3, Counting, LimitsAssumption DEF SetsBounded
<1>6. ASSUME NEW t \in Tenant PROVE Cardinality(TenantMembers(tens', t)) <= TenantLimit
    BY <1>2, <1>4, Counting, LimitsAssumption DEF SetsBounded
<1> QED
    BY <1>5, <1>6 DEF SetsBounded

LEMMA NextBounded == StoreInv /\ SetsBounded /\ [Next]_vars => SetsBounded'
<1> SUFFICES ASSUME StoreInv, SetsBounded, [Next]_vars PROVE SetsBounded'
    OBVIOUS
<1>1. ASSUME NEW r \in Request, pc[r] = "acquiring", StoreAfterAcquire(r) PROVE SetsBounded'
    <2> DEFINE g == PurgedGlobal(now[r])
               h == PurgedTenants(TenantOf[r], now[r])
    <2>1. now[r] \in Nat /\ TenantOf[r] \in Tenant
        BY RequestsAssumption DEF StoreInv, TypeOK
    <2>2. CASE ~Added(r)
        <3>1. \A q \in Request : (glob'[q] > 0 => glob[q] > 0) /\ (tens'[q] > 0 => tens[q] > 0)
            BY <1>1, <2>2, AcquireStore
        <3> QED
            BY <3>1, Shrinking
    <2>3. CASE Added(r)
        <3>1. glob' = [g EXCEPT ![r] = ExpireAt(r)] /\ tens' = [h EXCEPT ![r] = ExpireAt(r)]
            BY <1>1, <2>3 DEF Added, StoreAfterAcquire
        <3>2. g \in [Request -> Nat] /\ h \in [Request -> Nat]
            BY <2>1, PurgeType
        <3>3. ~(Cardinality(Members(g)) >= GlobalLimit)
            BY <2>3 DEF Added, GlobalFull
        <3>4. ~(Cardinality(TenantMembers(h, TenantOf[r])) >= TenantLimit)
            BY <2>3 DEF Added, TenantFull
        <3> HIDE DEF g, h
        <3>5. Members(glob') \subseteq Members(g) \union {r}
            BY <3>1, <3>2 DEF Members
        <3>6. Members(g) \in SUBSET Request /\ Members(glob') \in SUBSET Request
            BY DEF Members
        <3>7. Cardinality(Members(glob')) <= GlobalLimit
            BY <3>3, <3>5, <3>6, Counting, LimitsAssumption
        <3>8. ASSUME NEW t \in Tenant PROVE Cardinality(TenantMembers(tens', t)) <= TenantLimit
            <4>1. /\ TenantMembers(h, t) \in SUBSET Request /\ TenantMembers(tens', t) \in SUBSET Request
                  /\ TenantMembers(tens, t) \in SUBSET Request
                BY DEF TenantMembers, Members
            <4>2. CASE t = TenantOf[r]
                <5>1. TenantMembers(tens', t) \subseteq TenantMembers(h, t) \union {r}
                    BY <3>1, <3>2 DEF TenantMembers, Members
                <5>2. Cardinality(TenantMembers(tens', t)) <= Cardinality(TenantMembers(h, t)) + 1
                    BY <4>1, <5>1, Counting
                <5>3. Cardinality(TenantMembers(tens', t)) \in Nat /\ Cardinality(TenantMembers(h, t)) \in Nat
                    BY <4>1, Counting
                <5>4. ~(Cardinality(TenantMembers(h, t)) >= TenantLimit)
                    BY <3>4, <4>2
                <5> QED
                    BY <5>2, <5>3, <5>4, LimitsAssumption
            <4>3. CASE t # TenantOf[r]
                <5>1. \A q \in Request \ {r} : tens'[q] > 0 => tens[q] > 0
                    BY <1>1, AcquireStore
                <5>2. TenantMembers(tens', t) \subseteq TenantMembers(tens, t)
                    BY <4>3, <5>1 DEF TenantMembers, Members
                <5> QED
                    BY <4>1, <5>2, Counting, LimitsAssumption DEF SetsBounded
            <4> QED
                BY <4>2, <4>3
        <3> QED
            BY <3>7, <3>8 DEF SetsBounded
    <2> QED
        BY <2>2, <2>3
<1>2. CASE \E r \in Request : Acquire(r) \/ AcquireLost(r)
    BY <1>1, <1>2 DEF Acquire, AcquireLost
<1>3. CASE \E r \in Request : Begin(r) \/ AcquireAborted(r) \/ Finish(r) \/ ReleaseLost(r)
    BY <1>3, Shrinking DEF Begin, AcquireAborted, Finish, ReleaseLost
<1>4. ASSUME NEW r \in Request, Release(r) PROVE SetsBounded'
    BY <1>4, Shrinking DEF Release, StoreInv, TypeOK
<1>5. ASSUME NEW w \in Worker, Crash(w) PROVE SetsBounded'
    BY <1>5, Shrinking DEF Crash
<1>6. CASE InFlight
    <2>1. \A r \in Request : (glob'[r] > 0 => glob[r] > 0) /\ (tens'[r] > 0 => tens[r] > 0)
        BY <1>6 DEF InFlight, PurgedGlobal, Unexpired, StoreInv, TypeOK
    <2> QED
        BY <2>1, Shrinking
<1>7. CASE Tick \/ UNCHANGED vars
    BY <1>7, Shrinking DEF Tick, vars
<1> QED
    BY <1>2, <1>3, <1>4, <1>5, <1>6, <1>7 DEF Next

LEMMA BoundedInvariant == Spec => []SetsBounded
<1>1. Init => SetsBounded
    <2> SUFFICES ASSUME Init PROVE SetsBounded
        OBVIOUS
    <2>1. Members(glob) = {} /\ \A t \in Tenant : TenantMembers(tens, t) = {}
        BY DEF Init, Members, TenantMembers
    <2> QED
        BY <2>1, FS_EmptySet, LimitsAssumption DEF SetsBounded
<1> QED
    BY <1>1, StoreInvariant, NextBounded, PTL DEF Spec

(* Turns on unexpired leases never exceed the cluster limit, for any       *)
(* number of workers with clocks up to MaxSkew off, in either store.       *)
THEOREM GlobalLimitHolds == Spec => []LeasedWithinGlobalLimit
<1>1. StoreInv /\ SetsBounded => LeasedWithinGlobalLimit
    <2> SUFFICES ASSUME StoreInv, SetsBounded PROVE LeasedWithinGlobalLimit
        OBVIOUS
    <2>1. Leased \subseteq Members(glob) /\ Leased \in SUBSET Request /\ Members(glob) \in SUBSET Request
        BY DEF StoreInv, LeaseKept, Members, Leased
    <2> QED
        BY <2>1, Counting, LimitsAssumption DEF SetsBounded, LeasedWithinGlobalLimit
<1> QED
    BY <1>1, StoreInvariant, BoundedInvariant, PTL

(* The same for every tenant and the tenant limit.                         *)
THEOREM TenantLimitHolds == Spec => []LeasedWithinTenantLimit
<1>1. StoreInv /\ SetsBounded => LeasedWithinTenantLimit
    <2> SUFFICES ASSUME StoreInv, SetsBounded, NEW t \in Tenant
                 PROVE  Cardinality({r \in Leased : TenantOf[r] = t}) <= TenantLimit
        BY DEF LeasedWithinTenantLimit
    <2> DEFINE mine == {r \in Leased : TenantOf[r] = t}
    <2>1. mine \subseteq TenantMembers(tens, t)
        BY DEF StoreInv, LeaseKept, TenantMembers, Members, Leased
    <2>2. mine \in SUBSET Request /\ TenantMembers(tens, t) \in SUBSET Request
        BY DEF Leased, TenantMembers, Members
    <2> HIDE DEF mine
    <2>3. Cardinality(mine) <= TenantLimit
        BY <2>1, <2>2, Counting, LimitsAssumption DEF SetsBounded
    <2> QED
        BY <2>3 DEF mine
<1> QED
    BY <1>1, StoreInvariant, BoundedInvariant, PTL

-----------------------------------------------------------------------------
(* What fills the sets when the script refuses a request is unexpired.     *)
LEMMA FullOfLiveLeases ==
    ASSUME StoreInv, NEW r \in Request
    PROVE  /\ GlobalFull(r) => Cardinality(Blocking(r)) >= GlobalLimit
           /\ TenantFull(r) =>
                Cardinality({q \in Blocking(r) : TenantOf[q] = TenantOf[r]}) >= TenantLimit
<1> DEFINE t == TenantOf[r]
           g == PurgedGlobal(now[r])
           h == PurgedTenants(t, now[r])
           B == Blocking(r)
           T == {q \in B : TenantOf[q] = t}
<1>1. now[r] \in Nat
    BY DEF StoreInv, TypeOK
<1>2. Members(g) \subseteq B
    <2> SUFFICES ASSUME NEW q \in Request, g[q] > 0 PROVE q \in B
        BY DEF Members
    <2>0. g[q] = (IF glob[q] > now[r] THEN glob[q] ELSE 0) /\ glob[q] \in Nat
        BY DEF PurgedGlobal, Unexpired, StoreInv, TypeOK
    <2>1. glob[q] > now[r] /\ glob[q] > 0
        BY <1>1, <2>0
    <2> QED
        BY <2>1 DEF StoreInv, Scored, SlotsOwned, Blocking
<1>3. TenantMembers(h, t) \subseteq T
    <2> SUFFICES ASSUME NEW q \in Request, h[q] > 0, TenantOf[q] = t PROVE q \in B
        BY DEF TenantMembers, Members
    <2>0. tens[q] > now[r]
        BY <1>1, Purge
    <2>1. tens[q] > now[r] /\ tens[q] > 0
        BY <1>1, <2>0 DEF StoreInv, TypeOK
    <2> QED
        BY <2>1 DEF StoreInv, Scored, SlotsOwned, Blocking
<1>4. B \in SUBSET Request /\ T \in SUBSET Request
    BY DEF Blocking
<1>5. Members(g) \in SUBSET Request /\ TenantMembers(h, t) \in SUBSET Request
    BY DEF Members, TenantMembers
<1>6. Cardinality(Members(g)) <= Cardinality(B) /\ Cardinality(TenantMembers(h, t)) <= Cardinality(T)
    BY <1>2, <1>3, <1>4, <1>5, Counting
<1>7. /\ Cardinality(Members(g)) \in Nat /\ Cardinality(TenantMembers(h, t)) \in Nat
      /\ Cardinality(B) \in Nat /\ Cardinality(T) \in Nat
    BY <1>4, <1>5, Counting
<1>8. /\ GlobalFull(r) <=> Cardinality(Members(g)) >= GlobalLimit
      /\ TenantFull(r) <=> Cardinality(TenantMembers(h, t)) >= TenantLimit
    BY DEF GlobalFull, TenantFull
<1> HIDE DEF g, h, B, T
<1>9. /\ GlobalFull(r) => Cardinality(B) >= GlobalLimit
      /\ TenantFull(r) => Cardinality(T) >= TenantLimit
    BY <1>6, <1>7, <1>8, LimitsAssumption
<1> QED
    BY <1>9 DEF B, T

(* A busy answer (HTTP 429) always has enough unexpired leases behind it:  *)
(* a crashed worker's slots stop counting when their ttl is over, even     *)
(* though nobody purges them on time (RedisChatSlotStore's docstring).     *)
THEOREM RejectionsJustified == Spec => RejectedByLiveLeases
<1> DEFINE A == \A r \in Request : pc[r] = "acquiring" =>
        /\ pc'[r] = "busy_cluster" => Cardinality(Blocking(r)) >= GlobalLimit
        /\ pc'[r] = "busy_tenant" =>
             Cardinality({q \in Blocking(r) : TenantOf[q] = TenantOf[r]}) >= TenantLimit
<1>0. ASSUME StoreInv, Next, NEW r \in Request, pc[r] = "acquiring",
             pc'[r] \in {"busy_cluster", "busy_tenant"}
      PROVE  /\ pc'[r] = "busy_cluster" => GlobalFull(r)
             /\ pc'[r] = "busy_tenant" => TenantFull(r)
    <2> USE <1>0 DEF StoreInv, TypeOK
    <2>1. ASSUME NEW q \in Request, Acquire(q)
          PROVE  /\ pc'[r] = "busy_cluster" => GlobalFull(r)
                 /\ pc'[r] = "busy_tenant" => TenantFull(r)
        <3>1. q = r
            BY <2>1 DEF Acquire
        <3> HIDE DEF GlobalFull, TenantFull
        <3> QED
            BY <2>1, <3>1 DEF Acquire
    <2>2. ASSUME NEW q \in Request,
                 \/ Begin(q) \/ AcquireLost(q) \/ AcquireAborted(q) \/ Finish(q)
                 \/ Release(q) \/ ReleaseLost(q)
          PROVE  FALSE
        BY <2>2 DEF Begin, AcquireLost, AcquireAborted, Finish, Release, ReleaseLost
    <2>3. ASSUME NEW w \in Worker, Crash(w) PROVE FALSE
        BY <2>3 DEF Crash
    <2>4. CASE InFlight \/ Tick
        BY <2>4 DEF InFlight, Tick
    <2> QED
        BY <2>1, <2>2, <2>3, <2>4, <1>0 DEF Next
<1>1. ASSUME StoreInv, Next PROVE A
    <2> SUFFICES ASSUME NEW r \in Request, pc[r] = "acquiring"
                 PROVE  /\ pc'[r] = "busy_cluster" => Cardinality(Blocking(r)) >= GlobalLimit
                        /\ pc'[r] = "busy_tenant" =>
                             Cardinality({q \in Blocking(r) : TenantOf[q] = TenantOf[r]}) >= TenantLimit
        OBVIOUS
    <2>1. (pc'[r] = "busy_cluster" => GlobalFull(r)) /\ (pc'[r] = "busy_tenant" => TenantFull(r))
        BY <1>0, <1>1
    <2> QED
        BY <1>1, <2>1, FullOfLiveLeases
<1> HIDE DEF A
<1>2. StoreInv /\ [Next]_vars => [A]_vars
    BY <1>1
<1> QED
    BY <1>2, StoreInvariant, PTL DEF Spec, RejectedByLiveLeases, A
=============================================================================
