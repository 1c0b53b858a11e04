SPECIFICATION Spec
CHECK_DEADLOCK FALSE
CONSTANTS
    r1 = r1  r2 = r2  r3 = r3  r4 = r4
    ta = ta  tb = tb  tc = tc w1 = w1  w2 = w2
    Request <- MCRequest
    Tenant = {ta, tb, tc}
    Worker = {w1, w2}
    TenantOf <- MCTenantOf
    WorkerOf <- MCWorkerOf
    GlobalLimit = 2
    TenantLimit = 1
    Ttl = 2
    MaxSkew = 1
    MaxClock = 2
INVARIANTS
    LeasedWithinGlobalLimit
    LeasedWithinTenantLimit
    SlotsOwned
PROPERTY
    RejectedByLiveLeases
