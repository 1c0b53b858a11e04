SPECIFICATION WorkerSpec
CHECK_DEADLOCK FALSE
CONSTANTS
    c1 = c1  c2 = c2  c3 = c3  ta = ta  tb = tb
    Call = {c1, c2, c3}
    Tenant = {ta, tb}
    TenantOf <- MCTenantOf
    Kinds = {"invoke", "astream"}
    Threshold = 2
    Cooldown = 1
    Retries = 1
    Limit = 1
    MaxUse = 1
    Caller = {p1, p2}
    None = None
    Workers = 1
    Factor = 1
INVARIANTS
    QuotaOvershootBounded
    BreakerConsistent
    ProbeFlagHasOwner
    SlotsConserved
    WarmQueueBounded
PROPERTIES
    ProbeResolves
    SlotsComeBack
