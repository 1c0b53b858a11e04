SPECIFICATION FairSpec
CHECK_DEADLOCK FALSE
CONSTANTS
    c1 = c1  c2 = c2  c3 = c3  ta = ta  tb = tb
    Call = {c1, c2, c3}
    Tenant = {ta, tb}
    TenantOf <- MCTenantOf
    Kinds = {"astream"}
    Threshold = 2
    Cooldown = 1
    Retries = 1
    Limit = 2
    MaxUse = 1
PROPERTY
    ProbeAlwaysResolves
