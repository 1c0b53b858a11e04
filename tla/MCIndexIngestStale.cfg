SPECIFICATION FairSpec
CHECK_DEADLOCK FALSE
CONSTANTS
    Worker = {w1, w2}
    NTenants = 2
    Version = {"v1", "v2"}
    Absent = Absent
    Gone = Gone
    Foreign = Foreign
    NoIndex = NoIndex
    Unbuilt = Unbuilt
    Torn = Torn
    Shipped <- MCShipped
    Legacy = {}
    Ngram = TRUE
    Asked = {{}}
    MaxEvents = 2
PROPERTY
    EveryWorkerReloads
