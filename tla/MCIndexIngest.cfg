SPECIFICATION FairSpec
CHECK_DEADLOCK FALSE
CONSTANTS
    Worker = {w1, w2}
    NTenants = 2
    Version = {"v1"}
    Absent = Absent
    Gone = Gone
    Foreign = Foreign
    NoIndex = NoIndex
    Unbuilt = Unbuilt
    Torn = Torn
    Shipped <- MCShipped
    Legacy = {}
    Ngram = TRUE
    Asked = {{2}}
    MaxEvents = 2
INVARIANTS
    RevisionMeansContent
    NeverForeign
    HalvesAgree
PROPERTY
    Converges
