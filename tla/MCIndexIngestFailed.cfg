SPECIFICATION Spec
CHECK_DEADLOCK FALSE
CONSTANTS
    Worker = {w1}
    NTenants = 2
    Version = {"v1", "v2"}
    Absent = Absent
    Gone = Gone
    Foreign = Foreign
    NoIndex = NoIndex
    Unbuilt = Unbuilt
    Torn = Torn
    Shipped <- MCShipped
    Legacy <- MCShipped
    Ngram = TRUE
    Asked = {{1, 2}}
    MaxEvents = 2
INVARIANTS
    OldNeverWithNew
