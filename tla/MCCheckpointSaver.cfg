SPECIFICATION Spec
CHECK_DEADLOCK FALSE
SYMMETRY Symmetry
CONSTANTS
    Op = {a, b}
    Proc = {p}
    Channel = {"messages", "slots"}
    NoProc = NoProc
    NoValue = NoValue
    Junk = Junk
    MaxCp = 2
INVARIANTS
    BlobsComplete
    NothingTakenBack
PROPERTY
    RunsFromShared
