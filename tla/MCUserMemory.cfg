SPECIFICATION Spec
CHECK_DEADLOCK FALSE
SYMMETRY Symmetry
CONSTANTS
    Session = {s1, s2}
    Order = {o1, o2, o3}
    NoOrder = NoOrder
    NoSave = NoSave
    NoProfile = NoProfile
    MaxRecent = 2
    MaxSaves = 4
INVARIANTS
    CopiesCoherent
    NothingForgotten
