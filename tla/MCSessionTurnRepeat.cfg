SPECIFICATION Spec
CHECK_DEADLOCK FALSE
CONSTANTS
    Turn = {t1, t2}
    NoTurn = NoTurn
    Old = Old
    NoState = NoState
    LockTtl = 2
    Faults = FALSE
INVARIANT
    NoRepeatedMessage
