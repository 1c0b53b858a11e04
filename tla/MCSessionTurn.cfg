SPECIFICATION FairSpec
CHECK_DEADLOCK FALSE
CONSTANTS
    Turn = {t1, t2}
    NoTurn = NoTurn
    Old = Old
    NoState = NoState
    LockTtl = 2
    Faults = TRUE
INVARIANTS
    LeasedHolderOwnsLock
    CompletedTurnsKept
PROPERTIES
    MutexSpec
    LockIsFreed
    TurnsEnd
