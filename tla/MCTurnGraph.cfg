SPECIFICATION Spec
CHECK_DEADLOCK FALSE
SYMMETRY Symmetry
CONSTANTS
    o1 = o1  o2 = o2
    Orders = {o1, o2}
    None = None
    Texts <- MCTexts
    LlmAnswers <- MCLlmAnswers
    OrderTtl = 1
    Thresholds = {1, 2}
    MaxTurns = 2
    MaxTime = 2
INVARIANTS
    SignalGuard
    ToolHasNumber
    ReportsOfThisTurn
    OldDataMarked
    ProfileOwned
    HandoffRecorded
PROPERTIES
    ReportsAccessible
    TopicKept
