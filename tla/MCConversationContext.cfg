SPECIFICATION Spec
CHECK_DEADLOCK FALSE
SYMMETRY Symmetry
CONSTANTS
    Order = {o1, o2}
    Reviewing = Reviewing
    Refunded = Refunded
    Topic = {Shipped}
    Asks = Asks
    Waits = {Human}
    Nothing = Nothing
    Queries <- FactsOfUsers
    Replies <- FactsOfReplies
    Answers <- AnyFacts
    Budget = 5
    MaxMessages = 3
    KeepRecent = 2
    LongCost = 3
    OrderCap = 2
    ConfirmedCap = 2
    PendingCap = 1
    MaxItems = 4
    MaxTurns = 5
INVARIANTS
    TypeOK
    CheckpointMatchesArchive
    NothingForgotten
PROPERTIES
    
    RecentKept
