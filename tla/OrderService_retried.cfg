\* What clients are told when nothing is rolled back and keys are not shared.
SPECIFICATION FairSpec
CONSTANTS
    w1 = w1
    w2 = w2
    o1 = o1
    o2 = o2
    k1 = k1
    k2 = k2
    u1 = u1
    damaged = damaged
    None = None
    Miss = Miss
    NoKey = NoKey
    NoSnapshot = NoSnapshot
    TicketEntry = TicketEntry
    Workers <- MCWorkers
    Orders = {o1, o2}
    Keys = {k1, k2}
    Users = {u1}
    Reasons = {damaged}
    EventIds <- Nat
    InitialRows <- MCInitialRows
    LegacyEvents <- MCLegacyEvents
    Owner <- MCOwner
    Requests <- RetriedRequests
    TicketKeys = {}
    RepeatableRead = TRUE
    RedisFaults = FALSE
    MaxRequests = 3
    MaxAborts = 0
CHECK_DEADLOCK FALSE
INVARIANTS
    SuccessMeansExecuted
    RefusalIsTrue
    RetryKeepsItsAnswer
PROPERTIES
    EveryRequestAnswered
