\* Racing, retried and killed requests with one key and an unreliable Redis.
SPECIFICATION FairSpec
CONSTANTS
    w1 = w1
    w2 = w2
    k1 = k1
    k2 = k2
    broken = broken
    late = late
    OrderEntry = OrderEntry
    Miss = Miss
    NoSnapshot = NoSnapshot
    Workers = {w1, w2}
    Keys = {k1}
    Contents = {broken, late}
    NamesOrder = {late}
    OrderKeys = {k1}
    RepeatableRead = TRUE
    RedisFaults = TRUE
    MaxRequests = 4
    MaxAborts = 1
CHECK_DEADLOCK FALSE
INVARIANTS
    OneTicketPerKey
    AnswerIsTicket
    ConflictIsReal
PROPERTIES
    EveryRequestAnswered
