\* The life of one ticket and its hand-over from one agent to another.
SPECIFICATION FairSpec
CONSTANTS
    w1 = w1
    w2 = w2
    customer = customer
    agent1 = agent1
    agent2 = agent2
    None = None
    Nobody = Nobody
    NoRequest = NoRequest
    Workers <- MCWorkers
    Users <- MCUsers
    Role <- MCRole
    Requester = customer
    Requests <- MCRequests
    MaxRequests = 4
    MaxAborts = 1
CHECK_DEADLOCK FALSE
INVARIANTS
    CausesStandAbove
    ClosedAfterResolved
PROPERTIES
    EveryRequestAnswered
