SPECIFICATION Spec
CONSTANTS
    None = None
    t1 = t1
    t2 = t2
    s1 = s1
    s2 = s2
    k1 = k1
    k2 = k2
    tr1 = tr1
    tr2 = tr2
    l1 = l1
    l2 = l2
    m1 = m1
    m2 = m2
    Customers <- OneCustomer
    Supervisors <- TwoSupervisors
    Conversations <- OneConversation
    Traces <- OneTrace
    Ratings = {"unhelpful"}
    Layers <- TwoLayers
    Messages <- OneMessage
    MaxExchanges = 1
    ReviewStatuses = {"closed"}
    MaxRuns = 1
INVARIANTS
    PromotionsAreBacked
    CasesAreUnique
    PassedRunsCoverPromotions
SYMMETRY Symmetric
CHECK_DEADLOCK FALSE
