\* Double clicks, retries, lost answers and two conversations of one user.
SPECIFICATION Spec
CONSTANTS
    w1 = w1
    w2 = w2
    c1 = c1
    c2 = c2
    u1 = u1
    o1 = o1
    broken = broken
    refund = refund
    order = order
    please = please
    NoOrder = NoOrder
    NoDraft = NoDraft
    Workers = {w1, w2}
    Conversations = {c1, c2}
    UserOf <- MCUserOf
    Orders = {o1}
    Texts = {broken, refund, order, please}
    HandoffText = please
    Messages <- MCMessages
    Mistakes = {"ticket", "policy"}
    ModelFields <- MCModelFields
    Modes <- MCModes
    Corrections <- MCCorrections
    Overlapping = {"approve", "reject", "correct"}
    MaxRequests = 4
    MaxCrashes = 1
SYMMETRY Symmetric
CHECK_DEADLOCK FALSE
INVARIANTS
    WritesApproved
    WrittenOnce
    PendingIsShown
    ApprovedIsCarriedOut
