SPECIFICATION Spec
CONSTANTS
    None = None
    a1 = a1
    a2 = a2
    d1 = d1
    u1 = u1
    ticket = ticket
    Actors <- TwoActors
    Drafts <- OneDraft
    Tokens <- OneToken
    Tools <- OneTool
    Ticket <- ticket
    MaxRetries = 1
    MaxJobs = 2
    MaxCrashes = 1
INVARIANTS
    SuccessIsOwn
    LockHasACall
PROPERTY
    CarriesOutApprovals
SYMMETRY Symmetric
CHECK_DEADLOCK FALSE
