SPECIFICATION Spec
CONSTANTS
    None = None
    r1 = r1
    r2 = r2
    c1 = c1
    m1 = m1
    m2 = m2
    Requests <- TwoRequests
    Clients <- OneClient
    TierModel <- TwoModels
    DefaultTier = "balanced"
    FallbackModel <- m2
    FallbackEnabled = TRUE
    Limit <- SmallLimits
    Window = 2
    JavaLimit = 1
    JavaWindow = 2
    RequestTimeout = 2
    TotalTimeout = 5
    JavaTimeout = 1
    MaxRetries = 2
    MaxDelay = 2
    Inputs <- SmallInputs
    OutputTokens = 3
    MinOutput = 2
    MaxInput = 9
    MaxTotal = 10
    FallbackTotal = 9
    InputPrice = 1
    OutputPrice = 3
    MaxCost = 15
    LastArrival = 2
    MaxChunks = 2
INVARIANTS
    QuotaKept
    AnsweredInTime
    WithinTokenBudget
    OneVoice
SYMMETRY Symmetric
CHECK_DEADLOCK FALSE
