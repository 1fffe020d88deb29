SPECIFICATION Spec
CONSTANTS
    c1 = c1
    c2 = c2
    Absent = Absent
    Broken = Broken
    Callers <- TwoCallers
    Protected <- WriteAndClassify
    Failures <- SomeFailures
    LlmRetries = 2
    InitialDelay = 1
    MaxDelay = 2
    MaxInWindow = 2
    Window = 2
    FailureCount = 1
    MinimumRequests = 2
    OpenTicks = 2
    MaxProbes = 1
    SuccessThreshold = 2
    MaxCalls = 3
    MaxLost = 1
INVARIANTS
    WrittenAtMostOnce
    ProbesAreFew
PROPERTY
    NeverShutForGood
CHECK_DEADLOCK FALSE
