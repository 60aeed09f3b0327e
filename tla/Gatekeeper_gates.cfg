SPECIFICATION Spec
CONSTANTS
    None = None
    Torn = Torn
    Threshold = 3
    Capacity = 2
    Scale = 2
    Rate = 1
    Window = 3
    MaxInWindow = 3
    Retries = 1
    Backoff = 2
    LastDay = 1
    MaxTime = 7
    MaxAttempts = 6
    MaxOpens = 2
INVARIANTS ChargedWithinQuota PaceHolds BreakerIsExact
CHECK_DEADLOCK FALSE
