SPECIFICATION Spec
CONSTANTS
    Timers = {t1}
    Controllers = {c1}
    MaxFires = 2
    MaxRuns <- NoLimit
    MaxOverlap = 1
    OverlapPolicy = "skip"
    MaxAttempts = 2
    HistoryLimit = 2
    HasJitter = TRUE
    MisfireSkip = TRUE
    StopTimeouts = FALSE
    Outcomes = {"succeeded"}
    Pauses = FALSE
    StopsFromRuns = TRUE
    NestedTriggers = FALSE
    BaseExceptions = TRUE
    t1 = t1
    c1 = c1
INVARIANTS
    StopNeverAwaitsItself
CHECK_DEADLOCK FALSE
