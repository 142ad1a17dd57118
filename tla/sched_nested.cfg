SPECIFICATION Spec
CONSTANTS
    Timers = {t1}
    Controllers = {c1}
    MaxFires = 2
    MaxRuns <- NoLimit
    MaxOverlap = 2
    OverlapPolicy = "queue"
    MaxAttempts = 1
    HistoryLimit = 2
    HasJitter = FALSE
    MisfireSkip = FALSE
    StopTimeouts = FALSE
    Outcomes = {"succeeded"}
    Pauses = FALSE
    StopsFromRuns = TRUE
    NestedTriggers = TRUE
    BaseExceptions = FALSE
    t1 = t1
    c1 = c1
INVARIANTS
    StopNeverAwaitsItself
CHECK_DEADLOCK FALSE
