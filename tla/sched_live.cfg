SPECIFICATION Spec
CONSTANTS
    Timers = {t1, t2}
    Controllers = {c1}
    MaxFires = 2
    MaxRuns = 2
    MaxOverlap = 1
    OverlapPolicy = "queue"
    MaxAttempts = 1
    HistoryLimit = 2
    HasJitter = FALSE
    MisfireSkip = FALSE
    StopTimeouts = FALSE
    Outcomes = {"succeeded"}
    Pauses = FALSE
    StopsFromRuns = FALSE
    NestedTriggers = FALSE
    BaseExceptions = FALSE
    t1 = t1
    t2 = t2
    c1 = c1
PROPERTIES
    FiresEnd
    StopReturns
CHECK_DEADLOCK FALSE
