SPECIFICATION Spec
CONSTANTS
    Timers = {t1}
    Controllers = {c1}
    MaxFires = 3
    MaxRuns <- NoLimit
    MaxOverlap = 1
    OverlapPolicy = "queue"
    MaxAttempts = 1
    HistoryLimit = 2
    HasJitter = FALSE
    MisfireSkip = FALSE
    StopTimeouts = FALSE
    Outcomes = {"succeeded"}
    Pauses = TRUE
    StopsFromRuns = FALSE
    NestedTriggers = FALSE
    BaseExceptions = FALSE
    t1 = t1
    c1 = c1
INVARIANTS
    DrainLeavesNothing
PROPERTIES
    NoOvertaking
CHECK_DEADLOCK FALSE
