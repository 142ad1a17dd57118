SPECIFICATION Spec
CONSTANTS
    Timers = {t1}
    Controllers = {c1}
    MaxFires = 3
    MaxRuns <- NoLimit
    MaxOverlap = 1
    OverlapPolicy = "replace"
    MaxAttempts = 1
    HistoryLimit = 1
    HasJitter = FALSE
    MisfireSkip = FALSE
    StopTimeouts = TRUE
    Outcomes = {"succeeded"}
    Pauses = FALSE
    StopsFromRuns = FALSE
    NestedTriggers = FALSE
    BaseExceptions = FALSE
    t1 = t1
    c1 = c1
INVARIANTS
    ReplaceKeepsLatest
    AccountedOnce
CHECK_DEADLOCK FALSE
