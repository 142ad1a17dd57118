SPECIFICATION ToolsSpec
CONSTANTS
    Scenarios <- CallScenarios
    Tools <- ToolSet
    Cancels = TRUE
    Nothing = Nothing
    CallIds = {k1, k2}
    MaxStarts = 3
    MaxCancels = 2
    k1 = k1
    k2 = k2
INVARIANTS
    OneSerialWriter
    RevisedOnce
    ExecutedOnce
    AnswersDelivered
PROPERTIES
    PlannedValueStays
    EveryCallEnds
    FailureReachesCaller
CHECK_DEADLOCK FALSE
