SPECIFICATION ToolsSpec
CONSTANTS
    Scenarios <- CallScenarios
    Tools <- ToolSet
    Cancels = FALSE
    Nothing = Nothing
    CallIds = {k1, k2}
    MaxStarts = 3
    MaxCancels = 2
    k1 = k1
    k2 = k2
PROPERTIES
    ArrivalDecides
CHECK_DEADLOCK FALSE
