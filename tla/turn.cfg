SPECIFICATION TurnSpec
CONSTANTS
    Generators = {g1, g2}
    Turns <- BridgeTurns
    QueueSize = 1
    MaxMishaps = 1
    MaxReopens = 1
    Plans <- DecisionPlans
    MaxCallerCancels = 2
    Assignments = {"a", "b"}
    Recognised = {"a"}
    ChainLength = 2
    MaxHookEvents = 4
    MaxSessions = 2
    MaxPositions = 2
    g1 = g1
    g2 = g2
INVARIANTS
    StructureKept
    NothingLeftBehind
    GateDecides
    HooksPaired
    CursorMissesNothing
PROPERTIES
    ReceivedInOrder
    InterruptShownOnce
    TurnEndReached
    NoSuccessorOfRejection
    CancelledUnlessOver
CHECK_DEADLOCK FALSE
