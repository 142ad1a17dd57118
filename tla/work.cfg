SPECIFICATION Spec
CONSTANTS
    Process = {p, q}
    Fire = {f}
    MaxAttempts = 2
    MaxMishaps = 3
    p = p
    q = q
    f = f
INVARIANTS
    OneVerdict
    HandBackBeforeDelete
PROPERTIES
    EventuallySettled
CHECK_DEADLOCK FALSE
