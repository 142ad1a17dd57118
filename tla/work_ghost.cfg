SPECIFICATION Spec
CONSTANTS
    Process = {p, q}
    Fire = {f}
    MaxAttempts = 2
    MaxMishaps = 1
    p = p
    q = q
    f = f
INVARIANTS
    CleanStop
CHECK_DEADLOCK FALSE
