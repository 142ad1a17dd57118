SPECIFICATION ClientSpec
CONSTANTS
    Lease = {l1, l2, l3}
    Loop = {a, b}
    MaxGenerations = 2
    MaxEvents = 4
    QueueSize = 1
    Threads = {m1, m2}
    MaxProcesses = 2
    l1 = l1
    l2 = l2
    l3 = l3
    a = a
    b = b
    m1 = m1
    m2 = m2
INVARIANTS
    NeverClosedInUse
    SourceAhead
    EndMeansComplete
    OwedAnAnswer
PROPERTIES
    WaitersReturn
    CallerNotStranded
    CloseReleases
CHECK_DEADLOCK FALSE
