SPECIFICATION FilesSpec
CONSTANTS
    Path = {1, 2}
    Revision = {1, 2}
    Marker = {"m1"}
    NoMarker = "none"
    Configurations <- Watchers
    MaxPending = 2
    MaxChanges = 2
    MaxExits = 1
    Takes <- CallsOfThreads
    Files <- FilesOfCalls
    Whole = {"redacted"}
    MaxFileProofs = 2
    MaxPublishMishaps = 1
INVARIANTS
    CursorIsJournalled
    SavedOnce
PROPERTIES
    InOrderAtLeastOnce
    OnlyRestingFiles
    WatchCaughtUp
    EventuallySaved
CHECK_DEADLOCK FALSE
