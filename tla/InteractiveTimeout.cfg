SPECIFICATION FairSpec
CONSTANTS
    Requests = {r1, r2}
    Capacity = 1
    MaxPaused = 1
    TimeoutPolicy = "fail-open"
    KeyDecisions = {"reject"}
    UiCapacity = 0
    MaxRows = 2
PROPERTIES
    PauseEnds
