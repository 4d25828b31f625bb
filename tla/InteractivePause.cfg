SPECIFICATION Spec
CONSTANTS
    Requests = {r1, r2, r3}
    Capacity = 1
    MaxPaused = 2
    TimeoutPolicy = "fail-closed"
    KeyDecisions = {"continue"}
    UiCapacity = 1
    MaxRows = 2
SYMMETRY Symmetry
INVARIANTS
    PermitsConserved
    OutcomeHasACause
PROPERTIES
    PausedRowsSurvive
