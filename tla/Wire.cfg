SPECIFICATION Spec
CONSTANTS
    MaxHead = 11
    MaxCapture = 16
    MaxRecords = 2
    MaxRead = 12
    Exchanges <- MCExchanges
CHECK_DEADLOCK FALSE
INVARIANTS
    FramesExactly
    CapturesAreExact
    EveryBindAnswered
