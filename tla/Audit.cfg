SPECIFICATION FairSpec
CONSTANTS
    Flows = {f1, f2}
    Capacity = 1
    FailurePolicies = {"fail-closed", "fail-open"}
    Intervals = {0, 2}
    MaxSequence = 5
    MaxEvents = 2
INVARIANTS
    SegmentVerifies
    FailClosedGate
    EveryLossCounted
    CheckpointCadence
PROPERTIES
    AppendOnly
    ImplementsAuditLog
    ShutdownDrains
