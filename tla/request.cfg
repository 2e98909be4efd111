SPECIFICATION Spec
CONSTANTS
    Requests <- SmallRequests
    QueueSize = 1
    MaxRequests = 2
    MaxFaults = 1
INVARIANTS
    TypeOK
    RewriteExact
    FoundIsGone
    DeclaredCovered
    GateLosesOnly
    GateAddsNothing
    NeverWaits
    SamplesConserved
    DriftReported
PROPERTIES
    SamplesDrain
CHECK_DEADLOCK FALSE
