SPECIFICATION Spec
CONSTANTS
    w1 = w1
    w2 = w2
    v1 = v1
    v2 = v2
    Nobody = Nobody
    Workers <- TwoWorkers
    Values <- TwoValues
    TTL = 2
    AcquireTimeout = 3
    MaxFaults = 1
INVARIANTS
    TypeOK
    OneHolder
    SavedStays
    AnswersResolve
    StoredResolve
PROPERTIES
    ReleasesOwnLock
    NoNeedlessTimeout
    ImplementsLedger
SYMMETRY Symmetric
