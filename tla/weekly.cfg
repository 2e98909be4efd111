SPECIFICATION Spec
CONSTANTS
    NumRuns = 2
    Windows <- SmallWindows
    ThresholdNum = 1
    ThresholdDen = 2
    MinSampleSize = 2
    Retries = 1
    MaxClock = 1
    MaxFaults = 2
INVARIANTS
    TypeOK
    KeyPreserved
    EmptyIsPassing
    AlertsMatchCompare
PROPERTIES
    RunEnds
CHECK_DEADLOCK FALSE
