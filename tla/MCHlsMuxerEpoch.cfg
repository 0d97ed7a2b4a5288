SPECIFICATION Spec
CONSTANTS
    none = none
    NoPts = none
    SegDur = 2
    Gaps <- MCGaps
    LiveWindow = 2
    Retention = 2
    MinAge = 1
    CleanupEvery = 1
    EpochShift = 43
    IntHalf = 16
    CanFail = {}
    MaxIndex = 3
    MaxTime = 3
    MaxRuns = 2
PROPERTY RetentionKept
CHECK_DEADLOCK FALSE
