SPECIFICATION Spec
CONSTANTS
    none = none
    NoPts = none
    SegDur = 2
    Gaps <- MCGaps
    LiveWindow = 2
    Retention = 2
    MinAge = 1
    CleanupEvery = 1
    EpochShift = 43
    IntHalf = 16
    CanFail = {"create", "header", "frame", "remove", "playlist", "short"}
    MaxIndex = 2
    MaxTime = 4
    MaxRuns = 1
INVARIANT DurationsSane
PROPERTY RetentionKept
CHECK_DEADLOCK FALSE
