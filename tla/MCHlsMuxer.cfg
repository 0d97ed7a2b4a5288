SPECIFICATION Spec
CONSTANTS
    none = none
    NoPts = none
    SegDur = 2
    Gaps <- MCGaps
    LiveWindow = 2
    Retention = 1
    MinAge = 1
    CleanupEvery = 1
    EpochShift = 43
    IntHalf = 16
    CanFail = {"scan", "stat", "create", "header", "frame", "remove"}
    MaxIndex = 2
    MaxTime = 2
    MaxRuns = 3
INVARIANTS
    TracksDisk
    PlaylistsCurrent
PROPERTIES
    NumbersNeverReused
    KeepsArchive
CHECK_DEADLOCK FALSE
