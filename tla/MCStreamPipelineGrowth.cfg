SPECIFICATION PipeSpec
CONSTANTS
    none = none
    NoPts = none
    TbNum = 1
    TbDen = 1
    OutTb = 4
    FrameTicks = 4
    MaxPackets = 8
    Stamps <- MCStamps
    Steps <- MCSteady
    Missing = FALSE
    SegDur = 8
    LiveWindow = 2
    Retention = 1
    MinAge = 1
    CleanupEvery = 1
    EpochShift = 0
    IntHalf = 16
    MaxIndex = 5
    Gaps <- MCGaps
INVARIANT SegmentsEndInTime
CHECK_DEADLOCK FALSE
