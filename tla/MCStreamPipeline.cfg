SPECIFICATION PipeSpec
CONSTANTS
    none = none
    NoPts = none
    TbNum = 1
    TbDen = 3
    OutTb = 2
    FrameTicks = 2
    MaxPackets = 5
    Stamps <- MCStamps
    Steps <- MCSteps
    Missing = TRUE
    SegDur = 2
    LiveWindow = 2
    Retention = 1
    MinAge = 1
    CleanupEvery = 1
    EpochShift = 0
    IntHalf = 16
    MaxIndex = 5
    Gaps <- MCGaps
INVARIANTS
    MuxableOutput
    MarkersMatchSplices
PROPERTIES
    StrictlyIncreasing
    CatchesUp
    ImplementsMuxer
CHECK_DEADLOCK FALSE
