SPECIFICATION MainFairPoolSpec
CONSTANTS
    cam1 = cam1
    cam2 = cam2
    Streams <- MCOne
    MaxSegment = 3
    MaxReopens = 2
    MaxDetections = 2
PROPERTIES
    NoSegmentTwice
    StoppedStoresNothing
    FollowsTheStream
    ShutdownEnds
CHECK_DEADLOCK FALSE
