SPECIFICATION HealthFairSpec
CONSTANTS
    cam1 = cam1
    cam2 = cam2
    Workers <- MCWorkers
    Reconnecting <- MCReconnecting
    MaxWritten = 1
INVARIANTS
    StopLeavesNoThread
    GoneMeansReleased
    ReportIsCurrent
    NoReportOfTheDead
    LastReportIsFinal
PROPERTIES
    ShutdownCompletes
    AllFailedIsTrue
    AllFailedIsNoticed
CHECK_DEADLOCK FALSE
