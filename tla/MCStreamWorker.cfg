SPECIFICATION FairSpec
CONSTANTS
    cam1 = cam1
    cam2 = cam2
    Workers <- MCWorkers
    Reconnecting <- MCReconnecting
INVARIANTS
    NoLostShutdown
    JoinedBeforeReuse
    IdleHoldsNothing
    ErrorMeansOver
PROPERTIES
    StopReturns
CHECK_DEADLOCK FALSE
