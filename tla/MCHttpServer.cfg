SPECIFICATION FairSpec
CONSTANTS
    a = a
    b = b
    Clients <- MCClients
    Reading <- MCClients
    Backlog = 2
INVARIANTS
    ListenerIsSafe
    NoConnectionLeaks
PROPERTIES
    StopReturns
    EveryoneHasATurn
CHECK_DEADLOCK FALSE
