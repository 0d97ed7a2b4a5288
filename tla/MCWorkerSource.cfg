SPECIFICATION WSFairSpec
CONSTANTS
    cam1 = cam1
    cam2 = cam2
    Workers <- MCWorkers
    Reconnecting <- MCReconnecting
    InitialDelay = 2
    MaxDelay = 6
    Jitter <- MCJitter
    Width = 5
    StaleTimeout = 1
    TicksPerSecond = 2
INVARIANTS
    NoSilentSplice
    ShutdownIsPrompt
PROPERTIES
    ImplementsWorker
    StreamResumes
