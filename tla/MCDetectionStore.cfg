SPECIFICATION Spec
CONSTANTS
    person = person
    car = car
    Types <- MCTypes
    MaxFrames = 2
    MaxDetections = 2
    MaxFailures = 1
    MaxTime = 1
    MaxCrashes = 1
INVARIANTS
    RowsHaveFrames
    ServesItsKind
SYMMETRY MCSymmetry
CHECK_DEADLOCK FALSE
