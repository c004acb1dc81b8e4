SPECIFICATION Spec
CONSTANTS
    Plans <- MCPlans
    NbTrains = 3
    TrainsInView = 1
    Room = 2
    Half = 2
    Top = 3
    DcCab = 9
INVARIANTS BoxSound ShowsTruth
PROPERTY BoxRests
CHECK_DEADLOCK FALSE
