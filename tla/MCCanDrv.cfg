CONSTANTS
    Delay = 10
    FifoLength = 3
    MaxBusOffs = 3
SPECIFICATION Spec
INVARIANTS
    NeverStranded
    RejoinsInTime
PROPERTIES
    DelayRespected
    Recovers
