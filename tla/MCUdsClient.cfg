SPECIFICATION Spec
CONSTANTS
    S3 = 3
    RespMax = 255
    DidLength <- MCDidLength
    DtcCount = 2
    Threshold <- MCThreshold
    FailMax = 3
    Version <- MCVersion
    Speed <- MCSpeed
    None = None
    P2 = 2
    P2Star = 3
    MaxPending = 2
    Setups <- MCSetups
INVARIANTS
    OwnResponses
    Understood
    BoundedWait
    ScenarioPasses
CHECK_DEADLOCK FALSE
