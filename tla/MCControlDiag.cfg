CONSTANTS
    CanDl = 8
    SeqMod = 16
    MaxMessage = 4095
    MaxWft = 10
    NBs = 2
    NCr = 2
    Pad = Pad
    S3 = 3
    RespMax = 256
    DtcCount = 5
    DidLength <- MCDidLength
    Cfg <- MCCfg
    Requests <- MCRequests
    Truncated <- MCTruncated
    FifoDepth = 2
    QueueLength = 2
    MaxRequests = 3
    MaxFcs = 1
SPECIFICATION Spec
INVARIANTS
    ResetAtMostOnce
    ResponsesWhole
PROPERTIES
    S3Respected
    LinkRecovers
