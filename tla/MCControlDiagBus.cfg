CONSTANTS
    CanDl = 8
    SeqMod = 16
    MaxMessage = 4095
    MaxWft = 10
    NBs = 2
    NCr = 2
    Pad = Pad
    S3 = 3
    RespMax = 256
    DtcCount = 5
    DidLength <- MCDidLength
    Cfg <- MCCfg
    Requests <- MCHard
    Truncated = {}
    FifoDepth = 2
    QueueLength = 2
    MaxRequests = 2
    MaxFcs = 0
SPECIFICATION Spec
INVARIANTS
    ResetAfterResponseOnBus
