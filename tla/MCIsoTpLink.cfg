CONSTANTS
    CanDl = 4
    SeqMod = 4
    MaxMessage = 15
    MaxWft = 1
    NBs = 2
    NCr = 2
    Pad = Pad
    Cfg <- MCCfg
    Lengths = {0, 2, 15, 16}
    Frames <- MCFrames
    MaxRoom = 3
SPECIFICATION Spec
INVARIANTS
    InBuffers
    SeqFollowsOffset
    CallbacksOnce
    WithinCredit
PROPERTIES
    TransmissionEnds
    ReceptionEnds
