CONSTANTS
    CanDl = 4
    SeqMod = 4
    MaxMessage = 15
    MaxWft = 1
    NBs = 2
    NCr = 2
    Pad = Pad
    RingLen = 3
    ResponseTimeout = 2
    NoResponseWait = 1
    Config <- MCConfig
    TestSequences <- MCTestSequences
    Answers <- MCAnswers
    Setups <- MCSetups
    None = None
    Silent = Silent
SPECIFICATION Spec
INVARIANTS
    VerdictTrue
PROPERTIES
    RingIsFifo
    SequenceEnds
