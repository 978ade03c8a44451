CONSTANTS
    CanDl = 4
    SeqMod = 4
    MaxMessage = 15
    MaxWft = 1
    NBs = 2
    NCr = 2
    Pad = Pad
    Setups <- MCSetups
    Depth = 3
    Requests <- MCRequests
    Responses <- MCResponses
SPECIFICATION Spec
INVARIANTS
    Integrity
    ConfirmedArrives
    BlockRespected
PROPERTIES
    ComesToRest
