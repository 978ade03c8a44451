CONSTANTS
    Count = 2
    Threshold <- MCThreshold
    FailMax = 2
    MaxResults = 4
    MaxCycle = 3
SPECIFICATION Spec
INVARIANTS
    IInv
    SinceClearMeaning
    CycleMeaning
    ConfirmedMeaning
