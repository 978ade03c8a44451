CONSTANTS
    CounterMod = 6
    MaxDelta = 2
    Timeout = 2
    Grace = 3
    HealFrames = 2
    DebounceTicks = 0
    QueueLength = 32
    MaxSpeed = 1
    FaultSpeed = 2
    Speeds = {1}
    AdcResults = {TRUE}
    SensorButton = {FALSE}
    ControlButton = {FALSE}
    MaxLosses = 7
    MaxResets = 1
    MaxActions = 0
    MaxWait = 1
    MaxBacklog = 1
    MaxHolds = 2
SPECIFICATION Spec
INVARIANTS
    SafeOutput
    HealsLate
    FrameGuarded
    SpeedMeasured
PROPERTIES
    GapNoticed
