CONSTANTS
    CounterMod = 5
    MaxDelta = 1
    Timeout = 2
    Grace = 3
    HealFrames = 1
    DebounceTicks = 0
    QueueLength = 1
    MaxSpeed = 1
    FaultSpeed = 2
    Speeds = {1}
    AdcResults = {TRUE, FALSE}
    SensorButton = {TRUE, FALSE}
    ControlButton = {TRUE, FALSE}
    MaxLosses = 1
    MaxResets = 1
    MaxActions = 3
    MaxWait = 0
    MaxBacklog = 1
    MaxHolds = 1
SPECIFICATION Spec
PROPERTIES
    SafeStateReached
    Recovers
