CONSTANTS
    Count = 2
    Threshold <- MCThreshold
    FailMax = 2
    MaxResults = 3
    MaxCycle = 1
    monitor = monitor
    comRx = comRx
    NoTask = NoTask
    Tasks <- MCTasks
    Calls <- MCCalls
    Rooms = {1, 2}
SPECIFICATION LockedSpec
INVARIANTS
    SnapshotReads
PROPERTIES
    Atomic
    CallsReturn
