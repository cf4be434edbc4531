SPECIFICATION FairSpec
CONSTANTS
    MaxDrives = 1
    MaxCalls = 1
    Steps = {"s1"}
    Cancels = {"c1"}
    Overtakes = FALSE
    Faults = {}
    MaxFaults = 0
PROPERTIES
    CancelFences
CHECK_DEADLOCK FALSE
