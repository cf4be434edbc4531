SPECIFICATION FairSpec
CONSTANTS
    MaxDrives = 2
    MaxCalls = 1
    Steps = {"s1"}
    Cancels = {"c1"}
    Overtakes = FALSE
    Faults <- AllFaults
    MaxFaults = 1
INVARIANTS
PROPERTIES
    DriveEnds
    FencedOut
    SweepSparesOthers
CHECK_DEADLOCK FALSE
