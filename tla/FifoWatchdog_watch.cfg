SPECIFICATION BoundedSpec
CONSTANTS
    Terminals = {t1}
    Environments <- CalmAndRough
    Screens = 2
    Widths = 2
    MaxDraws = 3
    MaxFaults = 1
    BusSize = 2
    StallChecks = 2
    MaxColdStarts = 2
    MaxProbeFailures = 2
    MaxRearmFailures = 2
INVARIANTS
    NoGhost
PROPERTIES
    ScreenIsSeen
    HealthyPipeLeftAlone
CHECK_DEADLOCK FALSE
