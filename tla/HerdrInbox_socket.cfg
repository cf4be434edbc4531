SPECIFICATION HerdrFairSpec
CONSTANTS
    t1 = t1
    t2 = t2
    s1 = s1
    Tabs = {t1, t2}
    Sessions = {s1}
    Of <- Together
    Panes = {1, 2}
    Renumbers = TRUE
    Recycles = FALSE
    MaxOpen = 2
    MaxDrops = 1
    Faults <- FaultKinds
    MaxMishaps = 1
    NoTerm = NoTerm
    NoSession = NoSession
INVARIANTS
PROPERTIES
    LiveKept
    PaneIsHeard
CHECK_DEADLOCK FALSE
