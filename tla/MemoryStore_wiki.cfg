SPECIFICATION ModesSpec
CONSTANTS
    Keys = {k1, k2}
    Stores = {s1, s2}
    Sweeps = {w}
    Removals = {r1, r2}
    Kinds <- AllKinds
    NoOp = NoOp
    Overlap = FALSE
    Faults <- FaultKinds
    MaxFaults = 0
SYMMETRY Interchangeable
INVARIANTS
    EntriesAreKept
    TripleAgrees
CHECK_DEADLOCK FALSE
