SPECIFICATION ModesSpec
CONSTANTS
    Calls = {c0, c1, c2}
    Settled = {c0}
    Names = {n}
    Kinds <- AllKinds
    Threads = {d1}
    NoCall = NoCall
    Overlap = FALSE
    Faults <- FaultKinds
    MaxFaults = 1
    MaxAged = 0
    Windows = {wa, wb, wc}
    Senders = {p1, p2}
    Wanted <- AsksOfTwo
    Atlas <- TwoInOrder
    Enters <- TwoEntersInB
    MaxExits = 1
    MaxTries = 2
    Told = {e1, e2}
    Sources <- Tellers
    RingCapacity = 1
    QueueSize = 1
    InboundSize = 1
    MaxCuts = 1
    MaxLinks = 2
    c0 = c0
    c1 = c1
    c2 = c2
    wa = wa
    wb = wb
    wc = wc
    p1 = p1
    p2 = p2
    e1 = e1
    e2 = e2
SYMMETRY Interchangeable
INVARIANTS
    NoOrphanWindow
    WholeOrGone
    CallerIsTold
    Addressed
    AnswerIsTrue
    CaughtUp
    StatusIsTrue
    OutputIsTheAnswer
CHECK_DEADLOCK FALSE
