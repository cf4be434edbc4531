SPECIFICATION ModesSpec
CONSTANTS
    sup = sup
    w1 = w1
    peer = peer
    Terminals = {sup, w1, peer}
    Receivers = {sup}
    Routes <- ToSup
    Caller <- SpawnedBySup
    Accepts = {sup}
    OpenCode = {}
    Eager = FALSE
    Overlap = FALSE
    Faults = {"unresolved", "error", "late", "crash", "db", "delete"}
    MaxFaults = 1
    MaxMessages = 2
    MaxEvents = 1
INVARIANTS
    DeliveredWasTyped
PROPERTIES
    AloneIsMailbox
    AloneAdopts
    AloneArrives
CHECK_DEADLOCK FALSE
