SPECIFICATION ModesSpec
CONSTANTS
    Senders = {s1}
    Gate = "cycle"
    Screen = TRUE
    Rendered = FALSE
    Lags = FALSE
    EndLooks = {"COMPLETED"}
    Redraws = {"UNKNOWN", "COMPLETED", "IDLE"}
    MaxInputs = 3
    MaxQueue = 2
    MaxTasks = 2
INVARIANTS
    TurnEndsBeforeReady
    BusyIsSeenBusy
PROPERTIES
    NoUnpromptedRevert
    TimerSees
CHECK_DEADLOCK FALSE
