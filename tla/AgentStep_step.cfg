SPECIFICATION ModesSpec
CONSTANTS
    Steps = {s}
    Engine = {s}
    Schema = {s}
    Reused = {}
    Others = {o1, o2}
    Retries = 1
    Cap = 2
    StablePolls = 2
    ReadyLooks = {"IDLE"}
    EndLooks = {"IDLE", "COMPLETED"}
    MaxTerms = 3
    Faults <- FaultKinds
    MaxFaults = 2
    NoTerm = NoTerm
    Providers <- Started
    Scripts <- Dialogs
    Inline = {"claude_code", "codex", "kimi_cli"}
    Gap = 4
    InitCap = 14
    Long = 16
    Window = 6
    SettleCap = 5
    Watch = 2
    QuitSleep = 3
    First = 4
    Pause = 2
INVARIANTS
    AnswersItsPrompt
    OnlyFailuresLeave
    TypedWhereMeant
    StartIsTrue
PROPERTIES
    VerdictOfEngine
    EveryStepSettles
CHECK_DEADLOCK FALSE
