SPECIFICATION Spec
CONSTANTS
    Steps = {s}
    Engine = {s}
    Schema = {s}
    Reused = {}
    Others = {o1, o2}
    Retries = 1
    Cap = 2
    StablePolls = 2
    ReadyLooks = {"IDLE", "COMPLETED"}
    EndLooks = {"IDLE", "COMPLETED"}
    MaxTerms = 3
    Faults = {}
    MaxFaults = 0
    NoTerm = NoTerm
INVARIANT
    AnswersItsPrompt
CHECK_DEADLOCK FALSE
