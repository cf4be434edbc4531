SPECIFICATION Spec
CONSTANTS
    N = 2
    Retries <- MCRetries
    ContinueOnFailure = {1}
    WithSchema = {2}
    Templated = {}
    StrayErrors = TRUE
    FailingReads = FALSE
    Recs = {r1, r2}
    NoRec = NoRec
    MaxDrops = 0
    MaxCrashes = 0
INVARIANTS
    NoStrandedRecord
CHECK_DEADLOCK FALSE
