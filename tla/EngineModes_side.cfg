SPECIFICATION ModesSpec
CONSTANTS
    N = 3
    Retries <- MCRetries
    ContinueOnFailure = {1}
    WithSchema = {2}
    Templated = {2, 3}
    StrayErrors = TRUE
    FailingReads = FALSE
    Recs = {r1, r2}
    NoRec = NoRec
    MaxDrops = 2
    MaxCrashes = 2
    n = n
    o1 = o1
    o2 = o2
    r1 = r1
    Adapters <- KnownAdapters
    Names = {n}
    Catalog = {n}
    Collections = {}
    Ops = {o1}
    Readers = {}
    Slots = 1
    Ring = 1
    Hosts <- AllHosts
    Requests <- AllRequests
    Faults = {}
    None = None
INVARIANTS
    NoDoubleDrive
    CancelledNeverCompletes
    JournalAgrees
PROPERTIES
    NoRerunOfJournaledStep
    LifecycleSpec
    DriveEnds
    VerdictIsTrue
    OpSettles
CHECK_DEADLOCK FALSE
