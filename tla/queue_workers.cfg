SPECIFICATION Spec
CONSTANTS
    w1 = w1
    w2 = w2
    py1 = py1
    py2 = py2
    go1 = go1
    go2 = go2
    Types <- IngestAndOrganize
    Ingest = "ingest"
    FollowUps <- OnlyOrganize
    Priority <- SamePriority
    MaxAttempts <- TwoAttempts
    Works = {w1}
    NoWork = NoWork
    Serials <- TwoSerials
    Requests <- AskIngest
    Workers = {py1, py2}
    Process <- Alone
    Python = {py1, py2}
    Handles <- ByKind
    MaxRunning <- One
    MaxCrashes = 0
    MaxReruns = 1
    NoOwner = NoOwner
    NoJob = NoJob
    Nobody = Nobody
    None = None
SYMMETRY TwoPython
INVARIANTS OneLivePerKind LostMeansLost ReadyMeansIngested
PROPERTIES StaleWorkerIsFenced
