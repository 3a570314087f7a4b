SPECIFICATION Spec
CONSTANTS
    Ids = {s1}
    MaxEntries = 1
    TTL = 0
    Persistent = TRUE
    Faults = FALSE
    MaxBytes = 2
    MaxRuntime = 3
    MaxNet = 1
    MaxGen = 3
    MaxFs = 4
    NoFile = NoFile
    Procs = {p1, p2, p3}
    None = None
    Ops = {"run", "cron", "shell", "read", "crash"}
    Preloaded = {s1}
    Quota = 1
    RuntimeLimit = 2
    Timeout = 2
    Drift = FALSE
SYMMETRY Interchangeable
INVARIANTS FsExclusive RuntimeWithinBudget
PROPERTIES UsageNeverShrinks StoreKeepsPromise
