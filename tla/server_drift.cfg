SPECIFICATION LiveSpec
CONSTANTS
    Ids = {s1, s2}
    MaxEntries = 1
    TTL = 0
    Persistent = FALSE
    Faults = FALSE
    MaxBytes = 2
    MaxRuntime = 1
    MaxNet = 0
    MaxGen = 4
    MaxFs = 4
    NoFile = NoFile
    Procs = {p1, p2}
    None = None
    Ops = {"run", "ssh", "cron", "import"}
    Preloaded = {s1}
    Quota = 1
    RuntimeLimit = 1
    Timeout = 1
    Drift = TRUE
INVARIANTS CapRespected RunsInSession
PROPERTIES RunsEndWithinQuota SwapHoldsExecMu RequestsFinish
