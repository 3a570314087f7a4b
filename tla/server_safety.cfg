SPECIFICATION Spec
CONSTANTS
    Ids = {s1}
    MaxEntries = 1
    TTL = 0
    Persistent = FALSE
    Faults = TRUE
    MaxBytes = 1
    MaxRuntime = 1
    MaxNet = 0
    MaxGen = 2
    MaxFs = 2
    NoFile = NoFile
    Procs = {p1, p2}
    None = None
    Ops = {"run", "shell", "cron", "delete", "reap"}
    Preloaded = {}
    Quota = 0
    RuntimeLimit = 0
    Timeout = 1
    Drift = FALSE
SYMMETRY Interchangeable
PROPERTIES OnlyClientsCreate
