SPECIFICATION Spec
CONSTANTS
    Ids = {s1}
    MaxEntries = 1
    TTL = 0
    Persistent = FALSE
    Faults = FALSE
    MaxBytes = 2
    MaxRuntime = 0
    MaxNet = 0
    MaxGen = 5
    MaxFs = 5
    NoFile = NoFile
    Procs = {p1}
    None = None
    Ops = {"run", "delete"}
    Preloaded = {s1}
    Quota = 1
    RuntimeLimit = 0
    Timeout = 1
    Drift = TRUE
PROPERTIES OnlyClientsCreate
