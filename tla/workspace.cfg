SPECIFICATION WorkspaceSpec
CONSTANTS
    Parts = {"git", "stash", "net", "hosts", "local"}
    Paths = {c1, c2}
    Contents = {v}
    Absent = Absent
    Empty = Empty
    Branches = {"main", "feat"}
    Master = "main"
    Tags = {"t"}
    WalkLimit = 1
    MaxCommits = 3
    MaxStash = 2
    QuotaFull = TRUE
    Conns = {c1, c2}
    Addrs = {"pub", "priv"}
    NoAddr = NoAddr
    Private = {"priv"}
    MaxRequests = 2
    MaxBytes = 1
    Chunk = 1
    MaxAge = 1
    MaxDials = 3
    Commands = {c1, c2}
    Hosts = {"h"}
    Keys = {"r1", "r2", "e1"}
    MaxEntries = 2
    Terminals = {p1}
    Pipes = {p2}
    MaxFiles = 1
    MaxRuntime = 2
    MaxLines = 2
    MaxStarts = 3
    AliasesFile = ".memsh_session_aliases"
    Dotted = {"a..b"}
    NoRecord = NoRecord
SYMMETRY Interchangeable
INVARIANTS UsageMetered ConnectedWithinPolicy AcceptedWasConfirmed
PROPERTIES RefsMoveForward StashKeepsWork SessionGoesOn
