SPECIFICATION ToolsSpec
CONSTANTS
    Commands = {c1, c2}
    Names = {a, b, c}
    Inodes = {f1, f2, f3}
    Nothing = Nothing
    maxBytes = 1
    maxFiles = 2
    MaxSize = 2
    Overlap = FALSE
    RefundTwice = FALSE
    AppendStale = FALSE
    Parts = {"quota", "wasm", "commands", "run", "patch", "cron", "sqlite"}
    Calls = {w1, w2}
    Files = {x, y}
    NoFile = NoFile
    MaxFd = 3
    CommandNames = {"cat", "lua", "py"}
    Defaults = {"cat"}
    Gated = {"lua"}
    OnVirtual = {"py", "lua"}
    OnHost = {"py", "cat"}
    Broken = {}
    MaxOptions = 3
    ShellStart <- StartW
    Tree <- SmallTree
    Relative = {"..", "d"}
    MaxSource = 1
    LostUpdates = FALSE
    QuotaFull = TRUE
    Lines = {"x", "y", "-- z"}
    Dashed = {"-- z"}
    MaxLines = 3
    Contexts = {0, 1}
    Crontabs <- SomeCrontabs
    Today = 5
    MaxTime = 2
    Procs = {p1, p2}
    MaxText = 4
    MaxStmts = 2
    NoDb = NoDb
SYMMETRY Interchangeable
INVARIANTS QuotaKept FdsKeptApart  DiffsAreTrue JobsRun BatchesKept
PROPERTIES PlacesAgree
CHECK_DEADLOCK FALSE
