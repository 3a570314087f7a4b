SPECIFICATION Spec
CONSTANTS
    DirNames = {"d"}
    Dotted = {"a..b"}
    Values = {"v"}
    Nothing = "nothing"
    QuotaFull = FALSE
    MaxNodes = 4
    MaxEntries = 0
INVARIANTS SnapshotsRestore
