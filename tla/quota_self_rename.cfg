SPECIFICATION Spec
CONSTANTS
    Commands = {c1}
    Names = {a, b}
    Inodes = {f1, f2, f3}
    Nothing = Nothing
    maxBytes = 2
    maxFiles = 1
    MaxSize = 3
    Overlap = FALSE
    RefundTwice = TRUE
    AppendStale = FALSE
INVARIANTS QuotaEnforced
