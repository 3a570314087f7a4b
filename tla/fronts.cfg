SPECIFICATION FrontsSpec
CONSTANTS
    Shells = {g1, g2}
    Nobody = Nobody
    Handlers = {h1, h2}
    Clients = {"a", "b"}
    limit = 1
    window = 2
    LoopbackOnly = TRUE
    CORSOrigin = "listed"
    APIKey = TRUE
    Pooled = {p1, p2, p3}
    maxSessions = 2
    sessionGrace = 1
    SlowBind = FALSE
    Conns = {c1, c2, c3}
    Addresses = {a1}
    maxConns = 2
    authFailLimit = 2
    authFailWindow = 2
    DirNames = {"d", "e"}
    Dotted = {}
    Values = {"v"}
    Nothing = "nothing"
    QuotaFull = TRUE
    MaxNodes = 6
    MaxEntries = 2
    MaxChars = 3
    MaxText = 3
    MaxNumber = 2
INVARIANTS TransportsKept MiddlewareHolds PoolKept FrontHolds TreesShown
PROPERTIES GitTurns ShellsClose LockoutEnds KeepsFiles TextsKept
