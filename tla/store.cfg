SPECIFICATION LiveStoreSpec
CONSTANTS
    Ids = {s1}
    MaxEntries = 1
    TTL = 1
    Persistent = TRUE
    Faults = FALSE
    MaxBytes = 1
    MaxRuntime = 1
    MaxNet = 1
    MaxGen = 2
    MaxFs = 2
    NoFile = NoFile
INVARIANTS TypeOK DurableState CwdFollowsTree
PROPERTIES StoreKeepsPromise AbandonedExpire
