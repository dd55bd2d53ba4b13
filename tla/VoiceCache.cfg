SPECIFICATION FairSpec
CONSTANTS
    Tasks = {flush, e1, e2}
    Once = {e1, e2}
    FlushTask = flush
    Models = {m1}
    Ttl = 2
    NoTask = NoTask
INVARIANTS
    TypeOK
    BlocksFreedOnceUnlessSpoiled
    CacheExpiresUnlessFaulted
    DuplicateIsRecent
    OneExpiryPending
PROPERTIES
    UnloadEndsUnlessStarved
CHECK_DEADLOCK FALSE
