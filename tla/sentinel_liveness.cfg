SPECIFICATION FairSpec
CONSTANTS
    m1 = m1
    m2 = m2
    Mac = {m1}
    AdminNics = {m1}
    PoolNics = {m1}
    Concurrency = 1
    MaxAge = 2
    ServicesFail = TRUE
    ServicesSlow = TRUE
    InventoryChanges = TRUE
    CanCrash = FALSE
INVARIANTS OneTimerEach
PROPERTIES PurgeAfterGoodRefresh ObsoleteFilesRemoved
CHECK_DEADLOCK FALSE
