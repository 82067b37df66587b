SPECIFICATION Spec
CONSTANTS
    m1 = m1
    m2 = m2
    Mac = {m1, m2}
    AdminNics = {m1, m2}
    PoolNics = {m1}
    Concurrency = 2
    MaxAge = 2
    ServicesFail = FALSE
    ServicesSlow = FALSE
    InventoryChanges = TRUE
    CanCrash = TRUE
INVARIANTS TypeOK
PROPERTIES SuccessMeansWritten PurgeSparesCurrent
CHECK_DEADLOCK FALSE
