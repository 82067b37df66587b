SPECIFICATION Spec
CONSTANTS
    m1 = m1
    m2 = m2
    Mac = {m1, m2}
    AdminNics = {m1, m2}
    PoolNics = {}
    Concurrency = 2
    MaxAge = 2
    ServicesFail = FALSE
    ServicesSlow = FALSE
    InventoryChanges = TRUE
    CanCrash = FALSE
PROPERTIES OnlyOldPurged
CHECK_DEADLOCK FALSE
