SPECIFICATION FairSpec
CONSTANTS
    s1 = s1
    w1 = w1
    r1 = r1
    b1 = b1
    poolA = poolA
    poolB = poolB
    none = none
    Start = {s1}
    Worker = {w1}
    Refresh = {r1}
    Boot = {b1}
    Pool = {poolA, poolB}
    NoPool = none
    Size <- MCSize
    NoPayload = NoPayload
    NoAnswer = NoAnswer
    Failed = Failed
    NapiFails = TRUE
    DiskFails = FALSE
    CanCrash = FALSE
    Cleanup = TRUE
    Volatile = FALSE
PROPERTIES StartFailsOnlyWithoutPool MissingFileIsFetched PoolIsLearned
