SPECIFICATION MCSpec
CONSTANTS
    c1 = c1
    c2 = c2
    m1 = m1
    t1 = t1
    own = own
    Call = {c1, c2}
    Timed = {c1, c2}
    Mac = {m1}
    NoMac = NoMac
    Tag = {t1}
    NoTag = NoTag
    PoolTags = {t1}
    DefaultParams = DefaultParams
    Params <- MCParams
    Missing = Missing
    NoParams = NoParams
    NoPayload = NoPayload
    Size <- MCSameSize
    CanCrash = FALSE
    DiskFails = FALSE
    Volatile = FALSE
SYMMETRY Symmetry
INVARIANTS FreshIsResolved QuietFileReadable
PROPERTIES KnownCnNotRefused
CHECK_DEADLOCK FALSE
