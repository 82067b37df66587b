SPECIFICATION MCFairSpec
CONSTANTS
    c1 = c1
    c2 = c2
    m1 = m1
    t1 = t1
    own = own
    Call = {c1, c2}
    Timed = {c1}
    Mac = {m1}
    NoMac = NoMac
    Tag = {}
    NoTag = NoTag
    PoolTags = {}
    DefaultParams = DefaultParams
    Params <- MCParams
    Missing = Missing
    NoParams = NoParams
    NoPayload = NoPayload
    Size <- MCSize
    CanCrash = TRUE
    DiskFails = TRUE
    Volatile = TRUE
INVARIANTS TypeOK AtMostOneAnswer FreshIsStored
PROPERTIES AnsweredCallsLeaveCache ImplementsBootAnswers TimedCallsAnswered
CHECK_DEADLOCK FALSE
