SPECIFICATION FairSpec
CONSTANTS
    c1 = c1
    c2 = c2
    Call = {c1, c2}
    Latest = 2
    SizeOf <- MCSizeOf
    MaxFaults = 1
    MaxRefreshes = 1
INVARIANTS TypeOK
PROPERTIES AckConfirmsOffer ImplementsLease CnGetsAddress
