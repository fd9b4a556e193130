CONSTANTS
    j1 = j1
    t1 = t1
    t2 = t2
    t3 = t3
    w1 = w1
    w2 = w2
    d1 = d1
    d2 = d2
    NoOwner = NoOwner
    Workers = {w1, w2}
    Tasks = {t1}
    Unified = {}
    DTasks = {d1}
    Jobs = {j1}
    OwnerOf <- MCOneOwner
    LeaseSeconds = 1
    MaxEpoch = 1
    MaxClock = 0
    MaxDeliveries = 2
    MaxFaults = 0
CHECK_DEADLOCK FALSE
SPECIFICATION Spec
INVARIANT DownstreamAckedIsSuccess
