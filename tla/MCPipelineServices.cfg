CONSTANTS
    j1 = j1
    t1 = t1
    t2 = t2
    t3 = t3
    w1 = w1
    w2 = w2
    d1 = d1
    d2 = d2
    NoOwner = NoOwner
    Workers = {w1, w2}
    Tasks = {t1, t2, t3}
    Unified = {t3}
    DTasks = {d1, d2}
    Jobs = {j1}
    OwnerOf <- MCThreeTasks
    LeaseSeconds = 1
    MaxEpoch = 2
    MaxClock = 2
    MaxDeliveries = 3
    MaxFaults = 1
CHECK_DEADLOCK FALSE
SPECIFICATION Spec
SYMMETRY MCSymmetry
INVARIANTS
    TypeOK
    NoSilentLoss
    AckedIsHandedOver
    ResultWasCommitted
PROPERTY ImplementsWeakLifecycle
