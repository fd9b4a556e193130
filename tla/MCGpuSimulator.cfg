CONSTANTS
    i1 = i1
    i2 = i2
    i3 = i3
    i4 = i4
    Items = {i1, i2, i3, i4}
    Bad = {i1}
    MaxConcurrency = 2
    BatchSize = 2
CHECK_DEADLOCK FALSE
SPECIFICATION FairSpec
INVARIANTS
    TypeOK
    PendingIsHeld
    OneFlusher
    PermitsConserved
PROPERTIES
    CallFindsFlusher
    EventuallyReturns
