CONSTANTS
    t1 = t1
    t2 = t2
    t3 = t3
    w1 = w1
    w2 = w2
    NoOwner = NoOwner
    Workers = {w1, w2}
    Tasks = {t1, t2, t3}
    j1 = j1
    Jobs = {j1}
    OwnerOf <- MCOwnerOf
    LeaseSeconds = 3
    MaxSkew = 1
    MaxEpoch = 3
    MaxClock = 5
CHECK_DEADLOCK FALSE
SPECIFICATION Spec
SYMMETRY MCSymmetry
INVARIANTS
    TypeOK
    ExclusiveWithinLease
    TokensDiffer
    ResultOfLatestAttempt
    LogAgreesWithRow
    AckedIsDoneOrSuperseded
PROPERTIES
    SuccessIsFinal
    ImplementsLifecycle
