CONSTANTS
    q1 = q1
    q2 = q2
    q3 = q3
    Requests = {q1, q2, q3}
    ProcessingTtl = 1
    Ttl = 2
    SlowRequests = TRUE
    MaxFaults = 1
CHECK_DEADLOCK FALSE
SPECIFICATION FairSpec
INVARIANTS
    TypeOK
    ReplyIsCommitted
    ReservationsApart
    DuplicatesNeedAFault
PROPERTY EventuallyAccepted
