CONSTANTS
    p1 = p1
    q1 = q1
    c1 = c1
    c2 = c2
    NoConsumer = NoConsumer
    Consumers = {c1, c2}
    MainPartitions = {p1}
    RetryPartitions = {q1}
    InitialLog <- MCLog
    MayBePoison = {2}
    RetryMax = 1
    BackoffBase = 1
    BackoffMultiplier = 2
    BackoffMax = 2
    MaxRecords = 2
    MaxClock = 1
    MaxFaults = 1
CHECK_DEADLOCK FALSE
SPECIFICATION FairSpec
INVARIANTS
    TypeOK
    NothingSkipped
    PauseWaitsForItsMessage
    RereadingNeedsAFault
PROPERTIES
    ImplementsDelivery
    EventuallySettled
