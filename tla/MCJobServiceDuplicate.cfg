CONSTANTS
    q1 = q1
    q2 = q2
    q3 = q3
    Requests = {q1, q2}
    ProcessingTtl = 2
    Ttl = 3
    SlowRequests = FALSE
    MaxFaults = 1
SPECIFICATION Spec
INVARIANT RepeatMakesNoJob
