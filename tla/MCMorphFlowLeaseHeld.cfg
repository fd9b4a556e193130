CONSTANTS
    j1 = j1
    t1 = t1
    t2 = t2
    w1 = w1
    w2 = w2
    d1 = d1
    NoOwner = NoOwner
    NoMessage = NoMessage
    Workers = {w1, w2}
    Tasks = {t1, t2}
    Unified = {t2}
    DTasks = {d1}
    Jobs = {j1}
    OwnerOf <- MCOwnerOf
    RoleOf <- MCRoleOf
    ModeOf <- MCModeOf
    Backoff <- MCBackoff
    RetryMax = 2
    LeaseSeconds = 4
    MaxEpoch = 4
    MaxClock = 5
    MaxDeliveries = 8
    MaxFaults = 1
CHECK_DEADLOCK FALSE
SPECIFICATION MSpec
INVARIANT ExpiredIsReclaimed
