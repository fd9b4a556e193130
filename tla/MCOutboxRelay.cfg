CONSTANTS
    r1 = r1
    r2 = r2
    Relays = {r1, r2}
    BatchSize = 2
    MaxId = 4
    MaxOpen = 2
    Poison = {3}
    MaxFaults = 1
SPECIFICATION FairSpec
CHECK_DEADLOCK FALSE
INVARIANTS
    TypeOK
    PublishedIsAccepted
    AcceptedIsCommitted
    LiveBatchesAreDisjoint
    DuplicatesNeedAFault
    OvertakesOnlySkippedRows
PROPERTIES
    EventuallyPublished
