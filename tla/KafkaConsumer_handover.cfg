SPECIFICATION FairSpec
CONSTANTS
    m1 = m1
    m2 = m2
    p1 = p1
    p2 = p2
    NoOne = NoOne
    Members = {m1, m2}
    Partitions = {p1}
    MaxOffset = 2
    MaxPollRecords = 2
    Poison <- NoPoison
INVARIANTS
    CommitCovered
    HandledInOrder
    BatchOwned
    IndInv
PROPERTIES
    CommittedNeverRewinds
    HealthyRecordsHandled
    CancelEndsRun
CHECK_DEADLOCK FALSE
