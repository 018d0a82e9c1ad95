SPECIFICATION Spec
CONSTANTS
    m1 = m1
    m2 = m2
    p1 = p1
    p2 = p2
    NoOne = NoOne
    Members = {m1}
    Partitions = {p1, p2}
    MaxOffset = 2
    MaxPollRecords = 2
    Poison <- NoPoison
INVARIANT
    OnlyHandledCommitted
CHECK_DEADLOCK FALSE
