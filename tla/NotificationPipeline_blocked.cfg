SPECIFICATION PipelineSpec
CONSTANTS
    p1 = p1
    NoOne = NoOne
    NoEvent = NoEvent
    Members = {m1}
    Workers = {m1}
    Partitions = {p1}
    Events = {e1, e2}
    Channels = {log}
    MaxOffset = 3
    MaxPollRecords = 2
    PartitionOf <- OnePartition
    Poison = {}
    OtherKinds <- InvalidOnly
INVARIANTS
    InvalidBlocks
    NotifiedInOrder
PROPERTIES
    DeliveryRefined
CHECK_DEADLOCK FALSE
