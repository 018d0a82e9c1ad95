SPECIFICATION PipelineSpec
CONSTANTS
    p1 = p1
    NoOne = NoOne
    NoEvent = NoEvent
    Members = {m1, m2}
    Workers = {m1, m2}
    Partitions = {p1}
    Events = {e1}
    Channels = {log}
    MaxOffset = 2
    MaxPollRecords = 2
    PartitionOf <- OnePartition
    Poison = {}
    OtherKinds <- NoOthers
SYMMETRY Symmetry
INVARIANTS
    PipelineInv
    CommittedMeansNotified
CHECK_DEADLOCK FALSE
