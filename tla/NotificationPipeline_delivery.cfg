SPECIFICATION FairPipelineSpec
CONSTANTS
    p1 = p1
    NoOne = NoOne
    NoEvent = NoEvent
    Members = {m1}
    Workers = {m1}
    Partitions = {p1}
    Events = {e1}
    Channels = {log}
    MaxOffset = 2
    MaxPollRecords = 2
    PartitionOf <- OnePartition
    Poison = {}
    OtherKinds <- UnknownOnly
PROPERTIES
    EveryOrderNotified
CHECK_DEADLOCK FALSE
