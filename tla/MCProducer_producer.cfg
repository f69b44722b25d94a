CONSTANTS
    u1 = u1
    u2 = u2
    NoUser = NoUser
    Users <- TwoUsers
    Partitions <- TwoPartitions
    PartitionOf <- Hashed
    QueueLimit = 2
    MaxCalls = 4
    MaxFaults = 2
    FaultKinds = {"kill", "delivery"}
SPECIFICATION FairSpec
INVARIANTS
    TypeOK
    CountersAgree
    DeliveredIsStored
    InCallOrder
PROPERTIES
    NothingDropped
    StopEnds
