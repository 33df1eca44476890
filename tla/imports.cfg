CONSTANTS
    i1 = i1
    i2 = i2
    w1 = w1
    w2 = w2
    b1 = b1
    p1 = p1
    p2 = p2
    o1 = o1
    CountryCode <- MCCountryCode
    SubscriberLength = 2
    ChunkSize = 2
    Imports = {i1, i2}
    Files = {"census", "bare"}
    Content <- MCContent
    Targets = {b1}
    Bases = {b1}
    Partitions = {p1, p2}
    PartitionOf <- TwoPartitions
    Workers = {w1, w2}
    FirstOwner <- OneEach
    Operators = {o1}
    FaultSets <- OneGuardLeft
    MaxFaults = 1
SPECIFICATION FairSpec
INVARIANTS TypeOK LastCommitIsCurrent
PROPERTIES ImplementsContract EveryImportGetsOn
CHECK_DEADLOCK FALSE
