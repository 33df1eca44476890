CONSTANTS
    m1 = m1
    m2 = m2
    p1 = p1
    p2 = p2
    Messages = {m1, m2}
    Partitions = {p1}
    PartitionOf <- OnePartition
    MaxAttempts = 1
    Faults = {"scheduler", "dispatcher", "relay", "checker"}
    MaxStarts = 1
    MaxPauses = 0
    MaxRetries = 0
    MaxFaults = 1
SPECIFICATION FairSpec
INVARIANTS NothingStranded CompletionPending
PROPERTIES RunSettles
CHECK_DEADLOCK FALSE
