CONSTANTS
    m1 = m1
    m2 = m2
    p1 = p1
    p2 = p2
    Messages = {m1}
    Partitions = {p1}
    PartitionOf <- OnePartition
    MaxAttempts = 2
    Faults = {"scheduler", "dispatcher", "exception", "retry", "relay", "checker", "resume"}
    MaxStarts = 1
    MaxPauses = 1
    MaxRetries = 1
    MaxFaults = 1
SPECIFICATION Spec
INVARIANTS CallsAccounted AttemptsBounded
PROPERTIES ImplementsContract
CHECK_DEADLOCK FALSE
