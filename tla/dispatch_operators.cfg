CONSTANTS
    m1 = m1
    m2 = m2
    p1 = p1
    p2 = p2
    Messages = {m1, m2}
    Partitions = {p1}
    PartitionOf <- OnePartition
    MaxAttempts = 1
    Faults = {}
    MaxStarts = 1
    MaxPauses = 1
    MaxRetries = 1
    MaxFaults = 0
SYMMETRY Symmetry
SPECIFICATION Spec
INVARIANTS FinishedRunHoldsNoWork
PROPERTIES SettledNeedsOperator ImplementsContract
CHECK_DEADLOCK FALSE
