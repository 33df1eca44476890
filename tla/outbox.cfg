CONSTANTS
    a = a
    Relays = {a}
    BATCH_SIZE = 2
    MaxEvents = 4
    MaxFaults = 2
SPECIFICATION FairSpec
INVARIANTS CausesFirst PublishedHasArrived
PROPERTIES EveryEventArrives
CHECK_DEADLOCK FALSE
