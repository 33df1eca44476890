CONSTANTS
    r1 = r1
    r2 = r2
    r3 = r3
    w1 = w1
    w2 = w2
    zA = zA
    zB = zB
    Runs = {r1, r2, r3}
    Zones = {zA}
    Customers <- ThreeCustomers
    ZoneOf <- OneZone
    Quota <- TwoEach
    Barred <- NobodyBarred
    Workers = {w1, w2}
    Faults = {"abort", "expiry", "duplicate"}
    MaxFaults = 2
    MaxChanges = 0
SPECIFICATION FairSpec
INVARIANTS TypeOK
PROPERTIES ImplementsCycle AudienceIsGenerated
CHECK_DEADLOCK FALSE
