CONSTANTS
    r1 = r1
    r2 = r2
    r3 = r3
    w1 = w1
    w2 = w2
    zA = zA
    zB = zB
    Runs = {r1, r2}
    Zones = {zA, zB}
    Customers <- FourCustomers
    ZoneOf <- TwoZones
    Quota <- OneOrTwo
    Barred <- SecondBars
    Workers = {w1, w2}
    Faults = {"abort", "expiry", "evict", "duplicate"}
    MaxFaults = 1
    MaxChanges = 2
SPECIFICATION Spec
INVARIANTS QuotaRespected NoDoubleSelect
PROPERTIES ReadyIsFinal
SYMMETRY Symmetry
CHECK_DEADLOCK FALSE
