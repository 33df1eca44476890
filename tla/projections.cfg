CONSTANTS
    m1 = m1
    p1 = p1
    p2 = p2
    l1 = l1
    l2 = l2
    zA = zA
    zB = zB
    a1 = a1
    a2 = a2
    w1 = w1
    w2 = w2
    None = None
    Unspecified = Unspecified
    Customers = {1, 2}
    Products = {p1, p2}
    Lists = {l1, l2}
    Zones = {zA, zB}
    Home <- MCHome
    Callers = {a1, a2}
    Workers = {w1, w2}
    Messages = {m1}
    Scenarios <- MCScenarios
SPECIFICATION FairSpec
INVARIANTS PreviewAgrees
PROPERTIES SyncTellsTheTruth RollupSettles
CHECK_DEADLOCK FALSE
