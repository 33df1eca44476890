CONSTANTS
    u1 = u1
    u2 = u2
    e1 = e1
    e2 = e2
    e3 = e3
    t1 = t1
    t2 = t2
    Nobody = Nobody
    Users = {u1, u2}
    Emails = {e1, e2, e3}
    FirstEmail <- OneEach
    Reachable = {u1}
    Threads = {t1, t2}
    MaxAttempts = 2
    CodeLife = 1
    IdleLimit = 1
    TokenLife = 2
    Bounds <- MCBounds
SPECIFICATION FairSpec
INVARIANTS TypeOK SecondFactor PasswordByOwnCode AttemptsBounded
PROPERTIES EverySessionEnds
