CONSTANTS
    u1 = u1
    u2 = u2
    u3 = u3
    Users = {u1, u2, u3}
    SuperUser = u1
    SUPER_ADMIN = SUPER_ADMIN
    r1 = r1
    Roles = {SUPER_ADMIN, r1}
    SystemRoles = {SUPER_ADMIN}
    USER_MANAGE = USER_MANAGE
    other = other
    Actions = {USER_MANAGE, other}
    SeedGrants <- MCSeedGrants
    t1 = t1
    t2 = t2
    Threads = {t1, t2}
    Nobody = Nobody
    NoRole = NoRole
    MaxRequests = 5
SPECIFICATION Spec
INVARIANTS RolesInUseExist AuthorsRemain NoLockout EditsAreWhole
CHECK_DEADLOCK FALSE
