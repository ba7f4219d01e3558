SPECIFICATION Spec
CONSTANTS
    Creations = {c1, c2}
    Admin = Admin
    AdminName = name1
    AdminEmail = mail1
    AdminRole = admin
    Names = {name1, name2}
    Emails = {mail1, mail2, mail3}
    Roles = {admin, engineer}
    MaxRequests = 4
    Tokens = {t1, t2, t3}
    NoToken = NoToken
    Requests = {r1, r2, r3}
    TicksPerSecond = 2
    LifeSeconds = 2
    MaxTime = 5
    RedisFaults = {"unavailable", "eviction"}
SYMMETRY Symmetry
INVARIANTS
    TypeOK
    NamesIdentify
    RevokedUntilLastSecond
    LogoutIsSeen
    SessionKeepsIdentity
PROPERTIES
    SessionsFrozen
CHECK_DEADLOCK FALSE
