SPECIFICATION AccountsSpec
CONSTANTS
    m1 = m1
    m2 = m2
    u1 = u1
    u2 = u2
    w1 = w1
    w2 = w2
    \* AdminAuth
    NoAdmin = NoAdmin
    Callers = {m1, m2}
    Passwords = {w1, w2}
    VerifyMax = 1
    MaxClock = 3
    MaxAdminOps = 2
    \* LoginLimit
    Logins = {1, 2}
    LoginMax = 2
    MaxBlind = 1
    \* UserLinks
    Clerks = {m1, m2}
    UserNames = {u1, u2}
    LinkProtos = {"vless"}
    TagsOf <- TagsDef
    VisionProtos = {"vless"}
    UsersLimit = 1
    Parts = 2
    MaxNow = 4
    MaxLinks = 2
    MaxLinkWrites = 2
    \* Presence
    LiveNodes = {m1, m2}
    Viewed = {"u"}
    Owned = {"u"}
    Scopes = {"reseller"}
    Window = 1
    KeyTTL = 2
    NodesTTL = 1
    DbWindow = 3
    Retention = 2
    ReportEvery = 1
    MaxTurns = 3
SYMMETRY Perms
CHECK_DEADLOCK FALSE
INVARIANT AuthIsSound
INVARIANT LockoutIsSound
INVARIANT LinksAreSound
INVARIANT PresenceIsSound
