SPECIFICATION PanelsSpec
CONSTANTS
    m1 = m1
    m2 = m2
    p1 = p1
    p2 = p2
    t1 = t1
    \* Gateway
    Panels = {m1, m2}
    MaxWrites = 5
    MaxPushes = 2
    MaxRotations = 1
    \* PeerHosts
    Sites = {m1, m2}
    Entries = {p1, p2}
    SiteHosts <- HostsDef
    UserProtos = {"vless"}
    SiteNodes = {1}
    Crowds = {1}
    StatusTTL = 2
    StaleAfter = 1
    MaxEdits = 2
    MaxSamples = 2
    \* Restore
    Tellers = {t1}
    Operators = {m1, m2}
    OldAdmins <- AdminsDef
    OldUsers <- UsersDef
    BackupKeep = 1
    MaxRows = 2
    MaxTogether = 1
    MaxDumps = 2
    MaxUpsets = 1
    \* PanelStart
    ApiProcs = {t1}
    BackendProcs = {m1, m2}
    MaxStarts = 5
    MaxDbFaults = 2
    \* NodeConfigCache
    Parts = {"inbounds", "users"}
    Profiles = {p1, p2}
    Polls = {m1, m2}
    MaxChanges = 1
    TTL = 1
    MaxTime = 1
SYMMETRY Perms
CHECK_DEADLOCK FALSE
INVARIANT GatewayIsSound
INVARIANT PeerHostsAreSound
INVARIANT RestoreSafe
INVARIANT StartIsSound
INVARIANT CurrentIsExact
INVARIANT AnswersAreFresh
