SPECIFICATION FleetSpec
CONSTANTS
    m1 = m1
    m2 = m2
    \* InboundCatalog
    InTags = {1, 2}
    Protos = {"vless", "hysteria2"}
    Special = {"hysteria2"}
    Strict = {}
    Clerks = {m1, m2}
    MaxCatalogCalls = 2
    MaxFetched = 1
    MaxRank = 3
    Seed <- SeedDef
    \* CoreConfig
    Documents <- DocumentsDef
    Overrides <- OverridesDef
    FleetNodes = {"n"}
    FleetSpecs <- SpecsDef
    TagChoices = {{1}}
    PortChoices = {{}, {2, 3}}
    Savers = {m1, m2}
    MaxSaves = 3
    MaxRowsRead = 1
    \* ConfigLoad
    LoadNodes = {1, 2}
    Profile <- ProfileDef
    HostRows <- HostsDef
    Readings <- ReadingsDef
    DefaultCap = 10
    Names = {"name"}
    Answers <- AnswersDef
    Readers = {"r"}
    SortByLoad = TRUE
    HomeShare = 5
    SnapTTL = 1
    MaxStale = 3
    BuildTimeout = 1
    KeyTTL = 2
    DnsTTL = 2
    DnsFailTTL = 1
    MaxClock = 3
    MaxReports = 2
    MaxNodeEdits = 1
    \* Inbounds
    Clients = {1, 2}
    UserLists <- ListsDef
    UserSecrets = {1, 2}
    Unnamed = Unnamed
    NoSecret = NoSecret
    Nobody = Nobody
    MaxUpdates = 2
SYMMETRY Perms
CHECK_DEADLOCK FALSE
INVARIANT CatalogInv
INVARIANT CoreConfigIsSound
INVARIANT LoadIsHonest
INVARIANT InboundsAreExact
PROPERTY ImportsOnlyAdd
