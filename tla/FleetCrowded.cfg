SPECIFICATION FleetSpec
CONSTANTS
    m1 = m1
    m2 = m2
    \* InboundCatalog
    InTags = {1, 2}
    Protos = {"vless", "hysteria2"}
    Special = {"hysteria2"}
    Strict = {}
    Clerks = {m1, m2}
    MaxCatalogCalls = 0
    MaxFetched = 0
    MaxRank = 3
    Seed <- SeedDef
    \* CoreConfig
    Documents <- DocumentsDef
    Overrides <- OverridesDef
    FleetNodes = {"n"}
    FleetSpecs <- SpecsDef
    TagChoices = {{1}}
    PortChoices = {{}, {2, 3}}
    Savers = {m1, m2}
    MaxSaves = 0
    MaxRowsRead = 0
    \* ConfigLoad
    LoadNodes = {1, 2, 3, 4, 5, 6}
    Profile <- ProfileDef
    HostRows <- HostsDef
    Readings <- CrowdedDef
    DefaultCap = 10
    Names = {"name"}
    Answers <- AnswersDef
    Readers = {"r"}
    SortByLoad = TRUE
    HomeShare = 5
    SnapTTL = 1
    MaxStale = 3
    BuildTimeout = 1
    KeyTTL = 2
    DnsTTL = 2
    DnsFailTTL = 1
    MaxClock = 0
    MaxReports = 6
    MaxNodeEdits = 0
    \* Inbounds
    Clients = {1, 2}
    UserLists <- ListsDef
    UserSecrets = {1, 2}
    Unnamed = Unnamed
    NoSecret = NoSecret
    Nobody = Nobody
    MaxUpdates = 0
CHECK_DEADLOCK FALSE
INVARIANT NotFreerThanEveryNode
