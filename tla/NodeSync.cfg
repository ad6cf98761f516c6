SPECIFICATION FairSpec
CONSTANTS
    Configs <- MCConfigs
    HotProtocols <- MCHotProtocols
    Shadowsocks = "shadowsocks"
    NoUsers = "none"
    Method <- MCMethod
    Rejected <- MCRejected
    ManualCalls <- AllCalls
    ManualConfigs <- ByHandConfigs
    ManualUsers <- ManualLists
    None = None
INVARIANT RunningIsLastPulled
INVARIANT ComparisonIsSound
PROPERTY Converges
PROPERTY ImplementsDelivery
