SPECIFICATION FairSpec
CONSTANTS
    Configs <- RevertConfigs
    HotProtocols <- MCHotProtocols
    Shadowsocks = "shadowsocks"
    NoUsers = "none"
    Method <- MCMethod
    Rejected <- MCRejected
    ManualCalls <- NoCalls
    ManualConfigs <- NoConfigs
    ManualUsers <- NoCalls
    None = None
PROPERTY UsersConverge
