SPECIFICATION CountingSpec
CONSTANTS
    \* ConnTracking
    c1 = c1
    c2 = c2
    Conns = {c1, c2}
    UserOf <- MCUserOf
    PortOf <- MCPortOf
    Carriers = {c2}
    Total = "total"
    NoPort = "none"
    MaxCores = 3
    \* ResellerBilling
    a1 = a1
    a2 = a2
    n1 = n1
    Admins = {a1, a2}
    Handlers = {n1}
    MaxUsage <- MCMaxUsage
    MaxFaults = 2
    MaxSettings = 1
    MaxResets = 1
CHECK_DEADLOCK FALSE
INVARIANT CountsAreExact
INVARIANT NoneOutlivesItsCore
INVARIANT NothingLost
INVARIANT ChargedOnce
PROPERTY ClosedCoreDrains
PROPERTY EverythingIsBilled
PROPERTY ImplementsLedger
