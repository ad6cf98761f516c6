SPECIFICATION FairSpec
CONSTANTS
    NULL = NULL
    a1 = a1
    a2 = a2
    Review = Review
    Admins = {a1, a2}
    Requests <- OverlapRequests
    Overlap = TRUE
    MaxInt = 9
    MaxTime = 2
    MaxTraffic = 1
    MaxCalls = 2
    MaxUsers = 2
    MaxFaults = 1
PROPERTY StaleCallersAreHarmless
PROPERTY Enforced
PROPERTY HoldsEnd
