SPECIFICATION FairSpec
CONSTANTS
    NULL = NULL
    a1 = a1
    a2 = a2
    Review = Review
    Admins = {a1}
    Requests <- HugeRequests
    Overlap = TRUE
    MaxInt = 9
    MaxTime = 2
    MaxTraffic = 2
    MaxCalls = 1
    MaxUsers = 1
    MaxFaults = 0
PROPERTY Enforced
