SPECIFICATION Spec
CONSTANTS
    NULL = NULL
    a1 = a1
    a2 = a2
    Review = Review
    Admins = {a1, a2}
    Requests <- StaleRequests
    Overlap = TRUE
    MaxInt = 9
    MaxTime = 2
    MaxTraffic = 2
    MaxCalls = 2
    MaxUsers = 1
    MaxFaults = 0
PROPERTY ResetsKeepDisabled
