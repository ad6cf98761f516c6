SPECIFICATION ConsoleSpec
CONSTANTS
    ann = ann
    bob = bob
    \* TelegramPoller
    Accounts = {"x", "y"}
    Listed = {"x"}
    AdminNames <- AdminNamesDef
    Bound <- BoundDef
    MaxQueued = 1
    Burst = 1
    MaxSent = 2
    MaxChanges = 1
    MaxStarts = 1
    \* TelegramConsole
    Names = {ann, bob}
    Amounts = {1}
    IsSudo = TRUE
    HasTemplate = TRUE
    MaxAmount = 1
    MaxMessages = 2
    MaxTroubles = 1
    \* UserLifecycle
    NULL = NULL
    a1 = a1
    a2 = a2
    Review = Review
    Admins = {a1}
    Requests <- SerialRequests
    Overlap = FALSE
    MaxInt = 9
    MaxTime = 3
    MaxTraffic = 1
    MaxCalls = 3
    MaxUsers = 1
    MaxFaults = 1
SYMMETRY Perms
CHECK_DEADLOCK FALSE
INVARIANT TapsAreSafe
INVARIANT ChatIsSafe
INVARIANT StatusIsSound
PROPERTY DisabledStays
