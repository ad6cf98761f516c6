SPECIFICATION UsageSpec
CONSTANTS
    Users = {"alice", "bob"}
    Owned = {"alice"}
    MaxBytes = 1
    MaxReports = 2
    MaxEvents = 2
CHECK_DEADLOCK FALSE
INVARIANT NothingDropped
PROPERTY UsageAddsUp
