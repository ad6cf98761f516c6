SPECIFICATION StartSpec
CONSTANTS
    ApiProcs = {"api"}
    BackendProcs = {"b1", "b2"}
    MaxStarts = 3
    MaxDbFaults = 0
CHECK_DEADLOCK FALSE
INVARIANT OneBackend
