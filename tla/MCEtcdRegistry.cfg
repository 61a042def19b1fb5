SPECIFICATION Spec
CONSTANTS
    Caller = {app, other}
    MaxRetry = 2
    MaxCalls = 2
    MaxLeases = 3
    MaxFaults = 2
INVARIANTS
    EntryKept
    OneHeartbeat
PROPERTIES
    DeregisterSticks
    CloseStopsAll
CHECK_DEADLOCK FALSE
