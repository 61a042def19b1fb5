SPECIFICATION SseSpec
CONSTANTS
    MaxReqs = 2
    MaxEvents = 3
    MaxRemoves = 1
    ConnBuffer = 1
    Options <- MCOptions
INVARIANTS
    Delivery
    CountExact
PROPERTIES
    RequestsEnd
CHECK_DEADLOCK FALSE
