SPECIFICATION Spec
CONSTANTS
    MaxStarts = 1
    MaxFaults = 3
INVARIANTS
    PanicsExplained
    DropNoticed
PROPERTIES
    SubscriberResumes
    EndsAfterStop
CHECK_DEADLOCK FALSE
