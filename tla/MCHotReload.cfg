SPECIFICATION Spec
CONSTANTS
    audit = audit
    logger = logger
    one = one
    two = two
    Provider <- MCProvider
    Logger = logger
    Hash = {one, two}
    Absent = Absent
    Settings <- MCSettings
    Bad = Bad
    Start <- MCStart
    MaxChanges = 2
    MaxFaults = 1
INVARIANTS
    CleanedOnce
    NothingReleasedInUse
    DriftTellsAll
PROPERTIES
    UndoEnds
CHECK_DEADLOCK FALSE
