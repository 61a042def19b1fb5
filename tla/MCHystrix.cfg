SPECIFICATION Spec
CONSTANTS
    a = a
    b = b
    Client <- TwoClients
    Window = 4
    BucketCount = 2
    SleepWindow = 2
    Volume = 2
    ErrNum = 1
    ErrDen = 2
    MaxTime = 8
    MaxCalls = 5
INVARIANTS
    NoSampleLost
    NoLockout
PROPERTIES
    TripsOnFreshSamples
    TrialEnds
