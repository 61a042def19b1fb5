SPECIFICATION Spec
CONSTANTS
    x1 = x1
    x2 = x2
    x3 = x3
    y1 = y1
    y2 = y2
    y3 = y3
    z1 = z1
    z2 = z2
    z3 = z3
    NoComp = NoComp
    Comp <- AllComps
    Declared <- NoneDeclared
    CompName <- NameOf
    Mounter = {run, watch}
    Recon <- TwoRecons
    Setting <- Settings
    Runner = run
    Watcher = watch
    MaxChanges = 2
INVARIANTS
    TableTruthful
    Settled
PROPERTIES
    StopReturns
