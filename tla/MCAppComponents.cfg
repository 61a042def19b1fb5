SPECIFICATION Spec
CONSTANTS
    c1 = c1
    c2 = c2
    d = d
    NoComp = NoComp
    Comp <- AllComps
    Declared <- TwoDeclared
    CompName <- NameOf
    Mounter = {watch, admin}
    Server = {}
    CtxServer = {}
    FixedServer = {}
    StrictServer = {}
    Watcher = watch
    NumEffects = 1
    NumHooks = 2
    MaxLoadFailures = 1
INVARIANTS
    SingleOwner
    EffectsReversed
PROPERTIES
    ContractKept
    StopsInReverse
