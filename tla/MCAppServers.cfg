SPECIFICATION Spec
CONSTANTS
    c1 = c1
    c2 = c2
    d = d
    NoComp = NoComp
    Comp <- FewComps
    Declared <- OneDeclared
    CompName <- NameOf
    Mounter = {watch}
    Server = {h, t}
    CtxServer = {t}
    FixedServer = {t}
    StrictServer = {h}
    Watcher = watch
    NumEffects = 1
    NumHooks = 1
    MaxLoadFailures = 1
INVARIANTS
    IInv
    OrderlyStop
    OutcomeTruthful
    CancelIsClean
    NothingRunsAfterReturn
PROPERTIES
    RunReturns
