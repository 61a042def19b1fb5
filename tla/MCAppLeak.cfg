SPECIFICATION Spec
CONSTANTS
    c1 = c1
    c2 = c2
    d = d
    NoComp = NoComp
    Comp <- AllComps
    Declared <- TwoDeclared
    CompName <- NameOf
    Mounter = {watch, admin}
    Server = {}
    CtxServer = {}
    FixedServer = {}
    StrictServer = {}
    Watcher = watch
    NumEffects = 0
    NumHooks = 1
    MaxLoadFailures = 0
INVARIANT NoComponentOutlivesRun
