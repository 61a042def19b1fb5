SPECIFICATION PlanSpec
CONSTANTS
    Key = {1, 2, 3, 4}
    LoggerKey = 2
    All = 0
    Declarations <- MCDeclarations
INVARIANTS
    OrderCanonical
    TeardownExplained
