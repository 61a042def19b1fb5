SPECIFICATION CacheSpec
CONSTANTS
    Caller = {a, b, c}
    None = None
    Unread = Unread
    Error = Error
    Token = Token
    MaxWrites = 2
    MaxTakes = 2
    MaxFaults = 1
INVARIANTS
    StaleExplained
    OneWinner
SYMMETRY Symmetry
