\* Three tokens, two buyers, one slot and a breaker that opens at two errors.
CONSTANTS
    Mints = {m1, m2, m3}
    Pipe = pipe
    Bots = {bot}
    Blacklist = {}
    Enrichments <- MCEnrichments
    Quotes <- MCQuotes
    NoMint = NoMint
    MaxPositions = 1
    LossLimit = 1
    ErrThreshold = 2
    MaxBuys = 3
SPECIFICATION Spec
SYMMETRY Symmetry
INVARIANTS
    TypeOK
    PositionsBounded
    StopHolds
    BreakerHolds
    CooldownHolds
