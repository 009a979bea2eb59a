\* A buy that fails on the chain while the wallet holds older tokens.
CONSTANTS
    Mints = {m1, m2}
    Pipe = pipe
    Bots = {bot}
    Blacklist = {m2}
    Enrichments <- MCEnrichments
    Quotes <- MCQuotes
    NoMint = NoMint
    MaxPositions = 1
    LossLimit = 1
    ErrThreshold = 5
    MaxBuys = 3
SPECIFICATION Spec
PROPERTY
    NoPhantom
