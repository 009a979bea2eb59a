\* One token bought twice, channels of capacity one, crashes at any time.
CONSTANTS
    Mints = {m1}
    Mode = "Scalp"
    Quotes <- MCQuotes
    Written <- MCWritten
    Realized <- MCRealized
    RaydiumDirect = FALSE
    ManualPcts = {100}
    Units = 2
    CmdCap = 1
    SellCap = 1
    MaxAttempts = 2
    MaxBuys = 2
    Restarts = TRUE
SPECIFICATION Spec
INVARIANTS
    TypeOK
    SoldMeansEmpty
PROPERTIES
    TierOnce
    EchoHarmless
