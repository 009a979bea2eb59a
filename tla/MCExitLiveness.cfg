\* One token bought once, and what it takes to get out of it.
CONSTANTS
    Mints = {m1}
    Mode = "Snipe"
    Quotes <- MCQuotes
    Written <- MCWritten
    Realized <- MCRealized
    RaydiumDirect = TRUE
    ManualPcts = {100}
    Units = 1
    CmdCap = 1
    SellCap = 1
    MaxAttempts = 2
    MaxBuys = 1
    Restarts = FALSE
SPECIFICATION Spec
PROPERTY StopLossExits
