\* Manual orders for positions whose sale failed.
CONSTANTS
    Mints = {m1}
    Mode = "Scalp"
    Quotes <- MCQuotes
    Written <- MCWritten
    Realized <- MCRealized
    RaydiumDirect = FALSE
    ManualPcts = {100}
    Units = 2
    CmdCap = 1
    SellCap = 1
    MaxAttempts = 2
    MaxBuys = 1
    Restarts = FALSE
SPECIFICATION Spec
PROPERTY
    ManualSellServed
