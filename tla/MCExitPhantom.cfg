\* What a sweep makes of a position that was partly sold.
CONSTANTS
    Mints = {m1}
    Mode = "Scalp"
    Quotes <- MCQuotes
    Written <- MCWritten
    Realized <- MCRealized
    RaydiumDirect = FALSE
    ManualPcts = {}
    Units = 2
    CmdCap = 1
    SellCap = 1
    MaxAttempts = 2
    MaxBuys = 1
    Restarts = FALSE
SPECIFICATION Spec
PROPERTY
    StopLossMeansLoss
