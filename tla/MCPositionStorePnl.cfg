\* The PnL a closed row shows.
CONSTANTS
    Mints = {m1, m2}
    Ids = {i1, i2}
    Buyers = {b1, b2}
    MaxAttempts = 3
    NoPos = NoPos
SPECIFICATION Spec
SYMMETRY Symmetry
INVARIANT
    NoFantasyPnl

