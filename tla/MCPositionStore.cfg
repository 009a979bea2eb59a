\* One token bought up to three times by two concurrent buyers, with the TP/SL
\* monitor, the sell executor, database errors and crashes.
CONSTANTS
    Mints = {m1}
    Ids = {i1, i2, i3}
    Buyers = {b1, b2}
    MaxAttempts = 2
    NoPos = NoPos
SPECIFICATION Spec
SYMMETRY Symmetry
INVARIANTS
    TypeOK
    MemDbAgree
PROPERTIES
    GhostsOnlyByFailure
    ClosedStaysClosed
    OpenNotReplaced
    ImplementsLedger
