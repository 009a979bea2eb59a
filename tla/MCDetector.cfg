\* Two mints, channels of capacity two, two and one, room for two signatures and
\* three transactions, a cleanup every second round, and four events from outside:
\* messages, failures and ends of streams. Without events the detector rests.
SPECIFICATION Spec
CONSTANTS
    m1 = m1
    m2 = m2
    Mints = {m1, m2}
    Wsol = Wsol
    NoEntry = NoEntry
    Reports <- MCReports
    Transactions <- MCTransactions
    RawCap = 2
    InCap = 2
    OutCap = 1
    CleanupEvery = 2
    DedupCapacity = 2
    MaxBackoff = 4
    MaxEvents = 4
INVARIANTS
    TypeOK
    SuppressedOnlyRepeats
    MigrationIntact
    BackoffFits
PROPERTIES
    EmittedOnce
    PumpPortalWins
    DrainsWithoutAnalyzer
    Reconnects
CHECK_DEADLOCK FALSE
