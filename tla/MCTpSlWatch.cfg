\* One watched position in each trading mode, and its price feed.
CONSTANTS
    Modes = {"Snipe", "Scalp", "Hold"}
    Prices <- MCPrices
    Ages <- MCAges
    Hints <- MCHints
    Accounts <- MCAccounts
    PriceCap = 1
    Worth = 40
    Shrink = 1000
    Amounts <- MCAmounts
    Slippages = {0, 1, 500, 10000, 10001}
    Wrapped = 1000
SPECIFICATION FeedSpec
INVARIANTS
    TypeOK
    TierPrefix
    LossIsReal
    ProfitIsReal
    DirectSaleLands
    RoundTripLoses
PROPERTIES
    FullExitDemanded
    StaleHeals
