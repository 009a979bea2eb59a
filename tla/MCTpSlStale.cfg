\* The time stop while prices are stale.
CONSTANTS
    Modes = {"Snipe"}
    Prices <- MCPrices
    Ages <- MCAges
    Hints <- MCHints
    Accounts <- MCAccounts
    PriceCap = 1
    Worth = 40
    Shrink = 1000
    Amounts <- MCAmounts
    Slippages = {0, 1, 500, 10000, 10001}
    Wrapped = 1000
SPECIFICATION FeedSpec
PROPERTY
    TimeStopStillFires
