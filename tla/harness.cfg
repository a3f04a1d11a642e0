SPECIFICATION HarnessFairSpec
CONSTANTS
    Events <- MCEvents
    CoinbaseMaturity = 1
    Targets = {0, 1}
    MaxConnRetries = 2
CHECK_DEADLOCK FALSE
INVARIANTS
    Released
    MatureOutputs
PROPERTIES
    SyncEnds
    TearDownReturns
