SPECIFICATION FairSpec
CONSTANTS
    OutPoints = {o1, o2}
    Callers = {u1}
    CoinbaseMaturity = 1
    MaxBlocks = 2
    MaxDisconnects = 1
    MaxIndex = 2
    MaxBlockTxs = 1
CHECK_DEADLOCK FALSE
PROPERTY
    NewAddressReturns
