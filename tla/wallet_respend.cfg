SPECIFICATION Spec
CONSTANTS
    OutPoints = {o1, o2}
    Callers = {u1}
    CoinbaseMaturity = 1
    MaxBlocks = 3
    MaxDisconnects = 1
    MaxIndex = 3
    MaxBlockTxs = 1
CHECK_DEADLOCK FALSE
INVARIANT
    NoDoubleSpend
