SPECIFICATION FairSpec
CONSTANTS
    OutPoints = {o1, o2}
    Callers = {u1}
    CoinbaseMaturity = 1
    MaxBlocks = 2
    MaxDisconnects = 1
    MaxIndex = 2
    MaxBlockTxs = 2
CHECK_DEADLOCK FALSE
PROPERTIES
    ImplementsView
    BlocksGetApplied
    StopReturns
    SignallersExit
    DeadlinesBreakDeadlock
