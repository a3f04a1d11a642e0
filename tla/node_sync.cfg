SPECIFICATION FairSpec
CONSTANTS
    NumNodes = 3
    Pairs <- MCPairs
    InitWanted <- MCInitWanted
    Txs = {t1}
    MaxHeight = 1
    MaxDrops = 1
CHECK_DEADLOCK FALSE
INVARIANTS
    JoinSawOneValue
PROPERTIES
    JoinBlocksReturns
    ConnectReturns
