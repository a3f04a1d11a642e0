SPECIFICATION Spec
CONSTANTS
    OutPoints = {o1, o2}
    Callers = {u1, u2}
    CoinbaseMaturity = 1
    MaxBlocks = 3
    MaxDisconnects = 2
    MaxIndex = 2
    MaxBlockTxs = 2
SYMMETRY Symmetry
CHECK_DEADLOCK FALSE
INVARIANTS
    TypeOK
    UtxosMatchChain
    SignalsCoverQueue
    JournalCoversApplied
    AddressesContiguous
    SelectionStaysSpendable
    OutstandingInputsLocked
    LocksAccounted
    MaturityRecorded
    SyncedHeightNotBehind
