SPECIFICATION FairSpec
CONSTANTS
    TicketsPerBlock = 2
    CoinbaseMaturity = 1
    TicketMaturity = 1
    StakeValidationHeight = 5
    BufferLen = 2
    MaxHeight = 6
    MaxCall = 2
    MaxFaults = 1
CHECK_DEADLOCK FALSE
INVARIANTS
    CoinsConserved
    ChainContinues
    PanicOnlyAtZero
    DispatcherFree
PROPERTIES
    GenerateGetsReqs
