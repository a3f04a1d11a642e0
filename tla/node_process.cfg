SPECIFICATION FairSpec
CONSTANT Events <- MCEvents
CHECK_DEADLOCK FALSE
INVARIANTS
    TypeOK
    NothingLeftRunning
    PublishedAddrs
PROPERTIES
    NodeStopReturns
    StartReturns
    GoroutinesEnd
