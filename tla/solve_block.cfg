SPECIFICATION FairSpec
CONSTANTS
    NumCores = 3
    MaxNonce = 9
CHECK_DEADLOCK FALSE
INVARIANTS
    FoundIfSolvable
PROPERTIES
    AllSolversEnd
