SPECIFICATION FairSpec
CONSTANT Events <- MCEvents
CHECK_DEADLOCK FALSE
PROPERTY CleanupReturns
