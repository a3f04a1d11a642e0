SPECIFICATION Spec
CONSTANT Events <- MCEvents
CHECK_DEADLOCK FALSE
INVARIANT EveryMessageRead
