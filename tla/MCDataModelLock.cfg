CONSTANT MaxFailures = 2
SPECIFICATION ModelSpec
INVARIANTS LockAttributesRegistered
CHECK_DEADLOCK FALSE
