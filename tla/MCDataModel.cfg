CONSTANT MaxFailures = 2
SPECIFICATION ModelSpec
INVARIANTS ModelTypeOK FailuresStayLocal
CHECK_DEADLOCK FALSE
