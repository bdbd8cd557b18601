CONSTANT MaxFailures = 2
SPECIFICATION ModelSpec
INVARIANTS IdentifyTimeStartsAtZero
CHECK_DEADLOCK FALSE
