CONSTANTS
  MaxStartErrors = 1
  MaxLeaves = 2
  MaxReboots = 2
SPECIFICATION CommissioningSpec
INVARIANTS CommissioningTypeOK SingleChain NeverStranded
PROPERTIES NeverStartsWhenBusy EventuallyConnected ImplementsJoinRetry
CHECK_DEADLOCK FALSE
