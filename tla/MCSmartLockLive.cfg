CONSTANTS
  Frame <- LockFrames
  Size <- MCSize
  FifoLen = 1
  InitArgs <- MCInitArgs
  MaxSends = 7
  MaxResets = 1
  Pins <- MCPins
  TickPeriodMs = 25
  TickBytes = 1
  Command <- MCCommand
  InboxLen = 1
  MaxCommands = 1
SPECIFICATION SmartSpec
PROPERTIES OpeningsReachLock TaskReturns UsesLockDriver ImplementsDoorLock
