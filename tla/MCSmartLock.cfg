CONSTANTS
  Frame <- LockFrames
  Size <- MCSize
  FifoLen = 1
  InitArgs <- MCInitArgs
  MaxSends = 8
  MaxResets = 1
  Pins <- MCPins
  TickPeriodMs = 25
  TickBytes = 1
  Command <- MCCommand
  InboxLen = 1
  MaxCommands = 2
SPECIFICATION SmartSpec
INVARIANTS SmartTypeOK BootBeforeOpenings OpensAsAsked OpeningsAccounted
           OpeningsAnswerRequests
PROPERTIES TaskAdvances
