CONSTANTS
  Frame <- LockFrames
  Size <- MCSize
  FifoLen = 3
  InitArgs <- MCInitArgs
  MaxSends = 4
  MaxResets = 1
  Pins <- MCPins
  TickPeriodMs = 10
  TickBytes = 1
SPECIFICATION LockSpec
INVARIANTS LockTypeOK LockInv LatchAfterWakeup LineSilentBeforeLatch CallNeverStuck
PROPERTIES OkMeansSent CallAdvances CallsReturn UsesUartDriver
