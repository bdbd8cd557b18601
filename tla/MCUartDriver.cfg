CONSTANTS
  Frame = {"key", "open"}
  Size <- MCSize
  FifoLen = 2
  InitArgs <- MCInitArgs
  MaxSends = 3
  MaxResets = 1
SPECIFICATION UartSpec
INVARIANTS TypeOK StreamIntegrity FramesWhole BacklogBounded UartInv
PROPERTIES SendReturns ImplementsByteLink
