CONSTANTS
  Command <- MCCommand
  InboxLen = 2
  MaxCommands = 3
SPECIFICATION ZclSpec
INVARIANTS BooleanWriteAccepted
CHECK_DEADLOCK FALSE
