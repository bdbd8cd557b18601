CONSTANTS
  Command <- MCCommand
  InboxLen = 2
  MaxCommands = 3
SPECIFICATION ZclSpec
INVARIANTS OpensOnlyForUnlock
CHECK_DEADLOCK FALSE
