CONSTANTS
  Command <- MCCommand
  InboxLen = 2
  MaxCommands = 3
SPECIFICATION ZclSpec
INVARIANTS ZclTypeOK EveryUnlockOpens NeverOpensTwice OtherIdsNeverOpen
CHECK_DEADLOCK FALSE
