SPECIFICATION FairSpec
CONSTANTS
  h1 = h1
  h2 = h2
  NoRequest = none
  none = none
  Slots <- MCSlots
  RingCap = 3
  LogsFirst = 1
  LogsMax = 1
  RingSize = 2
  PageLimit = 1
  MaxLines = 4
  MaxFaults = 2
INVARIANTS
  LogIsExact
PROPERTIES
  NothingSkipped
  ViewCatchesUp
CHECK_DEADLOCK FALSE
