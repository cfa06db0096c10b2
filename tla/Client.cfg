CONSTANTS
  Cap = 1
  ListenOnly = TRUE
  MaxBuffers = 4
SPECIFICATION CLFairSpec
CHECK_DEADLOCK FALSE
INVARIANTS
  PumpsNeverMeetClosedChannels
  BuffersReturnedOnce
PROPERTIES
  CloseReturns
