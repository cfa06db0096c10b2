CONSTANTS
  InputCap = 1
SPECIFICATION WRFairSpec
CHECK_DEADLOCK FALSE
PROPERTIES
  AnsweredCallsLeaveTheRegistry
  ByeStopsTheMedia
