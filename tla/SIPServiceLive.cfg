CONSTANTS
  Invites = {i1, i2}
  CallIDs = {i1, i2}
  SipID <- OwnIDs
  NoCall = NoCall
  PortMin = 1024
  PortMax = 1026
  Handlers = {h1}
  Limits = {0}
  Drain = Drain
SPECIFICATION MCLiveSpec
CONSTRAINT NoForeign
CHECK_DEADLOCK FALSE
PROPERTIES
  ClosingCallsLeave
  SignalLeadsToExit
