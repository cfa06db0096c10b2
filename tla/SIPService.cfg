CONSTANTS
  Invites = {i1, i2}
  CallIDs = {i1, i2}
  SipID <- OwnIDs
  NoCall = NoCall
  PortMin = 1024
  PortMax = 1026
  Handlers = {h1}
  Limits = {0, 1}
  Drain = Drain
SPECIFICATION SvcSpec
SYMMETRY InviteSymmetry
CONSTRAINT ForeignLow
VIEW ServiceView
CHECK_DEADLOCK FALSE
INVARIANTS
  PortsFollowCalls
  RegisteredUntilFinished
  LimitHoldsOneAtATime
  DrainWaitsForCalls
