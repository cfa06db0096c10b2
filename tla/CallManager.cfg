CONSTANTS
  c1 = c1
  c2 = c2
  c3 = c3
  a = a
  b = b
  d = d
  Calls = {c1, c2, c3}
  CallIDs = {a, b, d}
  SipID <- DistinctIDs
  NoCall = NoCall
  Removers = {r1, r2}
  Waiters = {w1, w2}
SPECIFICATION CMFairSpec
INVARIANTS
  CountMatchesMaps
  SIPEntryIsRegistered
  EveryCallReachable
  WaitersHaveACallToWaitFor
  NoDoubleClose
PROPERTIES
  WaitersAreWoken
