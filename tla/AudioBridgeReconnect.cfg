CONSTANTS
  Conns = {k1, k2}
  NoConn = NoConn
  SendCap = 2
  MaxAudio = 2
  WebRTC = FALSE
SPECIFICATION ABFairSpec
CHECK_DEADLOCK FALSE
INVARIANTS
  SlotIsReusable
