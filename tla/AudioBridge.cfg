CONSTANTS
  Conns = {k1, k2}
  NoConn = NoConn
  SendCap = 2
  MaxAudio = 1
  WebRTC = FALSE
SPECIFICATION ABFairSpec
CHECK_DEADLOCK FALSE
INVARIANTS
  OpenChannelsAreOwned
  GaugeCountsOpenChannels
  UpgradesExclusive
  QueuedNoticeIsDelivered
PROPERTIES
  EveryAgentLetGo
