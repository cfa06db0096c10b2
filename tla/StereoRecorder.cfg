CONSTANTS
  QueueCap = 2
  Chunks <- MCChunks
  Threshold = 2
  BufSize = 4
  MaxBytes = 7
  Pad = Pad
SPECIFICATION SRSpec
CHECK_DEADLOCK FALSE
INVARIANTS
  RecordingIsFaithful
  SamplesStayWhole
