CONSTANTS
  SeqMod = 16
  WinSize = 4
  SweepEach = 2
  OutputCap = 1
  Arrivals = {13, 14, 15, 0, 2, 6}
  StartSeqs = {14}
  MaxBuffers = 4
SPECIFICATION JBSpec
CHECK_DEADLOCK FALSE
INVARIANTS
  RawBuffersReturnedOnce
