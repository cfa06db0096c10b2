CONSTANTS
  NoAddr = NoAddr
  Inputs <- MCInputs
  Asked <- MCAsked
  SourceCap = 1
  MaxBytes = 4
  BytesPerTick = 2
  RingTicks = 2
  TsIncrement = 1
  SampleRate = 1000
  PTime = 6
  U16 = 16
  U32 = 64
  StartSeq = 14
  StartTs = 61
  Chunks = {1, 3}
  Requests = {1, 2}
  Durations <- MCDurations
  MaxPayloads = 8
  Zero = Zero
  Stale = Stale
SPECIFICATION MSSpec
CHECK_DEADLOCK FALSE
INVARIANTS
  RingHoldsUnsentAudio
  TonesGrowToTheirLength
  EachDigitOnce
  CommonCodecIsAgreed
PROPERTIES
  ImplementsAudioQueue
  TimestampsTellDigitsApart
