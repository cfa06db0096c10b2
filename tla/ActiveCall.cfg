CONSTANTS
  OutputCap = 2
  MaxEmits = 4
SPECIFICATION ACFairSpec
CHECK_DEADLOCK FALSE
INVARIANTS
  ReleasedAfterMediaStopped
  LateReaderIsHarmless
  ToldBeforeClosed
PROPERTIES
  EndedCallsFinish
  ImplementsCallLifecycle
