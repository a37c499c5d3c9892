SPECIFICATION FairSpec
CONSTANTS
  RingSize = 3
  kNumLoops = 2
  kPushSetsPerLoop = 1
  kNumEntries = 1
  kStateBufferEntries = 3
  EmptyRounds = 1
  kMaxLoops = 2
INVARIANTS
  LinesGiveBuffer
  CapturesMakeSense
PROPERTIES
  EmptiedIsEmpty
  WaitsEnd
