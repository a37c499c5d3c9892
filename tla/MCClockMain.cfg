SPECIFICATION Spec
CONSTANTS
  HighSize = 2
  LowSize = 5
  kTicksPerInterval = 2
  First = 3
  Delay = 1
  kTestNumerator = 14
  kTestDenominator = 5
  kMaxNumeratorDenominator = 14
  kTimerSkewTestSeconds = 1
  RestartSeconds = 2
  MaxEvents = 2
  MaxQpc = 3
INVARIANTS
  TypeOK
PROPERTIES
  SkewTestEndsOnce
  AlarmsKeepTheirInterval
  DeltaIsLateness
