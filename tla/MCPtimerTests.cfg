SPECIFICATION FairSpec
CONSTANTS
  N = 64
  HighSize = 4
  Offset = 3
  Over = 2
  Far = 8
  Timeout = 8
  LongTimeout = 74
  Delay = 1
  Near = 1
  kMaxAlarmCaptures = 3
  BootAlarms = {0, 5}
INVARIANTS
  NoFalseFailure
  FaultsAreDetected
  FiringsRecorded
  NothingArmedBetweenTests
PROPERTIES
  SuiteEnds
