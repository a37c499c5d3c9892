SPECIFICATION FairSpec
CONSTANTS
  HighSize = 3
  LowSize = 2
INVARIANTS
  TypeOK
  HalvesBelongTogether
  TicksAddUp
PROPERTIES
  ReadIsAtomic
  TornReadsMissByCarries
  ReadReturns
