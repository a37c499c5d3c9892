SPECIFICATION Spec
CONSTANTS
  t1 = t1
  t2 = t2
  s1 = s1
  Pass = Pass
  Fail = Fail
  Text = Text
  TestNames <- MCTestNames
  ScopeNames <- MCScopeNames
  Value <- MCValue
  kMaxOnScreenLogLines = 2
  MaxDepth = 2
  MaxTests = 2
  MaxDumpRows = 1
  MaxLost = 1
INVARIANTS
  TypeOK
  WellFormed
  CompleteWhenDone
  Nesting
PROPERTY
  RecordedOnce
CONSTRAINT
  Bounded
SYMMETRY
  Symmetry
