SPECIFICATION RunnerSpec
CONSTANTS
  t1 = t1
  t2 = t2
  s1 = s1
  Pass = Pass
  Fail = Fail
  Text = Text
  Tests <- MCTests
  TestNames <- MCTestNames
  ScopeNames <- MCScopeNames
  Value <- MCValue
  kMaxOnScreenLogLines = 5
  MaxTests = 2
  MaxDumpRows = 0
  MaxLost = 1
  MaxCalls = 3
  MaxDepth = 2
INVARIANT
  UnclosedTestIsRunningTest
