SPECIFICATION Spec
CONSTANTS
  kByteSize = 16
  kCanarySize = 1
INVARIANTS
  NoFalseFailure
  FaultsAreDetected
  BuffersAreOwned
