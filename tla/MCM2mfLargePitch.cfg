SPECIFICATION Spec
CONSTANTS
  kByteSize = 16
  kCanarySize = 1
INVARIANT LargePitchStepsAreSeen
