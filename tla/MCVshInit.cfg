SPECIFICATION Spec
CONSTANTS
  kVshConstantCount = 16
  kConstantsPerPush = 4
  kProbesPerRow = 2
  Width = 3
  kBinaryOutputs = 3
  CaseCount = 10
PROPERTY InitMeansReady
