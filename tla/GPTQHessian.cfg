CONSTANTS
  Inputs <- MCInputs
  MaxBatches = 3
SPECIFICATION Spec
INVARIANTS
  TypeOK
  HessianRunningMean
