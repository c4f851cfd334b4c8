CONSTANTS
  Configs <- AsymConfigs
  Weights <- MCWeights
  Grid = 5
  MaxShrink <- MCMaxShrink
  Norm = 2
SPECIFICATION Spec
INVARIANTS
  TypeOK
  RoundTripBound
  MseNoWorse
