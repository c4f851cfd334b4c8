CONSTANTS
  Configs <- SymConfigs
  Weights <- MCWeights
  Grid = 5
  MaxShrink <- MCMaxShrink
  Norm = 2
SPECIFICATION Spec
INVARIANTS
  RoundTripBound
