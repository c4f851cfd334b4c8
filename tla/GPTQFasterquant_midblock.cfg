CONSTANTS
  NCols = 4
  DiagValues <- MCDiagValues
  Configs <- MidBlockConfigs
SPECIFICATION Spec
PROPERTIES
  SequentialRefinement
\* fasterquant returns after Epilogue: the final state is the return.
CHECK_DEADLOCK FALSE
