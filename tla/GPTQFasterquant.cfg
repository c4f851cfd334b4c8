CONSTANTS
  NCols = 4
  DiagValues <- MCDiagValues
  Configs <- AllConfigs
SPECIFICATION Spec
INVARIANTS
  TypeOK
  Compensated
  UnpermutedOutput
  GroupIndexContract
PROPERTIES
  AlignedRefinement
\* fasterquant returns after Epilogue: the final state is the return.
CHECK_DEADLOCK FALSE
