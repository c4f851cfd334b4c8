CONSTANTS
  NLayers = 2
  MaxPosition = 2
  MaxGen = 3
  MaxSteps = 3
  Batches <- MCBatches
  Beams <- MCBeams
  Prompts <- MCPrompts
  MaskKinds <- MCMaskKinds
  Impls <- MCImpls
  GIdxs <- MCMixedGIdxs
  XetlaModes <- MCXetlaModes
  BeamPerCall = FALSE
SPECIFICATION Spec
INVARIANTS
  AttendsCurrentContext
\* The caller stops after its last generation.
CHECK_DEADLOCK FALSE
