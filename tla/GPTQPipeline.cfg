\* Every small user dataloader, both selection functions, nsamples 1 and 2,
\* any model behaviour per kind of sample, hidden states by position or by
\* keyword.
CONSTANTS
  Loaders <- MCLoaders
  NSamples = {1, 2}
  PadMaxLength = 2
  KwNames <- MCKwNames
  HiddenModes = {TRUE, FALSE}
  NBlocks = 2
  Layers <- MCLayers
  ModuleOrder <- MCModuleOrder
  Finds <- MCFinds
  UserConfigs <- MCUserConfigs
  FullName <- MCFullName
  Models <- AnyModels
SPECIFICATION Spec
\* execute_quantization returns after the last block or raises.
CHECK_DEADLOCK FALSE
INVARIANTS
  TypeOK
  FirstNSamples
  SequentialCalibration
PROPERTIES
  QuantizationCompletes
