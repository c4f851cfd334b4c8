\* Every small user dataloader through a model that runs every sample into
\* block 0 with the same keywords, weight_config with one entry: the only
\* way to fail is a short set.
CONSTANTS
  Loaders <- MCLoaders
  NSamples = {1, 2}
  PadMaxLength = 2
  KwNames <- MCKwNames
  HiddenModes = {TRUE, FALSE}
  NBlocks = 2
  Layers <- MCLayers
  ModuleOrder <- MCModuleOrder
  Finds <- MCFinds
  UserConfigs <- OneEntry
  FullName <- MCFullName
  Models <- UniformModels
SPECIFICATION Spec
\* execute_quantization returns after the last block or raises.
CHECK_DEADLOCK FALSE
INVARIANTS
  ShortfallNonFatal
