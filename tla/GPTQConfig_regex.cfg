\* Every weight_config form; layers no entry matches.
CONSTANTS
  ModuleOrder <- MCModuleOrder
  LayerNames <- MCLayerNames
  Finds <- MCFinds
  UserConfigs <- MCUserConfigs
SPECIFICATION Spec
INVARIANTS
  UnmatchedLayerExcluded
