\* Every weight_config form, with the keys of the docstring's example.
CONSTANTS
  ModuleOrder <- MCModuleOrder
  LayerNames <- MCLayerNames
  Finds <- MCFinds
  UserConfigs <- MCUserConfigs
SPECIFICATION Spec
INVARIANTS
  DocumentedSettingsHonoured
