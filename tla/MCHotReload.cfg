SPECIFICATION MCSpec
CONSTANTS
  Collectors = {jobs, nodes, licenses}
  Reconfigurable = {jobs, nodes}
  Configs = {{jobs, nodes, licenses}, {jobs, nodes}, {nodes, licenses}}
  Defaults = {jobs, nodes, licenses}
  Broken = Broken
  Replaces = FALSE
  EditsUnseen = FALSE
  EditBound = 5
  FileSettings <- MCFileSettings
  Environments <- MCEnvironments
  SettingBound = 2
  ChangeBound = 2
INVARIANTS
  RunsCurrent
  
  ReloadIsRestart
PROPERTIES
  NeverGoesBack
  Converges
CHECK_DEADLOCK FALSE
