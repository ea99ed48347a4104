SPECIFICATION StartupSpec
CONSTANTS
  Configs <- MCConfigs
  Checkpoints <- MCCheckpoints
  Machines <- MCMachines
INVARIANTS
  BuildDtypeContained
  FullyLoaded
  ReadyGuarantees
  ProfiledPoolAllocates
