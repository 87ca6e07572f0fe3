CONSTANTS
  Table = 0
  LiveNvs <- mcLiveNvs
  NewOta <- mcNewOta
  OldOta <- mcOldOta
  Dst = 3
  D = 2
  L = 3
  T = 4
  NvsEnd = 4
  MaxFaults = 2
  MaxCuts = 2
  MaxLoads = 2

SPECIFICATION Spec

INVARIANTS
  CopySafe
  PowerSafe
  PassTruth
  RollbackTruth

PROPERTIES
  RunEnds
  SwitchesLayout

CHECK_DEADLOCK FALSE
