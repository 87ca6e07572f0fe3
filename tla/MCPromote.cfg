CONSTANTS
  Poll = 1
  Gap = 2
  Settle = 2
  Deadline = 6
  Fresh = 2
  Delay = 1
  BootMin = 1
  BootMax = 2
  MaxUptime = 6
  MaxFaults = 2
  MaxRuns = 2

SPECIFICATION Spec

INVARIANTS
  TypeOK
  RestartReal
  RestartSeen

PROPERTIES
  HighSlot

CHECK_DEADLOCK FALSE
