CONSTANTS
  Hazards <- mcMended
  MaxHazards = 3
  StepCommands <- mcNone
  MaxCommands = 0

SPECIFICATION Spec

INVARIANTS
  LocksHome

PROPERTIES
  Completes

CHECK_DEADLOCK FALSE
