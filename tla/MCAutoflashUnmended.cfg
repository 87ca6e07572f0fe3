CONSTANTS
  Hazards <- mcUnmended
  MaxHazards = 1
  StepCommands <- mcNone
  MaxCommands = 0

SPECIFICATION Spec

PROPERTIES
  Completes

CHECK_DEADLOCK FALSE
