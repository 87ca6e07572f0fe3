CONSTANTS
  Hazards <- mcAll
  MaxHazards = 3
  StepCommands <- mcCommands
  MaxCommands = 2

SPECIFICATION Spec

INVARIANTS
  WriteAhead
  VerifiedTruth
  CommitEvidenceTruth

PROPERTIES
  CommitGuarded

CHECK_DEADLOCK FALSE
