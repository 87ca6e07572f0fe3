CONSTANTS
  Buffers = 2
  MaxUploads = 3
  MaxFaults = 2
  MaxCuts = 2

SPECIFICATION Spec

INVARIANTS
  SelectionStarts

PROPERTIES
  HonestHandler
  VerifiedBoots

CHECK_DEADLOCK FALSE
