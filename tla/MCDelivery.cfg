CONSTANTS
  Length = 4
  MaxRequests = 3

SPECIFICATION DeliverySpec

INVARIANTS
  CoverageExact
  SuccessTruth

PROPERTIES
  ProcessEnds

CHECK_DEADLOCK FALSE
