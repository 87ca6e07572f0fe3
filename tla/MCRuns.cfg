CONSTANTS
  Addresses = {"a", "b"}
  Minutes = {"m"}
  MaxSuffix = 2
  Length = 2
  MaxStarts = 3
  MaxKills = 2

SPECIFICATION Spec

INVARIANTS
  AtMostOneLost

PROPERTIES
  NewIsNew
  Drained

CHECK_DEADLOCK FALSE
