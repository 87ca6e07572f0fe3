CONSTANTS
  Builds = {"a", "b"}
  Captures = {"x", "y"}
  MaxManifests = 3
  MaxServers = 4
  MaxMishaps = 1

SPECIFICATION Spec

INVARIANTS
  ServedPinned
  IdentityTruth

PROPERTIES
  Mended

CHECK_DEADLOCK FALSE
