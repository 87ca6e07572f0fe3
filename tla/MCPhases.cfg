CONSTANTS
  Manifests <- mcManifests
  Chunks = 2
  Imprinted = 1
  NvsChunks = 2
  MaxServers = 4
  MaxMishaps = 1
  MaxSaves = 2

SPECIFICATION Spec

INVARIANTS
  TypeOK
  EvidenceTruth

PROPERTIES
  PreflightSnapshot
  StageTruth
  CommitChain
  AllEnd

CHECK_DEADLOCK FALSE
