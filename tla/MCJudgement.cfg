CONSTANTS
  Slots = 8
  TableEnd = 36864
  FlashSize = 4194304
  SectorSize = 4096
  AppAlign = 65536
  Tables <- mcTables
  SOURCE_PARTITIONS <- mcSource
  Required = {"Settings", "apinfo"}
  ChunksOf <- mcChunksOf
  Entries = 6
  Window = {1, 2, 3}
  Outside = {4}
  MaxSaves = 3
  MaxRot = 1

SPECIFICATION Spec

INVARIANTS
  TableSound
  PassKeepsSettings
  FailEarned

CHECK_DEADLOCK FALSE
