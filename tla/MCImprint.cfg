CONSTANTS
  Bytes <- mcBytes
  SSID_MARKER = "ssid>"
  PASSWORD_MARKER = "pass>"
  FILLER = "."
  NUL = "0"
  Length = 9
  Published <- mcPublished
  SSID_FIELD_BYTES = 3
  PASSWORD_FIELD_BYTES = 2
  Values <- mcValues
  MaxAlterations = 2

SPECIFICATION ImprintSpec

INVARIANTS
  Provenance
  Rewritten

CHECK_DEADLOCK FALSE
