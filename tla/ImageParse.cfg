SPECIFICATION ParseSpec
CONSTANTS
  k1 = k1
  k2 = k2
  p1 = p1
  HEADER_SIZE = 2
  SECTION_SIZE = 3
  MANIFEST_HEADER = 4
  ID_MAX = 5
  U32_MAX = 31
  SIZE_MAX = 31
  KeyIds <- MCKeyIds
  Payloads <- MCPayloads
  Images <- MCImages
INVARIANTS
  ViewIsWellFormed
  RefusalIsJustified
  RangesNeverFail
PROPERTY
  OnlySuccessPublishes
