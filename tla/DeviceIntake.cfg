SPECIFICATION Spec
CONSTANTS
  a = a
  b = b
  k1 = k1
  k2 = k2
  k3 = k3
  p1 = p1
  p2 = p2
  HEADER_SIZE = 2
  SECTION_SIZE = 3
  MANIFEST_HEADER = 4
  ID_MAX = 5
  U32_MAX = 31
  SIZE_MAX = 255
  MAX_KEYS = 2
  NoId = NoId
  NoKey = NoKey
  NoTarget = NoTarget
  Unset = Unset
  KeyIds <- MCKeyIds
  Keys <- MCKeys
  KeyIdOf <- MCKeyIdOf
  Payloads <- MCPayloads
  Offers <- MCOffers
INVARIANTS
  TypeOK
  ToolAgrees
PROPERTY
  ImplementsIntake
