SPECIFICATION Spec
CONSTANTS
  k1 = k1
  k2 = k2
  key1 = key1
  key2 = key2
  p1 = p1
  p2 = p2
  HEADER_SIZE = 2
  SECTION_SIZE = 3
  MANIFEST_HEADER = 4
  ID_MAX = 5
  U32_MAX = 31
  SIZE_MAX = 255
  NoId = NoId
  NoKey = NoKey
  NoTarget = NoTarget
  Unset = Unset
  KeyIds <- MCKeyIds
  Payloads <- MCPayloads
  Keys <- MCKeys
  KeyIdOf <- MCKeyIdOf
  Inputs <- MCInputs
  Alterations <- MCAlterations
  Arguments <- MCArguments
INVARIANTS
  SignedReachesDevice
  ParsersAgree
  ValidIsUnaltered
  ValidIsForTarget
  LeftoverIsForeignKeyId
