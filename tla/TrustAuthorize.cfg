SPECIFICATION Spec
CONSTANTS
  k1 = k1
  k2 = k2
  k3 = k3
  a = a
  b = b
  PublicKeys <- MCPublicKeys
  KeyIds <- MCKeyIds
  KeyIdOf <- MCKeyIdOf
  MAX_KEYS = 2
  Stores <- MCStores
  Requests <- MCRequests
INVARIANTS
  LoopInv
  HeldRecordIsAuthorized
  ValidationIsExact
PROPERTIES
  OnlySuccessPublishes
  ImplementsDecision
