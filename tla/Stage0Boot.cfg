SPECIFICATION Spec
CONSTANTS
  Images <- MCImages
  Factory <- MCFactory
  MaxInstalls = 3
  MaxJumps = 3
  MaxLost = 2
INVARIANTS
  TypeOK
  TrialStartsBounded
  FallbackPreserved
  RunsWhatWasSelected
PROPERTY
  TrialsEnd
