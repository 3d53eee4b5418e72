SPECIFICATION Spec
CONSTANTS
  Candidates <- MCCandidates
  Epochs <- MCEpochs
  MaxCount = 3
INVARIANTS
  ScanInv
  SelectedIsBest
  NoBootableIsTrue
PROPERTIES
  FailureKeepsDecision
  ImplementsDecision
