SPECIFICATION Spec
CONSTANTS
  Base = 4
  Width = 2
  Order = 13
  QueueCap = 3
  MaxRaised = 1
  Requests <- MCRequests
  CallerQueues <- MCCallerQueues
INVARIANTS
  TypeOK
  FreedExactlyOnce
  QueueRestored
  VerdictMeansIt
  DigestAllOrNothing
PROPERTY
  ImplementsDecision
