SPECIFICATION Spec
CONSTANTS
  p1 = p1
  p2 = p2
  key = key
  pub = pub
  img = img
  None = None
  Absent = Absent
  Procs <- MCProcs
  Paths <- MCPaths
  Commands <- MCCommands
  CELLS = 2
  MaxRuns = 5
SYMMETRY Symmetry
CHECK_DEADLOCK FALSE
INVARIANTS
  TypeOK
  ReportedIsOnDisk
  DerivedMatchesKey
PROPERTIES
  SettledStays
