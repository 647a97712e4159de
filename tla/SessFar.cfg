SPECIFICATION Spec
CONSTANTS
  r1 = r1
  r2 = r2
  None = None
  Roots <- McRoots
  FIRST = 1
  ScanLimit = 3
  ChainLimit = 4
  UdfLimit = 3
  Images <- TwoSessions
INVARIANT ScansUntilEof
CHECK_DEADLOCK FALSE
