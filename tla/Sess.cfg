SPECIFICATION FairSpec
CONSTANTS
  r1 = r1
  r2 = r2
  None = None
  Roots <- McRoots
  FIRST = 1
  ScanLimit = 4
  ChainLimit = 4
  UdfLimit = 3
  Images <- AnyImages
INVARIANTS TypeOK SessionsFound JolietPreferred SessionOwnPvd SoundOpens
PROPERTY CallsEnd
CHECK_DEADLOCK FALSE
