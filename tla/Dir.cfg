SPECIFICATION FairSpec
CONSTANTS
  a = a
  b = b
  Names <- McNames
  SECTOR <- McSectorSize
  Regions <- McRegions
INVARIANTS TypeOK ExtentsPreserved ChainsWhole EverySectorListed
PROPERTY LaidOutEnds
CHECK_DEADLOCK FALSE
