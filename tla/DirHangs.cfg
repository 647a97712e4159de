SPECIFICATION FairSpec
CONSTANTS
  a = a
  b = b
  Names <- McNames
  SECTOR <- McSectorSize
  Regions <- AllRegions
PROPERTY ReadDirEnds
CHECK_DEADLOCK FALSE
