SPECIFICATION Spec
CONSTANTS
  None = None
  NoCover = NoCover
  SECTOR = 4
  SEPARATOR = "/"
  MAX_DIR_SIZE = 16
  MAX_WALK_DEPTH = 2
  SYSTEM_AREA = 1
  GAP_CAP = 11
  CHUNK = 2
  MaxBad = 1
  Images <- AllImages
INVARIANTS
  TypeOK
  SkippedIsSurfaced
  EofJustified
  OverlapsReported
  CyclesFlagged
  LostComplete
  OldContentReported
  GapsUnclaimed
PROPERTY SweepSpec
